----------------------- MODULE PrescribedForms_proofs -----------------------
(* Theorems about the way of a prescribed form, for any instruments, forms,  *)
(* rules, documents, answers of the model and batch sizes: how paragraphs    *)
(* become sections, what a report consists of and rests on, that it covers   *)
(* the form of the instrument that was loaded, and that one rule judges      *)
(* contractors on every day.                                                 *)
EXTENDS PrescribedForms, FiniteSetTheorems, TLAPS

-----------------------------------------------------------------------------
(* The parser. What is true of the sections, the open clause and the open    *)
(* term is stated with parameters, as one paragraph may flush both.          *)

KeyType == [schedule : Nat, form : Nat, no : Nat]

FormTypes ==
    /\ schedule_no \in Nat /\ form_no \in Nat /\ form_broken \in BOOLEAN
    /\ form_last_term_key \in Nat /\ form_start_index \in Nat

\* Whoever opens a term has opened its form, and before that the schedule.
Book ==
    /\ opened \subseteq KeyType /\ skipped \subseteq opened /\ repeated \in BOOLEAN
    /\ form_no # 0 => ThisForm \in opened
    /\ \A k \in opened : k.form # 0 => FormOf(k) \in opened
    /\ form_no # 0 /\ ThisForm \in skipped /\ ~repeated => form_broken

Sound(secs, cur, t) ==
    /\ secs \in Seq(KeyType) /\ cur \in KeyType /\ t \in Nat
    /\ form_no # 0 => form_start_index <= Len(secs)
    /\ cur # NoClause => cur \in opened /\ cur.form = 0 /\ cur.no # 0
    /\ \A i \in 1..Len(secs) : secs[i] \in opened /\ secs[i].no # 0
    /\ t # 0 => /\ form_no # 0 /\ ~form_broken /\ t = form_last_term_key
                /\ Key(schedule_no, form_no, t) \in opened

\* Terms of the open form stand after its start, in ascending order.
Unique(secs, cur, t) ==
    /\ \A i, j \in 1..Len(secs) : secs[i] = secs[j] => i = j
    /\ cur # NoClause => \A i \in 1..Len(secs) : secs[i] # cur
    /\ \A i \in 1..Len(secs) : secs[i].form # 0 => FormOf(secs[i]) \notin skipped
    /\ form_no # 0 =>
        \A i \in 1..Len(secs) : FormOf(secs[i]) = ThisForm =>
            /\ i > form_start_index /\ secs[i].no <= form_last_term_key
            /\ t # 0 => secs[i].no < t

\* After its start stand only its terms and clauses that were late.
Placed(secs, lt) ==
    form_no # 0 =>
        \A i \in 1..Len(secs) : i > form_start_index =>
            FormOf(secs[i]) = ThisForm \/ <<ThisForm, secs[i]>> \in lt

Kept(secs, cur, t) ==
    \A k \in opened :
        \/ k.no = 0 \/ (\E i \in 1..Len(secs) : secs[i] = k)
        \/ k = cur \/ (t # 0 /\ k = Key(schedule_no, form_no, t))
        \/ k.form # 0 /\ FormOf(k) \in skipped
        \/ \E f \in skipped : <<f, k>> \in late

ParseInv ==
    /\ FormTypes /\ Book
    /\ Sound(sections, current, term)
    /\ ~repeated => Unique(sections, current, term)
    /\ reading => Placed(sections, late)
    /\ Kept(sections, current, term)
    /\ ~reading => current = NoClause /\ term = 0

LEMMA KeyFacts ==
  ASSUME NEW s \in Nat, NEW f \in Nat, NEW n \in Nat
  PROVE  /\ Key(s, f, n) \in KeyType /\ NoClause \in KeyType
         /\ FormOf(Key(s, f, n)) = Key(s, f, 0)
         /\ Key(s, f, n).schedule = s /\ Key(s, f, n).form = f /\ Key(s, f, n).no = n
BY DEF Key, KeyType, NoClause, FormOf

\* Flushing the open clause keeps what is true of the sections.
LEMMA FlushKeeps ==
  ASSUME FormTypes, NEW secs, NEW t, NEW lt, Sound(secs, current, t)
  PROVE  /\ Sound(Flushed(secs), NoClause, t)
         /\ Unique(secs, current, t) => Unique(Flushed(secs), NoClause, t)
         /\ Kept(secs, current, t) => Kept(Flushed(secs), NoClause, t)
         /\ Placed(secs, lt) /\ (form_no # 0 /\ current # NoClause => <<ThisForm, current>> \in lt)
              => Placed(Flushed(secs), lt)
<1>1. CASE current = NoClause
  BY <1>1 DEF Flushed
<1>2. CASE current # NoClause
  <2>1. /\ Flushed(secs) = Append(secs, current) /\ Len(Append(secs, current)) = Len(secs) + 1
        /\ Append(secs, current)[Len(secs) + 1] = current
        /\ \A i \in 1..Len(secs) : Append(secs, current)[i] = secs[i]
        /\ Len(secs) \in Nat /\ Append(secs, current) \in Seq(KeyType)
    BY <1>2 DEF Flushed, Sound
  <2> DEFINE new == Append(secs, current)
  <2>2. \A i \in 1..Len(new) : (i \in 1..Len(secs) /\ new[i] = secs[i]) \/ (i = Len(secs) + 1 /\ new[i] = current)
    BY <2>1
  <2> HIDE DEF new
  <2>3. new \in Seq(KeyType) /\ Len(new) = Len(secs) + 1 /\ Len(secs) \in Nat /\ Flushed(secs) = new
        /\ new[Len(secs) + 1] = current /\ \A i \in 1..Len(secs) : new[i] = secs[i]
    BY <2>1 DEF new
  <2>4. NoClause \in KeyType /\ current.form = 0
    BY <1>2, KeyFacts DEF Sound
  <2>5. Sound(new, NoClause, t)
    BY <1>2, <2>2, <2>3, <2>4 DEF Sound, FormTypes
  <2>6. FormOf(current) # ThisForm \/ form_no = 0
    BY <2>4 DEF FormOf, ThisForm, Key, Sound, KeyType
  <2>7. ASSUME Unique(secs, current, t) PROVE Unique(new, NoClause, t)
    <3>1. \A i, j \in 1..Len(new) : new[i] = new[j] => i = j
      BY <1>2, <2>2, <2>7 DEF Unique
    <3>2. \A i \in 1..Len(new) : new[i].form # 0 => FormOf(new[i]) \notin skipped
      BY <2>2, <2>4, <2>7 DEF Unique
    <3>3. form_no # 0 =>
            \A i \in 1..Len(new) : FormOf(new[i]) = ThisForm =>
                i > form_start_index /\ new[i].no <= form_last_term_key /\ (t # 0 => new[i].no < t)
      BY <2>2, <2>6, <2>7 DEF Unique
    <3> QED
      BY <3>1, <3>2, <3>3 DEF Unique
  <2>8. ASSUME Kept(secs, current, t) PROVE Kept(new, NoClause, t)
    <3> SUFFICES ASSUME NEW k \in opened, k.no # 0
                 PROVE  \/ (\E i \in 1..Len(new) : new[i] = k)
                        \/ (t # 0 /\ k = Key(schedule_no, form_no, t))
                        \/ k.form # 0 /\ FormOf(k) \in skipped
                        \/ \E f \in skipped : <<f, k>> \in late
      BY DEF Kept
    <3>1. Len(secs) + 1 \in 1..Len(new) /\ \A i \in 1..Len(secs) : i \in 1..Len(new)
      BY <2>3
    <3> QED
      BY <2>3, <2>8, <3>1 DEF Kept
  <2>9. ASSUME Placed(secs, lt), form_no # 0 => <<ThisForm, current>> \in lt PROVE Placed(new, lt)
    BY <2>2, <2>9 DEF Placed
  <2> QED
    BY <1>2, <2>3, <2>5, <2>7, <2>8, <2>9
<1> QED
  BY <1>1, <1>2

\* So does flushing the open term.
LEMMA TermFlushKeeps ==
  ASSUME FormTypes, NEW secs, NEW cur, NEW lt, Sound(secs, cur, term)
  PROVE  /\ Sound(TermFlushed(secs), cur, 0)
         /\ Unique(secs, cur, term) /\ (form_no # 0 /\ ThisForm \in skipped => form_broken)
              => Unique(TermFlushed(secs), cur, 0)
         /\ Kept(secs, cur, term) => Kept(TermFlushed(secs), cur, 0)
         /\ Placed(secs, lt) => Placed(TermFlushed(secs), lt)
<1>1. CASE term = 0
  BY <1>1 DEF TermFlushed
<1>2. CASE term # 0
  <2> DEFINE k0 == Key(schedule_no, form_no, term)
             new == Append(secs, k0)
  <2>1. k0 \in KeyType /\ FormOf(k0) = ThisForm /\ k0.no = term /\ k0.form = form_no /\ k0 \in opened
    BY <1>2, KeyFacts DEF FormTypes, Sound, ThisForm
  <2>2. form_no # 0 /\ ~form_broken /\ term = form_last_term_key /\ term \in Nat
        /\ form_start_index <= Len(secs) /\ form_start_index \in Nat
    BY <1>2 DEF Sound, FormTypes
  <2> HIDE DEF k0
  <2>3. /\ new \in Seq(KeyType) /\ Len(new) = Len(secs) + 1 /\ Len(secs) \in Nat
        /\ new[Len(secs) + 1] = k0 /\ \A i \in 1..Len(secs) : new[i] = secs[i]
    BY <2>1 DEF Sound
  <2>4. TermFlushed(secs) = new
    BY <1>2 DEF TermFlushed, k0
  <2> HIDE DEF new
  <2>5. \A i \in 1..Len(new) : (i \in 1..Len(secs) /\ new[i] = secs[i]) \/ (i = Len(secs) + 1 /\ new[i] = k0)
    BY <2>3
  <2>6. Sound(new, cur, 0)
    BY <1>2, <2>1, <2>2, <2>3, <2>5 DEF Sound
  <2>7. ASSUME Unique(secs, cur, term), form_no # 0 /\ ThisForm \in skipped => form_broken PROVE Unique(new, cur, 0)
    <3>1. \A i \in 1..Len(secs) : secs[i] # k0
      <4>1. \A i \in 1..Len(secs) : FormOf(secs[i]) = ThisForm => secs[i].no < term
        BY <1>2, <2>2, <2>7 DEF Unique
      <4> QED
        BY <2>1, <2>2, <4>1
    <3>2. \A i, j \in 1..Len(new) : new[i] = new[j] => i = j
      BY <2>3, <2>5, <2>7, <3>1 DEF Unique
    <3>3. cur # NoClause => \A i \in 1..Len(new) : new[i] # cur
      <4>1. cur # NoClause => cur # k0
        BY <2>1, <2>2 DEF Sound
      <4> QED
        BY <2>5, <2>7, <4>1 DEF Unique
    <3>4. \A i \in 1..Len(new) : new[i].form # 0 => FormOf(new[i]) \notin skipped
      BY <2>1, <2>2, <2>5, <2>7 DEF Unique
    <3>5. \A i \in 1..Len(new) : FormOf(new[i]) = ThisForm =>
            i > form_start_index /\ new[i].no <= form_last_term_key
      BY <2>1, <2>2, <2>3, <2>5, <2>7 DEF Unique
    <3> QED
      BY <3>2, <3>3, <3>4, <3>5 DEF Unique
  <2>8. ASSUME Kept(secs, cur, term) PROVE Kept(new, cur, 0)
    <3> SUFFICES ASSUME NEW k \in opened, k.no # 0
                 PROVE  \/ (\E i \in 1..Len(new) : new[i] = k)
                        \/ k = cur
                        \/ k.form # 0 /\ FormOf(k) \in skipped
                        \/ \E f \in skipped : <<f, k>> \in late
      BY DEF Kept
    <3>1. Len(secs) + 1 \in 1..Len(new) /\ \A i \in 1..Len(secs) : i \in 1..Len(new)
      BY <2>3
    <3> QED
      BY <2>3, <2>8, <3>1 DEF Kept, k0
  <2>9. ASSUME Placed(secs, lt) PROVE Placed(new, lt)
    BY <2>1, <2>5, <2>9 DEF Placed
  <2> QED
    BY <2>4, <2>6, <2>7, <2>8, <2>9
<1> QED
  BY <1>1, <1>2 DEF Sound

LEMMA EmptyLen ==
  /\ Len(<<>>) = 0 /\ 1..0 = {} /\ <<>> \in Seq(KeyType)
OBVIOUS

LEMMA InitParseInv ==
  ParseInit => ParseInv
<1> SUFFICES ASSUME ParseInit PROVE ParseInv
  OBVIOUS
<1> USE DEF ParseInit
<1>1. FormTypes /\ Book
  BY DEF FormTypes, Book
<1>2. Sound(sections, current, term) /\ Unique(sections, current, term)
  BY EmptyLen, KeyFacts DEF Sound, Unique
<1>3. Placed(sections, late) /\ Kept(sections, current, term)
  BY EmptyLen DEF Placed, Kept
<1> QED
  BY <1>1, <1>2, <1>3 DEF ParseInv

LEMMA HeadingKeeps ==
  ASSUME ParseInv, ReadHeading
  PROVE  ParseInv'
<1> USE DEF ReadHeading, Paragraph
<1>1. FormTypes /\ Book /\ (FormTypes /\ Book)'
  BY DEF ParseInv, FormTypes, Book, ThisForm, form
<1>2. /\ Sound(sections', NoClause, term)
      /\ ~repeated => Unique(sections', NoClause, term)
      /\ Kept(sections', NoClause, term)
  BY <1>1, FlushKeeps DEF ParseInv
<1>3. Placed(sections', late')
  <2>1. Placed(sections, late')
    BY DEF ParseInv, Placed, Late
  <2>2. form_no # 0 /\ current # NoClause => <<ThisForm, current>> \in late'
    BY DEF Late
  <2> QED
    BY <1>1, <2>1, <2>2, FlushKeeps DEF ParseInv
<1>4. Sound(sections, current, term)'
  BY <1>2 DEF Sound, form
<1>5. (~repeated => Unique(sections, current, term))'
  BY <1>2 DEF Unique, form, ThisForm
<1>6. Placed(sections, late)'
  BY <1>3 DEF Placed, form, ThisForm
<1>7. Kept(sections, current, term)'
  BY <1>2 DEF Kept, Late, form
<1> QED
  BY <1>1, <1>4, <1>5, <1>6, <1>7 DEF ParseInv

LEMMA FormHeadingKeeps ==
  ASSUME ParseInv, ReadFormHeading
  PROVE  ParseInv'
<1> USE DEF ReadFormHeading, Paragraph
<1>1. FormTypes /\ Book /\ (FormTypes /\ Book)'
  BY DEF ParseInv, FormTypes, Book, ThisForm, form, history
<1>2. /\ Sound(sections', current, 0)
      /\ ~repeated => Unique(sections', current, 0)
      /\ Kept(sections', current, 0)
      /\ Placed(sections', late)
  BY <1>1, TermFlushKeeps DEF ParseInv, Book
<1>4. Sound(sections, current, term)'
  BY <1>2 DEF Sound, form, history
<1>5. (~repeated => Unique(sections, current, term))'
  BY <1>2 DEF Unique, form, ThisForm, history
<1>6. Placed(sections, late)'
  BY <1>2 DEF Placed, form, ThisForm, history
<1>7. Kept(sections, current, term)'
  BY <1>2 DEF Kept, form, history
<1> QED
  BY <1>1, <1>4, <1>5, <1>6, <1>7 DEF ParseInv

LEMMA ScheduleKeeps ==
  ASSUME ParseInv, NEW s \in Schedules, ReadSchedule(s)
  PROVE  ParseInv'
<1> USE DEF ReadSchedule, Paragraph
<1>1. FormTypes /\ Book /\ s \in Nat /\ Key(s, 0, 0) \in KeyType /\ Key(s, 0, 0).form = 0
  BY ParserAssumption, KeyFacts DEF ParseInv
<1>2. FormTypes' /\ Book'
  BY <1>1 DEF FormTypes, Book, Open
<1>3. /\ Sound(Flushed(sections), NoClause, term)
      /\ ~repeated => Unique(Flushed(sections), NoClause, term)
      /\ Kept(Flushed(sections), NoClause, term)
  BY <1>1, FlushKeeps DEF ParseInv
<1>4. /\ Sound(sections', NoClause, 0)
      /\ ~repeated => Unique(sections', NoClause, 0)
      /\ Kept(sections', NoClause, 0)
  BY <1>1, <1>3, TermFlushKeeps DEF Book
<1>5. Sound(sections, current, term)' /\ Placed(sections, late)'
  BY <1>4 DEF Sound, Open, Placed
<1>6. (~repeated => Unique(sections, current, term))'
  BY <1>4 DEF Unique, Open
<1>7. Kept(sections, current, term)'
  <2>1. \A k \in opened' : k \in opened \/ k.no = 0
    BY KeyFacts, ParserAssumption DEF Open
  <2> QED
    BY <1>4, <2>1 DEF Kept
<1> QED
  BY <1>2, <1>5, <1>6, <1>7 DEF ParseInv

LEMMA FormKeeps ==
  ASSUME ParseInv, NEW f \in Forms, ReadForm(f)
  PROVE  ParseInv'
<1> USE DEF ReadForm, Paragraph
<1> DEFINE k0 == Key(schedule_no, f, 0)
<1>1. /\ FormTypes /\ Book /\ f \in Nat /\ f # 0 /\ k0 \in KeyType /\ k0.form = f /\ k0.no = 0
      /\ FormOf(k0) = k0 /\ ThisForm' = k0
  BY ParserAssumption, KeyFacts DEF ParseInv, FormTypes, ThisForm
<1>2. opened' = opened \cup {k0} /\ repeated' = (repeated \/ k0 \in opened)
  BY DEF Open
<1> HIDE DEF k0
<1>3. /\ Sound(sections', current, 0)
      /\ ~repeated => Unique(sections', current, 0)
      /\ Kept(sections', current, 0)
  BY <1>1, TermFlushKeeps DEF ParseInv, Book
<1>4. Len(sections') \in Nat /\ \A i \in 1..Len(sections') : sections'[i] \in opened
  BY <1>3 DEF Sound
<1>5. FormTypes' /\ Book'
  BY <1>1, <1>2, <1>4 DEF FormTypes, Book
<1>6. Sound(sections, current, term)'
  BY <1>1, <1>2, <1>3, <1>4 DEF Sound
<1>7. Placed(sections, late)'
  BY <1>4 DEF Placed
<1>8. ASSUME ~repeated' PROVE Unique(sections, current, term)'
  <2>1. ~repeated /\ k0 \notin opened
    BY <1>1, <1>2, <1>8 DEF Book
  <2>2. \A i \in 1..Len(sections') : FormOf(sections'[i]) # k0
    <3> SUFFICES ASSUME NEW i \in 1..Len(sections'), FormOf(sections'[i]) = k0 PROVE FALSE
      OBVIOUS
    <3>1. sections'[i] \in opened /\ sections'[i] \in KeyType
      BY <1>1, <1>4 DEF Book
    <3>2. sections'[i].form = k0.form
      BY <3>1 DEF FormOf, KeyType
    <3> QED
      BY <1>1, <2>1, <3>1, <3>2 DEF Book
  <2> QED
    BY <1>1, <1>3, <2>1, <2>2 DEF Unique
<1>9. Kept(sections, current, term)'
  BY <1>1, <1>2, <1>3 DEF Kept
<1> QED
  BY <1>5, <1>6, <1>7, <1>8, <1>9 DEF ParseInv

LEMMA ClauseKeeps ==
  ASSUME ParseInv, NEW n \in Numbers, ReadClause(n)
  PROVE  ParseInv'
<1> USE DEF ReadClause, Paragraph
<1> DEFINE k0 == Key(schedule_no, 0, n)
<1>1. /\ FormTypes /\ Book /\ n \in Nat /\ n # 0 /\ k0 \in KeyType /\ k0.form = 0 /\ k0.no = n
      /\ k0 # NoClause /\ ThisForm' = ThisForm
  BY ParserAssumption, KeyFacts DEF ParseInv, FormTypes, ThisForm, form, NoClause
<1>2. opened' = opened \cup {k0} /\ repeated' = (repeated \/ k0 \in opened)
  BY DEF Open
<1> HIDE DEF k0
<1>3. /\ Sound(sections', NoClause, term)
      /\ ~repeated => Unique(sections', NoClause, term)
      /\ Kept(sections', NoClause, term)
  BY <1>1, FlushKeeps DEF ParseInv
<1>4. current' = k0
  BY DEF k0
<1>5. FormTypes' /\ Book'
  BY <1>1, <1>2 DEF FormTypes, Book, form
<1>6. Sound(sections, current, term)'
  BY <1>1, <1>2, <1>3, <1>4 DEF Sound, form
<1>7. Placed(sections, late)'
  <2>1. Placed(sections, late')
    BY DEF ParseInv, Placed, Late
  <2>2. form_no # 0 /\ current # NoClause => <<ThisForm, current>> \in late'
    BY DEF Late
  <2>3. Placed(sections', late')
    BY <1>1, <2>1, <2>2, FlushKeeps DEF ParseInv
  <2> QED
    BY <1>1, <2>3 DEF Placed, form
<1>8. ASSUME ~repeated' PROVE Unique(sections, current, term)'
  <2>1. ~repeated /\ k0 \notin opened
    BY <1>1, <1>2, <1>8 DEF Book
  <2>2. \A i \in 1..Len(sections') : sections'[i] # k0
    BY <1>3, <2>1 DEF Sound
  <2> QED
    BY <1>1, <1>3, <1>4, <2>1, <2>2 DEF Unique, form
<1>9. Kept(sections, current, term)'
  <2>1. late \subseteq late'
    BY DEF Late
  <2>2. \A k \in opened' : k \in opened \/ k = current'
    BY <1>2, <1>4
  <2>3. skipped' = skipped /\ term' = term /\ schedule_no' = schedule_no /\ form_no' = form_no
        /\ NoClause.no = 0
    BY DEF form, NoClause, Key
  <2> SUFFICES ASSUME NEW k \in opened
               PROVE  \/ k.no = 0 \/ (\E i \in 1..Len(sections') : sections'[i] = k)
                      \/ (term # 0 /\ k = Key(schedule_no, form_no, term))
                      \/ k.form # 0 /\ FormOf(k) \in skipped
                      \/ \E f \in skipped : <<f, k>> \in late'
    BY <2>2, <2>3 DEF Kept
  <2> QED
    BY <1>3, <2>1, <2>3 DEF Kept
<1> QED
  BY <1>5, <1>6, <1>7, <1>8, <1>9 DEF ParseInv

LEMMA FinishKeeps ==
  ASSUME ParseInv, Finish
  PROVE  ParseInv'
<1> USE DEF Finish
<1>1. FormTypes /\ Book /\ FormTypes' /\ Book'
  BY DEF ParseInv, FormTypes, Book, ThisForm, form, history
<1>2. /\ Sound(sections', NoClause, 0)
      /\ ~repeated => Unique(sections', NoClause, 0)
      /\ Kept(sections', NoClause, 0)
  <2>1. CASE sections' = TermFlushed(Flushed(sections))
    <3>1. /\ Sound(Flushed(sections), NoClause, term)
          /\ ~repeated => Unique(Flushed(sections), NoClause, term)
          /\ Kept(Flushed(sections), NoClause, term)
      BY <1>1, FlushKeeps DEF ParseInv
    <3> QED
      BY <1>1, <2>1, <3>1, TermFlushKeeps DEF Book
  <2>2. CASE sections' = Flushed(TermFlushed(sections))
    <3>1. /\ Sound(TermFlushed(sections), current, 0)
          /\ ~repeated => Unique(TermFlushed(sections), current, 0)
          /\ Kept(TermFlushed(sections), current, 0)
      BY <1>1, TermFlushKeeps DEF ParseInv, Book
    <3> QED
      BY <1>1, <2>2, <3>1, FlushKeeps
  <2> QED
    BY <2>1, <2>2
<1>3. Sound(sections, current, term)' /\ Kept(sections, current, term)'
  BY <1>2 DEF Sound, Kept, form, history
<1>4. (~repeated => Unique(sections, current, term))'
  BY <1>2 DEF Unique, form, ThisForm, history
<1> QED
  BY <1>1, <1>3, <1>4 DEF ParseInv

LEMMA SkipKeeps ==
  ASSUME ParseInv, NEW n \in Numbers, ReadTerm(n), Restarts(n)
  PROVE  ParseInv'
<1>0. /\ reading /\ form_no # 0 /\ ~form_broken
      /\ sections' = SubSeq(sections, 1, form_start_index)
      /\ form_broken' = TRUE /\ term' = 0 /\ skipped' = skipped \cup {ThisForm}
      /\ UNCHANGED <<schedule_no, form_no, form_last_term_key, form_start_index, current,
                     opened, repeated, late, reading>>
  BY DEF ReadTerm, SkipForm, Paragraph
<1>1. /\ FormTypes /\ Book /\ ThisForm' = ThisForm /\ form_no # 0 /\ reading
      /\ Len(sections) \in Nat /\ form_start_index \in Nat /\ form_start_index <= Len(sections)
  BY <1>0 DEF ParseInv, FormTypes, ThisForm, Sound
<1> DEFINE new == SubSeq(sections, 1, form_start_index)
<1>2. /\ new \in Seq(KeyType) /\ Len(new) = form_start_index
      /\ \A i \in 1..form_start_index : new[i] = sections[i] /\ i \in 1..Len(sections)
  BY <1>0, <1>1 DEF ParseInv, Sound
<1>3. sections' = new
  BY <1>0
<1> HIDE DEF new
<1>4. FormTypes' /\ Book'
  BY <1>0, <1>1 DEF FormTypes, Book
<1>5. Sound(sections, current, term)'
  BY <1>0, <1>1, <1>2, <1>3 DEF ParseInv, Sound
<1>6. Placed(sections, late)'
  BY <1>0, <1>1, <1>2, <1>3 DEF Placed
<1>7. ASSUME ~repeated PROVE Unique(sections, current, term)'
  <2>1. Unique(sections, current, term)
    BY <1>0, <1>7 DEF ParseInv
  <2>2. \A i \in 1..form_start_index : FormOf(new[i]) # ThisForm
    BY <1>0, <1>1, <1>2, <2>1 DEF Unique
  <2>3. \A i, j \in 1..form_start_index : new[i] = new[j] => i = j
    BY <1>0, <1>1, <1>2, <2>1 DEF Unique
  <2>4. \A i \in 1..form_start_index : new[i].form # 0 => FormOf(new[i]) \notin skipped'
    BY <1>0, <1>1, <1>2, <2>1, <2>2 DEF Unique
  <2>5. current # NoClause => \A i \in 1..form_start_index : new[i] # current
    BY <1>0, <1>1, <1>2, <2>1 DEF Unique
  <2> QED
    BY <1>0, <1>1, <1>2, <1>3, <2>2, <2>3, <2>4, <2>5 DEF Unique
<1>8. Kept(sections, current, term)'
  <2> SUFFICES ASSUME NEW k \in opened, k.no # 0
               PROVE  \/ (\E i \in 1..form_start_index : new[i] = k) \/ k = current
                      \/ k.form # 0 /\ FormOf(k) \in skipped'
                      \/ \E f \in skipped' : <<f, k>> \in late
    BY <1>0, <1>2, <1>3 DEF Kept
  <2>1. skipped' = skipped \cup {ThisForm}
    BY <1>0
  <2>2. k \in KeyType
    BY <1>0, <1>1 DEF Book
  <2>3. FormOf(k) = ThisForm => k.form # 0
    BY <1>0, <1>1, <2>2 DEF FormOf, ThisForm, KeyType, Key
  <2>4. CASE \E i \in 1..Len(sections) : sections[i] = k
    <3>1. PICK i \in 1..Len(sections) : sections[i] = k
      BY <1>0, <2>4
    <3>2. CASE i <= form_start_index
      BY <1>0, <1>1, <1>2, <3>1, <3>2
    <3>3. CASE i > form_start_index
      <4>1. FormOf(k) = ThisForm \/ <<ThisForm, k>> \in late
        BY <1>0, <1>1, <3>1, <3>3 DEF ParseInv, Placed
      <4>2. ASSUME <<ThisForm, k>> \in late PROVE \E f \in skipped' : <<f, k>> \in late
        <5>1. ThisForm \in skipped'
          BY <1>0, <2>1
        <5> QED
          BY <1>0, <4>2, <5>1
      <4>3. FormOf(k) = ThisForm => k.form # 0 /\ FormOf(k) \in skipped'
        BY <1>0, <2>1, <2>3
      <4> QED
        BY <1>0, <4>1, <4>2, <4>3
    <3>4. i \in Nat
      OBVIOUS
    <3>5. i <= form_start_index \/ i > form_start_index
      BY <1>1, <3>4
    <3> QED
      BY <3>2, <3>3, <3>5
  <2>5. CASE term # 0 /\ k = Key(schedule_no, form_no, term)
    <3>1. FormOf(k) = ThisForm
      BY <1>0, <1>1, <2>5, KeyFacts DEF ThisForm, ParseInv, Sound, FormTypes
    <3> QED
      BY <1>0, <2>1, <2>3, <3>1
  <2> QED
    BY <1>0, <2>1, <2>4, <2>5 DEF ParseInv, Kept
<1> QED
  BY <1>0, <1>1, <1>4, <1>5, <1>6, <1>7, <1>8 DEF ParseInv

LEMMA TermKeeps ==
  ASSUME ParseInv, NEW n \in Numbers, ReadTerm(n), ~Restarts(n)
  PROVE  ParseInv'
<1>0. /\ reading /\ form_no # 0 /\ ~form_broken /\ sections' = TermFlushed(sections)
      /\ form_last_term_key' = n /\ term' = n
      /\ opened' = opened \cup {Key(schedule_no, form_no, n)}
      /\ UNCHANGED <<schedule_no, form_no, form_broken, form_start_index, current,
                     repeated, skipped, late, reading>>
  BY DEF ReadTerm, OpenTerm, Paragraph
<1> DEFINE k0 == Key(schedule_no, form_no, n)
<1>1. /\ FormTypes /\ Book /\ n \in Nat /\ n # 0 /\ k0 \in KeyType /\ k0.form = form_no /\ k0.no = n
      /\ FormOf(k0) = ThisForm /\ ThisForm' = ThisForm /\ form_no # 0 /\ ~form_broken
  BY <1>0, ParserAssumption, KeyFacts DEF ParseInv, FormTypes, ThisForm
<1>2. opened' = opened \cup {k0}
  BY <1>0
<1>3. /\ Sound(sections', current, 0)
      /\ ~repeated => Unique(sections', current, 0)
      /\ Kept(sections', current, 0)
      /\ Placed(sections', late)
  BY <1>0, <1>1, TermFlushKeeps DEF ParseInv, Book
<1>4. FormTypes' /\ Book'
  BY <1>0, <1>1, <1>2 DEF FormTypes, Book
<1>5. Sound(sections, current, term)'
  BY <1>0, <1>1, <1>2, <1>3 DEF Sound
<1>6. Placed(sections, late)'
  BY <1>0, <1>1, <1>3 DEF Placed
<1>7. ASSUME ~repeated PROVE Unique(sections, current, term)'
  <2>1. Unique(sections', current, 0)
    BY <1>0, <1>3, <1>7
  <2>2. ASSUME NEW i \in 1..Len(sections'), FormOf(sections'[i]) = ThisForm
        PROVE  i > form_start_index /\ sections'[i].no < n /\ sections'[i].no <= n
    <3>1. sections'[i].no \in Nat /\ sections'[i].no # 0
      <4>1. sections' \in Seq(KeyType) /\ sections'[i].no # 0
        BY <1>3 DEF Sound
      <4>2. sections'[i] \in KeyType
        BY <4>1
      <4> QED
        BY <4>1, <4>2 DEF KeyType
    <3>2. i > form_start_index /\ sections'[i].no <= form_last_term_key
      BY <1>0, <1>1, <2>1, <2>2 DEF Unique
    <3>3. form_last_term_key = 0 \/ n > form_last_term_key
      BY <1>0, <1>1 DEF Restarts, FormTypes
    <3>4. form_last_term_key \in Nat /\ n \in Nat
      BY <1>0, <1>1 DEF FormTypes
    <3> QED
      BY <1>0, <3>1, <3>2, <3>3, <3>4
  <2>3. \A i \in 1..Len(sections') : FormOf(sections'[i]) = ThisForm => sections'[i].no <= n
    BY <1>0, <1>1, <2>2
  <2>4. term' = n /\ form_last_term_key' = n /\ form_start_index' = form_start_index
        /\ skipped' = skipped /\ current' = current
    BY <1>0
  <2>5. /\ \A i, j \in 1..Len(sections') : sections'[i] = sections'[j] => i = j
        /\ current # NoClause => \A i \in 1..Len(sections') : sections'[i] # current
        /\ \A i \in 1..Len(sections') : sections'[i].form # 0 => FormOf(sections'[i]) \notin skipped
    BY <1>0, <2>1 DEF Unique
  <2>6. \A i \in 1..Len(sections') : FormOf(sections'[i]) = ThisForm =>
            i > form_start_index /\ sections'[i].no <= n /\ sections'[i].no < n
    BY <1>0, <2>2, <2>3
  <2> QED
    BY <1>0, <1>1, <2>4, <2>5, <2>6 DEF Unique
<1>8. Kept(sections, current, term)'
  <2>1. term' = n /\ current' = current /\ skipped' = skipped /\ late' = late
        /\ schedule_no' = schedule_no /\ form_no' = form_no
    BY <1>0
  <2> QED
    BY <1>0, <1>1, <1>2, <1>3, <2>1 DEF Kept
<1> QED
  BY <1>0, <1>4, <1>5, <1>6, <1>7, <1>8 DEF ParseInv

\* The invariant of the parser is kept by every paragraph.
LEMMA ParseStep ==
  ASSUME ParseInv, [ParseNext]_pvars
  PROVE  ParseInv'
<1>1. CASE ReadHeading
  BY <1>1, HeadingKeeps
<1>2. CASE ReadFormHeading
  BY <1>2, FormHeadingKeeps
<1>3. CASE Finish
  BY <1>3, FinishKeeps
<1>4. CASE NextDocument
  <2>1. ParseInit'
    BY <1>4 DEF NextDocument, ParseInit
  <2> QED
    BY <2>1, InitParseInv, PTL
<1>5. ASSUME NEW s \in Schedules, ReadSchedule(s) PROVE ParseInv'
  BY <1>5, ScheduleKeeps
<1>6. ASSUME NEW f \in Forms, ReadForm(f) PROVE ParseInv'
  BY <1>6, FormKeeps
<1>7. ASSUME NEW n \in Numbers, ReadTerm(n) PROVE ParseInv'
  BY <1>7, SkipKeeps, TermKeeps
<1>8. ASSUME NEW n \in Numbers, ReadClause(n) PROVE ParseInv'
  BY <1>8, ClauseKeeps
<1>9. CASE UNCHANGED pvars
  BY <1>9 DEF pvars, form, progress, history, ParseInv, FormTypes, Book, ThisForm,
              Sound, Unique, Placed, Kept
<1> QED
  BY <1>1, <1>2, <1>3, <1>4, <1>5, <1>6, <1>7, <1>8, <1>9 DEF ParseNext

\* In the composition the parser makes its own steps only: an audit moves
\* nothing of it (the loader reads what parse_docx returned, app/ingest/loader.py).
THEOREM ParserIsAlone ==
  Spec => ParseSpec
<1>1. Init => ParseInit
  BY DEF Init
<1>2. [Next]_vars => [ParseNext]_pvars
  BY DEF Next, vars, Parse, AuditStep
<1> QED
  BY <1>1, <1>2, PTL DEF Spec, ParseSpec

LEMMA ParseInvariant ==
  ParseSpec => []ParseInv
<1>1. ParseInit => ParseInv
  BY InitParseInv
<1>2. ParseInv /\ [ParseNext]_pvars => ParseInv'
  BY ParseStep
<1> QED
  BY <1>1, <1>2, PTL DEF ParseSpec

\* KeysUnique for all instruments: no two sections of a version share a key
\* unless the document opens a schedule, a form or a clause twice.
THEOREM SectionKeysUnique ==
  Spec => []KeysUnique
<1>1. ParseInv => KeysUnique
  BY DEF ParseInv, Sound, Unique, KeysUnique
<1> QED
  BY <1>1, ParserIsAlone, ParseInvariant, PTL

\* SkippedFormsSilent for all instruments: a form whose numbering restarts has
\* no term among the sections from then on.
THEOREM SkippedFormsYieldNothing ==
  Spec => []SkippedFormsSilent
<1> SUFFICES ASSUME ParseInv, ~repeated
             PROVE  /\ \A k \in Written : k.form # 0 => FormOf(k) \notin skipped
                    /\ term # 0 => ThisForm \notin skipped
  BY ParserIsAlone, ParseInvariant, PTL DEF SkippedFormsSilent
<1>1. \A k \in Written : \E i \in 1..Len(sections) : k = sections[i]
  BY DEF Written, ParseInv, Sound
<1>2. \A k \in Written : k.form # 0 => FormOf(k) \notin skipped
  BY <1>1 DEF ParseInv, Unique
<1>3. term # 0 => ThisForm \notin skipped
  BY DEF ParseInv, Sound, Book
<1> QED
  BY <1>2, <1>3

\* NothingElseLost for all instruments: the only sections that were opened and
\* are not there at the end are those of skipped forms and the clauses that were
\* written while such a form was open.
THEOREM OnlySkippedLost ==
  Spec => []NothingElseLost
<1>1. ParseInv => NothingElseLost
  <2> SUFFICES ASSUME ParseInv, ~reading, NEW k \in opened
               PROVE  \/ k.no = 0 \/ k \in Written
                      \/ k.form # 0 /\ FormOf(k) \in skipped
                      \/ \E f \in skipped : <<f, k>> \in late
    BY DEF NothingElseLost
  <2>1. term = 0 /\ current = NoClause /\ NoClause.no = 0
    BY DEF ParseInv, NoClause, Key
  <2>2. \A i \in 1..Len(sections) : sections[i] \in Written
    BY DEF Written, ParseInv, Sound
  <2> QED
    BY <2>1, <2>2 DEF ParseInv, Kept
<1> QED
  BY <1>1, ParserIsAlone, ParseInvariant, PTL
-----------------------------------------------------------------------------
(* The audit: the types of what a job holds while it runs.                   *)

RuleType == [rule_id : STRING \ {"standard_form"}, ref : Refs,
             applies_from : Date \cup {NoDate}, applies_to : Date \cup {NoDate}]
ActiveType == [rule : RuleType, cited : Rows]
Row == Rows \cup {0}
Makers == {"inactive", "absent", "judge", "screen"}
Saying == Verdicts \cup Outcomes \cup {"nothing"}
ItemType == [says : Saying, quote : Quotes]
IdType == [rule : STRING \cup {"standard_form"}, form : Nat, no : Nat]
FindingType == [id : IdType, verdict : Verdicts \cup {"skipped"}, by : Makers,
                says : Saying, quote : Quotes,
                ref : Refs \cup {NoRef}, cited : Row, shown : Row]

AuditTypes ==
    /\ law \in [Refs -> Row] /\ prescribed \in [PrescribedForms -> SUBSET TermNos]
    /\ phase \in {"idle", "rules", "texts", "terms", "duties", "screen", "fields", "done"}
    /\ index \in Nat /\ judged \in Nat
    /\ phase # "idle" => job \in Jobs
    /\ active \in Seq(ActiveType) /\ shown \in [Refs -> Row]
    /\ terms \in Seq(TermNos) /\ residual \in Seq(TermNos)
    /\ duties \in [TermNos -> Row]
    /\ \A n \in TermNos : duties[n] # 0 => n \in DOMAIN NSW_ACT_DUTIES
    /\ findings \in Seq(FindingType)
    /\ past \in [Refs -> SUBSET Row]

LEMMA SeqTyped ==
  ASSUME NEW S, NEW s \in Seq(S)
  PROVE  /\ \A x \in S : Append(s, x) \in Seq(S)
         /\ \A t \in Seq(S) : s \o t \in Seq(S)
OBVIOUS

LEMMA FormIsPrescribed ==
  Form \in PrescribedForms /\ PrescribedForms \subseteq Nat
BY DEF Form, VicForm, PrescribedForms, NswForm

LEMMA RulesTyped ==
  ASSUME job \in Jobs
  PROVE  /\ Rules \in Seq(RuleType)
         /\ \A i, j \in 1..Len(Rules) : Rules[i].rule_id = Rules[j].rule_id => i = j
<1>1. Rules \in Seq(RuleType)
  BY FamiliesAssumption DEF Rules, RuleType
<1>2. \A i, j \in DOMAIN Rules : Rules[i].rule_id = Rules[j].rule_id => i = j
  BY FamiliesAssumption DEF Rules
<1> QED
  BY <1>1, <1>2

LEMMA FindingFacts ==
  ASSUME NEW id \in IdType, NEW verdict \in Verdicts \cup {"skipped"}, NEW by \in Makers, NEW item \in ItemType,
         NEW ref \in Refs \cup {NoRef}, NEW cited \in Row, NEW text \in Row
  PROVE  LET f == Finding(id, verdict, by, item, ref, cited, text)
         IN  /\ f \in FindingType
             /\ f.id = id /\ f.by = by /\ f.ref = ref /\ f.cited = cited /\ f.shown = text
BY DEF Finding, FindingType, ItemType

LEMMA SkippedFacts ==
  ASSUME NEW rule \in RuleType, NEW why \in Makers
  PROVE  /\ Skipped(rule, why) \in FindingType /\ Skipped(rule, why).id = RuleId(rule)
         /\ Skipped(rule, why).cited = 0 /\ Skipped(rule, why).by = why
         /\ RuleId(rule) \in IdType /\ RuleId(rule).no = 0
<1>1. RuleId(rule) \in IdType /\ RuleId(rule).no = 0
  BY DEF RuleId, IdType, RuleType
<1>2. Silent \in ItemType /\ NoRef \in Refs \cup {NoRef} /\ 0 \in Row
  BY DEF Silent, ItemType, Row, Saying, Quotes
<1> QED
  BY <1>1, <1>2, FindingFacts DEF Skipped

LEMMA ItemsTyped ==
  ASSUME NEW item
  PROVE  /\ item \in RuleItems \cup {Silent} => item \in ItemType /\ RuleVerdict(item) \in Verdicts
         /\ item \in TermItems \cup {Silent} => item \in ItemType /\ TermVerdict(item) \in Verdicts
<1>1. Silent \in ItemType /\ Silent.says = "nothing"
  BY DEF Silent, ItemType, Saying, Quotes
<1>2. item \in RuleItems => item \in ItemType /\ item.says \in Verdicts
  BY FamiliesAssumption DEF ItemType, Saying
<1>3. item \in RuleItems \cup {Silent} => RuleVerdict(item) \in Verdicts
  BY <1>1, <1>2 DEF RuleVerdict, Verdicts
<1>4. item \in TermItems => item \in ItemType /\ item.says \in Outcomes
  BY FamiliesAssumption DEF ItemType, Saying
<1>5. item \in TermItems \cup {Silent} => TermVerdict(item) \in Verdicts
  BY <1>1, <1>4 DEF TermVerdict, OutcomeVerdict, Outcomes, Verdicts
<1> QED
  BY <1>1, <1>2, <1>3, <1>4, <1>5

LEMMA TermFindingFacts ==
  ASSUME AuditTypes, NEW n \in TermNos, NEW verdict \in Verdicts \cup {"skipped"}, NEW by \in Makers,
         NEW item \in ItemType
  PROVE  LET f == TermFinding(n, verdict, by, item)
         IN  /\ f \in FindingType
             /\ f.id = TermId(Form, n) /\ f.by = by /\ f.cited = duties[n]
             /\ duties[n] # 0 => f.ref = DutyRef(n)
             /\ TermId(Form, n) \in IdType /\ TermId(Form, n).no = n /\ n # 0
             /\ TermId(Form, n).rule = "standard_form"
<1>1. n # 0 /\ n \in Nat /\ Form \in Nat
  BY FamiliesAssumption, FormIsPrescribed
<1>2. /\ TermId(Form, n) \in IdType /\ TermId(Form, n).no = n
      /\ TermId(Form, n).rule = "standard_form"
  BY <1>1 DEF TermId, IdType
<1>3. duties[n] \in Row /\ 0 \in Row
  BY DEF AuditTypes, Row
<1> DEFINE ref == IF duties[n] = 0 THEN NoRef ELSE DutyRef(n)
<1>4. ref \in Refs \cup {NoRef}
  <2>1. n \in DOMAIN NSW_ACT_DUTIES => DutyRef(n) \in Refs
    BY FamiliesAssumption
  <2>2. duties[n] # 0 => n \in DOMAIN NSW_ACT_DUTIES
    BY DEF AuditTypes
  <2>3. duties[n] # 0 => DutyRef(n) \in Refs
    BY <2>1, <2>2
  <2> QED
    BY <2>3
<1> HIDE DEF ref
<1>5. TermFinding(n, verdict, by, item) = Finding(TermId(Form, n), verdict, by, item, ref, duties[n], 0)
  BY DEF TermFinding, ref
<1> DEFINE f == Finding(TermId(Form, n), verdict, by, item, ref, duties[n], 0)
<1>6. f \in FindingType /\ f.id = TermId(Form, n) /\ f.by = by /\ f.cited = duties[n] /\ f.ref = ref
  <2> HIDE DEF f
  <2>1. \A id \in IdType, r \in Refs \cup {NoRef}, c \in Row :
          LET g == Finding(id, verdict, by, item, r, c, 0)
          IN  g \in FindingType /\ g.id = id /\ g.by = by /\ g.ref = r /\ g.cited = c
    BY <1>3 DEF Finding, FindingType, ItemType
  <2> QED
    BY <1>2, <1>3, <1>4, <2>1 DEF f
<1>7. duties[n] # 0 => f.ref = DutyRef(n)
  BY <1>6 DEF ref
<1> HIDE DEF f
<1> QED
  BY <1>1, <1>2, <1>5, <1>6, <1>7 DEF f

\* At the begin and the end of a job everything it holds is empty.
LEMMA NothingTyped ==
  ASSUME NothingYet
  PROVE  /\ index' \in Nat /\ judged' \in Nat
         /\ active' \in Seq(ActiveType) /\ active' = <<>> /\ shown' \in [Refs -> Row]
         /\ terms' \in Seq(TermNos) /\ residual' \in Seq(TermNos) /\ duties' \in [TermNos -> Row]
         /\ \A n \in TermNos : duties'[n] = 0
         /\ findings' \in Seq(FindingType) /\ findings' = <<>> /\ index' = 0 /\ residual' = <<>>
BY DEF NothingYet, Row

LEMMA InitTypes ==
  AuditInit => AuditTypes
<1> SUFFICES ASSUME AuditInit PROVE AuditTypes
  OBVIOUS
<1>1. /\ active \in Seq(ActiveType) /\ shown \in [Refs -> Row] /\ duties \in [TermNos -> Row]
      /\ terms \in Seq(TermNos) /\ residual \in Seq(TermNos) /\ findings \in Seq(FindingType)
      /\ past \in [Refs -> SUBSET Row] /\ law \in [Refs -> Row]
      /\ \A n \in TermNos : duties[n] = 0
  BY DEF AuditInit, Row
<1> QED
  BY <1>1 DEF AuditInit, AuditTypes

\* The findings that one answer of the model adds.
LEMMA JudgedRules ==
  ASSUME AuditTypes, JudgeRules
  PROVE  \E g \in Seq(FindingType) :
            /\ findings' = findings \o g /\ Len(g) = Len(active)
            /\ \A i \in 1..Len(active) :
                /\ g[i].id = RuleId(active[i].rule) /\ g[i].by = "judge"
                /\ g[i].ref = active[i].rule.ref /\ g[i].cited = active[i].cited
                /\ g[i].shown = shown[active[i].rule.ref]
<1>1. PICK answer \in [DOMAIN active -> RuleItems \cup {Silent}] :
        findings' = findings \o
          [i \in DOMAIN active |->
              Finding(RuleId(active[i].rule), RuleVerdict(answer[i]), "judge", answer[i],
                      active[i].rule.ref, active[i].cited, shown[active[i].rule.ref])]
  BY DEF JudgeRules
<1> DEFINE F(i) == Finding(RuleId(active[i].rule), RuleVerdict(answer[i]), "judge", answer[i],
                           active[i].rule.ref, active[i].cited, shown[active[i].rule.ref])
<1>2. ASSUME NEW i \in 1..Len(active)
      PROVE  /\ F(i) \in FindingType
             /\ F(i).id = RuleId(active[i].rule) /\ F(i).by = "judge"
             /\ F(i).ref = active[i].rule.ref /\ F(i).cited = active[i].cited
             /\ F(i).shown = shown[active[i].rule.ref]
  <2>1. active[i] \in ActiveType /\ answer[i] \in RuleItems \cup {Silent}
    BY <1>1 DEF AuditTypes
  <2>2. answer[i] \in ItemType /\ RuleVerdict(answer[i]) \in Verdicts \cup {"skipped"}
    BY <2>1, ItemsTyped
  <2>3. active[i].rule \in RuleType /\ active[i].cited \in Row
        /\ shown[active[i].rule.ref] \in Row /\ active[i].rule.ref \in Refs \cup {NoRef}
    BY <2>1 DEF ActiveType, RuleType, AuditTypes, Row
  <2>4. RuleId(active[i].rule) \in IdType
    BY <2>3, SkippedFacts DEF Makers
  <2>5. "judge" \in Makers
    BY DEF Makers
  <2>6. F(i) \in FindingType
    <3> DEFINE id == RuleId(active[i].rule)
               verdict == RuleVerdict(answer[i])
               item == answer[i]
               ref == active[i].rule.ref
               cited == active[i].cited
               text == shown[active[i].rule.ref]
    <3>1. /\ id \in IdType /\ verdict \in Verdicts \cup {"skipped"} /\ item \in ItemType
          /\ ref \in Refs \cup {NoRef} /\ cited \in Row /\ text \in Row
      BY <2>2, <2>3, <2>4
    <3>2. F(i) = Finding(id, verdict, "judge", item, ref, cited, text)
      OBVIOUS
    <3> HIDE DEF id, verdict, item, ref, cited, text, F
    <3>3. Finding(id, verdict, "judge", item, ref, cited, text) \in FindingType
      BY <2>5, <3>1, FindingFacts
    <3> QED
      BY <3>2, <3>3
  <2> QED
    BY <2>6 DEF Finding
<1> HIDE DEF F
<1> DEFINE g == [i \in 1..Len(active) |-> F(i)]
<1>3. Len(active) \in Nat /\ g \in Seq(FindingType) /\ Len(g) = Len(active)
      /\ \A i \in 1..Len(active) : g[i] = F(i)
  BY <1>2 DEF AuditTypes
<1>4. findings' = findings \o g
  BY <1>1 DEF F, AuditTypes
<1> HIDE DEF g
<1> QED
  BY <1>2, <1>3, <1>4

LEMMA JudgedTerms ==
  ASSUME AuditTypes, JudgeBatch
  PROVE  \E g \in Seq(FindingType) :
            /\ findings' = findings \o g
            /\ Len(g) = BatchEnd(judged) - judged /\ BatchEnd(judged) <= Len(residual)
            /\ \A i \in 1..Len(g) :
                /\ judged + i \in 1..Len(residual)
                /\ g[i].id = TermId(Form, residual[judged + i]) /\ g[i].by = "judge"
                /\ g[i].cited = duties[residual[judged + i]]
                /\ g[i].cited # 0 => g[i].ref = DutyRef(residual[judged + i])
<1> DEFINE batch == Batch(judged)
<1>1. PICK answer \in [DOMAIN batch -> TermItems \cup {Silent}] :
        findings' = findings \o
          [i \in DOMAIN batch |-> TermFinding(batch[i], TermVerdict(answer[i]), "judge", answer[i])]
  BY DEF JudgeBatch
<1>2. /\ residual \in Seq(TermNos) /\ judged \in Nat /\ judged < Len(residual)
      /\ BatchEnd(judged) \in Nat /\ judged < BatchEnd(judged) /\ BatchEnd(judged) <= Len(residual)
  BY FamiliesAssumption DEF AuditTypes, JudgeBatch, BatchEnd
<1>3. /\ batch \in Seq(TermNos) /\ Len(batch) = BatchEnd(judged) - judged
      /\ \A i \in 1..Len(batch) : judged + i \in 1..Len(residual) /\ batch[i] = residual[judged + i]
  BY <1>2 DEF Batch
<1> DEFINE F(i) == TermFinding(batch[i], TermVerdict(answer[i]), "judge", answer[i])
<1> HIDE DEF batch
<1>4. ASSUME NEW i \in 1..Len(batch)
      PROVE  /\ F(i) \in FindingType
             /\ F(i).id = TermId(Form, batch[i]) /\ F(i).by = "judge"
             /\ F(i).cited = duties[batch[i]]
             /\ F(i).cited # 0 => F(i).ref = DutyRef(batch[i])
  <2>1. batch[i] \in TermNos /\ answer[i] \in TermItems \cup {Silent}
    BY <1>1, <1>3
  <2>2. answer[i] \in ItemType /\ TermVerdict(answer[i]) \in Verdicts \cup {"skipped"}
    BY <2>1, ItemsTyped
  <2>3. "judge" \in Makers
    BY DEF Makers
  <2> QED
    BY <2>1, <2>2, <2>3, TermFindingFacts
<1> HIDE DEF F
<1> DEFINE g == [i \in 1..Len(batch) |-> F(i)]
<1>5. Len(batch) \in Nat /\ g \in Seq(FindingType) /\ Len(g) = Len(batch)
      /\ \A i \in 1..Len(batch) : g[i] = F(i)
  BY <1>3, <1>4
<1>6. findings' = findings \o g
  BY <1>1, <1>3 DEF F
<1> HIDE DEF g
<1>7. \A i \in 1..Len(g) :
        /\ judged + i \in 1..Len(residual)
        /\ g[i].id = TermId(Form, residual[judged + i]) /\ g[i].by = "judge"
        /\ g[i].cited = duties[residual[judged + i]]
        /\ g[i].cited # 0 => g[i].ref = DutyRef(residual[judged + i])
  BY <1>3, <1>4, <1>5
<1>8. Len(g) = BatchEnd(judged) - judged /\ BatchEnd(judged) <= Len(residual)
  BY <1>2, <1>3, <1>5
<1> QED
  BY <1>5, <1>6, <1>7, <1>8

LEMMA TypesStep ==
  ASSUME AuditTypes, [AuditNext]_avars
  PROVE  AuditTypes'
<1>1. ASSUME NEW j \in Jobs, Begin(j) PROVE AuditTypes'
  <2>1. past' \in [Refs -> SUBSET Row]
    BY <1>1 DEF Begin, AuditTypes
  <2> QED
    BY <1>1, <2>1, NothingTyped DEF Begin, AuditTypes, corpus
<1>2. CASE Leave
  <2>1. past' \in [Refs -> SUBSET Row]
    BY <1>2 DEF Leave
  <2> QED
    BY <1>2, <2>1, NothingTyped DEF Leave, AuditTypes, corpus
<1>3. CASE TakeRule
  <2>1. job \in Jobs /\ Rules \in Seq(RuleType)
    BY <1>3, RulesTyped DEF TakeRule, AuditTypes
  <2>2. Rules[index + 1] \in RuleType
    BY <1>3, <2>1 DEF TakeRule, AuditTypes
  <2> DEFINE rule == Rules[index + 1]
  <2>3. /\ Skipped(rule, "inactive") \in FindingType /\ Skipped(rule, "absent") \in FindingType
        /\ law[rule.ref] # 0 => [rule |-> rule, cited |-> law[rule.ref]] \in ActiveType
    BY <2>2, SkippedFacts DEF Makers, AuditTypes, RuleType, Row, ActiveType
  <2>4. \/ findings' = Append(findings, Skipped(rule, "inactive")) /\ active' = active
        \/ findings' = Append(findings, Skipped(rule, "absent")) /\ active' = active
        \/ law[rule.ref] # 0 /\ active' = Append(active, [rule |-> rule, cited |-> law[rule.ref]])
             /\ findings' = findings
    BY <1>3 DEF TakeRule, Resolve
  <2> HIDE DEF rule
  <2>5. findings \in Seq(FindingType) /\ active \in Seq(ActiveType)
    BY DEF AuditTypes
  <2>6. findings' \in Seq(FindingType) /\ active' \in Seq(ActiveType)
    BY <2>3, <2>4, <2>5, SeqTyped
  <2> QED
    BY <1>3, <2>6 DEF TakeRule, AuditTypes, corpus, form_terms
<1>4. CASE RulesTaken
  BY <1>4 DEF RulesTaken, AuditTypes, corpus, rules, form_terms, report
<1>5. CASE ReadText
  <2>1. active[index + 1] \in ActiveType
    BY <1>5 DEF ReadText, AuditTypes
  <2>2. shown' \in [Refs -> Row]
    BY <1>5, <2>1 DEF ReadText, AuditTypes, ActiveType, RuleType, TextOf
  <2> QED
    BY <1>5, <2>2 DEF ReadText, AuditTypes, corpus, form_terms, report
<1>6. CASE JudgeRules
  <2>1. findings' \in Seq(FindingType)
    <3>1. PICK g \in Seq(FindingType) : findings' = findings \o g
      BY <1>6, JudgedRules
    <3> QED
      BY <3>1, SeqTyped DEF AuditTypes
  <2> QED
    BY <1>6, <2>1 DEF JudgeRules, AuditTypes, corpus, rules, form_terms
<1>7. CASE FetchTerms
  <2>1. prescribed[Form] \subseteq TermNos
    BY FormIsPrescribed DEF AuditTypes
  <2>2. Cardinality(prescribed[Form]) \in Nat
    BY <2>1, FamiliesAssumption, FS_Subset, FS_CardinalityType
  <2>3. PICK order \in [1..Cardinality(prescribed[Form]) -> prescribed[Form]] : terms' = order
    BY <1>7 DEF FetchTerms
  <2>4. terms' \in Seq(TermNos)
    BY <2>1, <2>2, <2>3
  <2> QED
    BY <1>7, <2>4 DEF FetchTerms, AuditTypes, corpus, rules, report
<1>8. CASE FetchDuties
  <2>1. \A n \in TermNos \cap DOMAIN NSW_ACT_DUTIES : law[DutyRef(n)] \in Row
    BY FamiliesAssumption DEF AuditTypes
  <2>2. duties' = [n \in TermNos |-> IF n \in DOMAIN NSW_ACT_DUTIES THEN law[DutyRef(n)] ELSE 0]
        /\ 0 \in Row
    BY <1>8 DEF FetchDuties, Row
  <2>3. duties' \in [TermNos -> Row] /\ \A n \in TermNos : duties'[n] # 0 => n \in DOMAIN NSW_ACT_DUTIES
    BY <2>1, <2>2
  <2> QED
    BY <1>8, <2>3 DEF FetchDuties, AuditTypes, corpus, rules, report
<1>9. CASE ScreenTerm
  <2> DEFINE n == terms[index + 1]
             f == TermFinding(n, "green", "screen", Silent)
  <2>1. n \in TermNos
    BY <1>9 DEF ScreenTerm, AuditTypes
  <2>2. f \in FindingType
    BY <2>1, TermFindingFacts, ItemsTyped DEF Makers, Verdicts
  <2>3. \/ findings' = Append(findings, f) /\ residual' = residual
        \/ residual' = Append(residual, n) /\ findings' = findings
    BY <1>9 DEF ScreenTerm
  <2> HIDE DEF n, f
  <2>4. findings \in Seq(FindingType) /\ residual \in Seq(TermNos)
    BY DEF AuditTypes
  <2>5. findings' \in Seq(FindingType) /\ residual' \in Seq(TermNos)
    BY <2>1, <2>2, <2>3, <2>4, SeqTyped
  <2> QED
    BY <1>9, <2>5 DEF ScreenTerm, AuditTypes, corpus, rules
<1>10. CASE JudgeBatch
  <2>1. findings' \in Seq(FindingType)
    <3>1. PICK g \in Seq(FindingType) : findings' = findings \o g
      BY <1>10, JudgedTerms
    <3> QED
      BY <3>1, SeqTyped DEF AuditTypes
  <2>2. judged' \in Nat
    BY <1>10, FamiliesAssumption DEF AuditTypes, JudgeBatch
  <2> QED
    BY <1>10, <2>1, <2>2 DEF JudgeBatch, AuditTypes, corpus, rules
<1>11. CASE TermsJudged
  BY <1>11 DEF TermsJudged, AuditTypes, corpus, rules, form_terms, report
<1>12. CASE JudgeFields
  BY <1>12 DEF JudgeFields, AuditTypes, corpus, rules, form_terms
<1>13. CASE RefreshSection
  <2>0. PICK s \in Amended : \E row \in (Rows \ past[s]) \cup ({0} \ {law[s]}) :
          /\ law' = [law EXCEPT ![s] = row]
          /\ past' = [past EXCEPT ![s] = IF phase = "idle" THEN {} ELSE past[s] \cup {row}]
    BY <1>13 DEF RefreshSection
  <2>1. PICK row \in (Rows \ past[s]) \cup ({0} \ {law[s]}) :
          /\ law' = [law EXCEPT ![s] = row]
          /\ past' = [past EXCEPT ![s] = IF phase = "idle" THEN {} ELSE past[s] \cup {row}]
    BY <2>0
  <2>2. s \in Refs /\ row \in Row
    BY FamiliesAssumption DEF Row
  <2>3. law' \in [Refs -> Row] /\ past' \in [Refs -> SUBSET Row]
    BY <2>1, <2>2 DEF AuditTypes
  <2> QED
    BY <1>13, <2>3 DEF RefreshSection, AuditTypes, rules, form_terms, report
<1>14. CASE RefreshForms
  BY <1>14 DEF RefreshForms, AuditTypes, rules, form_terms, report
<1>15. CASE UNCHANGED avars
  BY <1>15 DEF avars, AuditTypes, corpus, rules, form_terms, report
<1> QED
  BY <1>1, <1>2, <1>3, <1>4, <1>5, <1>6, <1>7, <1>8, <1>9, <1>10, <1>11, <1>12, <1>13, <1>14, <1>15
     DEF AuditNext, Audit
-----------------------------------------------------------------------------
(* Every id is reported once: what is found together with what is still to   *)
(* be judged (pend) has each id that is due by now, and none twice.          *)

Due(fs, pend, ids) ==
    /\ \A i, k \in 1..Len(fs) : fs[i].id = fs[k].id => i = k
    /\ \A i, k \in DOMAIN pend : pend[i] = pend[k] => i = k
    /\ \A i \in 1..Len(fs), k \in DOMAIN pend : fs[i].id # pend[k]
    /\ \A i \in 1..Len(fs) : fs[i].id \in ids
    /\ \A k \in DOMAIN pend : pend[k] \in ids
    /\ \A x \in ids : (\E i \in 1..Len(fs) : fs[i].id = x) \/ \E k \in DOMAIN pend : pend[k] = x

LEMMA DueFinding ==
  ASSUME NEW fs \in Seq(FindingType), NEW pend, NEW ids, Due(fs, pend, ids),
         NEW f \in FindingType, f.id \notin ids
  PROVE  Due(Append(fs, f), pend, ids \cup {f.id})
<1> DEFINE new == Append(fs, f)
<1>1. /\ Len(fs) \in Nat /\ Len(new) = Len(fs) + 1 /\ new[Len(fs) + 1] = f
      /\ \A i \in 1..Len(fs) : new[i] = fs[i]
  OBVIOUS
<1> HIDE DEF new
<1>2. \A i \in 1..Len(new) : (i \in 1..Len(fs) /\ new[i] = fs[i]) \/ (i = Len(fs) + 1 /\ new[i] = f)
  BY <1>1
<1>3. \A i \in 1..Len(fs) : i \in 1..Len(new)
  BY <1>1
<1>4. Len(fs) + 1 \in 1..Len(new)
  BY <1>1
<1>5. \A i, k \in 1..Len(new) : new[i].id = new[k].id => i = k
  BY <1>2 DEF Due
<1>6. \A i \in 1..Len(new), k \in DOMAIN pend : new[i].id # pend[k]
  BY <1>2 DEF Due
<1>7. \A x \in ids \cup {f.id} : (\E i \in 1..Len(new) : new[i].id = x) \/ \E k \in DOMAIN pend : pend[k] = x
  BY <1>1, <1>3, <1>4 DEF Due
<1>8. \A i \in 1..Len(new) : new[i].id \in ids \cup {f.id}
  BY <1>2 DEF Due
<1>9. Due(new, pend, ids \cup {f.id})
  BY <1>5, <1>6, <1>7, <1>8 DEF Due
<1> QED
  BY <1>9 DEF new

LEMMA DuePending ==
  ASSUME NEW fs, NEW b \in Nat, NEW pend, NEW new, NEW ids, NEW x, Due(fs, pend, ids),
         DOMAIN pend = 1..b, DOMAIN new = 1..(b + 1), new[b + 1] = x,
         \A k \in 1..b : new[k] = pend[k], x \notin ids
  PROVE  Due(fs, new, ids \cup {x})
<1>1. \A k \in DOMAIN new : (k \in DOMAIN pend /\ new[k] = pend[k]) \/ (k = b + 1 /\ new[k] = x)
  OBVIOUS
<1>2. \A k \in DOMAIN pend : k \in DOMAIN new /\ new[k] = pend[k]
  OBVIOUS
<1>3. b + 1 \in DOMAIN new
  OBVIOUS
<1>4. \A i, k \in DOMAIN new : new[i] = new[k] => i = k
  BY <1>1 DEF Due
<1>5. \A i \in 1..Len(fs), k \in DOMAIN new : fs[i].id # new[k]
  BY <1>1 DEF Due
<1>6. \A y \in ids \cup {x} : (\E i \in 1..Len(fs) : fs[i].id = y) \/ \E k \in DOMAIN new : new[k] = y
  BY <1>2, <1>3 DEF Due
<1>7. \A k \in DOMAIN new : new[k] \in ids \cup {x}
  BY <1>1 DEF Due
<1> QED
  BY <1>4, <1>5, <1>6, <1>7 DEF Due

LEMMA DueJudged ==
  ASSUME NEW fs \in Seq(FindingType), NEW g \in Seq(FindingType), NEW ids,
         NEW a \in Nat, NEW b \in Nat, a + Len(g) <= b + 1,
         NEW pend, DOMAIN pend = a..b, Due(fs, pend, ids),
         \A i \in 1..Len(g) : g[i].id = pend[a + i - 1],
         NEW new, \A k : k \in DOMAIN new <=> k \in a..b /\ k >= a + Len(g),
         \A k \in DOMAIN new : new[k] = pend[k]
  PROVE  Due(fs \o g, new, ids)
<1> DEFINE all == fs \o g
<1>1. /\ Len(fs) \in Nat /\ Len(g) \in Nat /\ Len(all) = Len(fs) + Len(g)
      /\ \A i \in 1..Len(fs) : all[i] = fs[i]
      /\ \A i \in 1..Len(g) : all[Len(fs) + i] = g[i]
  OBVIOUS
<1> HIDE DEF all
<1>2. ASSUME NEW i \in 1..Len(all)
      PROVE  \/ i \in 1..Len(fs) /\ all[i].id = fs[i].id
             \/ /\ i > Len(fs) /\ i - Len(fs) \in 1..Len(g)
                /\ a + (i - Len(fs)) - 1 \in DOMAIN pend
                /\ all[i].id = pend[a + (i - Len(fs)) - 1]
  <2>1. CASE i <= Len(fs)
    BY <1>1, <2>1
  <2>2. CASE i > Len(fs)
    <3>1. i - Len(fs) \in 1..Len(g) /\ Len(fs) + (i - Len(fs)) = i
      BY <1>1, <2>2
    <3>2. all[i] = g[i - Len(fs)]
      BY <1>1, <3>1
    <3>3. a + (i - Len(fs)) - 1 \in a..b
      BY <1>1, <3>1
    <3> QED
      BY <2>2, <3>1, <3>2, <3>3
  <2> QED
    BY <1>1, <2>1, <2>2
<1>3. \A i, k \in 1..Len(all) : all[i].id = all[k].id => i = k
  <2> SUFFICES ASSUME NEW i \in 1..Len(all), NEW k \in 1..Len(all), all[i].id = all[k].id PROVE i = k
    OBVIOUS
  <2>1. CASE i \in 1..Len(fs) /\ k \in 1..Len(fs)
    BY <1>2, <2>1, <1>1 DEF Due
  <2>2. CASE i > Len(fs) /\ k > Len(fs)
    <3> DEFINE p == a + (i - Len(fs)) - 1
               q == a + (k - Len(fs)) - 1
    <3>1. p \in DOMAIN pend /\ q \in DOMAIN pend /\ pend[p] = all[i].id /\ pend[q] = all[k].id
      BY <1>1, <1>2, <2>2
    <3> HIDE DEF p, q
    <3>2. p = q
      BY <3>1 DEF Due
    <3> QED
      BY <1>1, <3>2 DEF p, q
  <2>3. ASSUME NEW m \in 1..Len(all), NEW n \in 1..Len(all), m > Len(fs), n \in 1..Len(fs)
        PROVE  all[m].id # all[n].id
    <3> DEFINE p == a + (m - Len(fs)) - 1
    <3>1. p \in DOMAIN pend /\ pend[p] = all[m].id /\ all[n].id = fs[n].id
      BY <1>1, <1>2, <2>3
    <3> HIDE DEF p
    <3> QED
      BY <2>3, <3>1 DEF Due
  <2> QED
    BY <1>2, <2>1, <2>2, <2>3
<1>4. \A k \in DOMAIN new : k \in DOMAIN pend /\ k >= a + Len(g) /\ new[k] = pend[k]
  OBVIOUS
<1>5. \A i \in 1..Len(all), k \in DOMAIN new : all[i].id # new[k]
  <2> SUFFICES ASSUME NEW i \in 1..Len(all), NEW k \in DOMAIN new, all[i].id = new[k] PROVE FALSE
    OBVIOUS
  <2>1. CASE i \in 1..Len(fs)
    BY <1>1, <1>2, <1>4, <2>1 DEF Due
  <2>2. CASE i > Len(fs)
    <3>1. a + (i - Len(fs)) - 1 = k
      BY <1>2, <1>4, <2>2 DEF Due
    <3>2. i - Len(fs) <= Len(g) /\ k >= a + Len(g) /\ i \in Nat
      BY <1>1, <1>4
    <3> QED
      BY <1>1, <3>1, <3>2
  <2> QED
    BY <1>2, <2>1, <2>2
<1>6. \A i \in 1..Len(all) : all[i].id \in ids
  BY <1>2 DEF Due
<1>7. \A x \in ids : (\E i \in 1..Len(all) : all[i].id = x) \/ \E k \in DOMAIN new : new[k] = x
  <2> SUFFICES ASSUME NEW x \in ids
               PROVE  (\E i \in 1..Len(all) : all[i].id = x) \/ \E k \in DOMAIN new : new[k] = x
    OBVIOUS
  <2>1. CASE \E i \in 1..Len(fs) : fs[i].id = x
    BY <1>1, <2>1
  <2>2. CASE \E k \in DOMAIN pend : pend[k] = x
    <3>1. PICK k \in a..b : pend[k] = x
      BY <2>2
    <3>2. CASE k >= a + Len(g)
      BY <3>1, <3>2
    <3>3. CASE k < a + Len(g)
      <4> DEFINE j == k - a + 1
      <4>1. j \in 1..Len(g) /\ a + j - 1 = k /\ Len(fs) + j \in 1..Len(all)
        BY <1>1, <3>3
      <4> HIDE DEF j
      <4>2. all[Len(fs) + j] = g[j] /\ g[j].id = x
        BY <1>1, <3>1, <4>1
      <4> QED
        BY <4>1, <4>2
    <3> QED
      BY <1>1, <3>2, <3>3
  <2> QED
    BY <2>1, <2>2 DEF Due
<1>8. Due(all, new, ids)
  BY <1>3, <1>4, <1>5, <1>6, <1>7 DEF Due
<1> QED
  BY <1>8 DEF all

ActiveIds == [k \in 1..Len(active) |-> RuleId(active[k].rule)]
ResidualIds == [k \in (judged + 1)..Len(residual) |-> TermId(Form, residual[k])]
RulesUpTo(n) == {RuleId(Rules[i]) : i \in 1..n}
TermsUpTo(n) == {TermId(Form, terms[i]) : i \in 1..n}

TermsOnce == \A i, k \in 1..Len(terms) : terms[i] = terms[k] => i = k

CoverInv ==
    /\ phase \in {"rules", "texts", "terms", "duties"} => residual = <<>> /\ judged = 0
    /\ phase \in {"terms", "duties"} => index = 0
    /\ phase \in {"duties", "screen", "fields", "done"} => TermsOnce
    /\ phase = "rules" => index <= Len(Rules) /\ Due(findings, ActiveIds, RulesUpTo(index))
    /\ phase = "texts" => Due(findings, ActiveIds, RulesUpTo(Len(Rules)))
    /\ phase \in {"terms", "duties"} => Due(findings, <<>>, RulesUpTo(Len(Rules)))
    /\ phase = "screen" =>
        /\ index <= Len(terms) /\ (judged # 0 => index = Len(terms))
        /\ Due(findings, ResidualIds, RulesUpTo(Len(Rules)) \cup TermsUpTo(index))
    /\ phase \in {"fields", "done"} =>
        Due(findings, <<>>, RulesUpTo(Len(Rules)) \cup TermsUpTo(Len(terms)))

LEMMA IdsDiffer ==
  ASSUME NEW r, NEW q, NEW f, NEW n, NEW m
  PROVE  /\ RuleId(r) = RuleId(q) => r.rule_id = q.rule_id
         /\ n # 0 => TermId(f, n) # RuleId(r)
         /\ TermId(f, n) = TermId(f, m) => n = m
BY DEF RuleId, TermId

LEMMA IdFields ==
  /\ \A f, n : TermId(f, n).no = n /\ TermId(f, n).rule = "standard_form"
  /\ \A r : RuleId(r).no = 0 /\ RuleId(r).rule = r.rule_id
BY DEF RuleId, TermId

\* An id once due stays so when the pending sequence is empty under another name.
LEMMA DueEmpty ==
  ASSUME NEW fs, NEW p, NEW q, NEW ids, DOMAIN p = {}, DOMAIN q = {}, Due(fs, p, ids)
  PROVE  Due(fs, q, ids)
BY DEF Due

\* What the loop over the rules adds.
LEMMA CoverTakeRule ==
  ASSUME AuditTypes, CoverInv, TakeRule
  PROVE  CoverInv'
<1> DEFINE rule == Rules[index + 1]
<1>1. /\ phase = "rules" /\ phase' = "rules" /\ index < Len(Rules) /\ index' = index + 1
      /\ job' = job /\ residual' = residual /\ judged' = judged
  BY DEF TakeRule, form_terms
<1>2. /\ Rules \in Seq(RuleType) /\ Len(Rules) \in Nat /\ index \in Nat
      /\ \A i, j \in 1..Len(Rules) : Rules[i].rule_id = Rules[j].rule_id => i = j
  BY <1>1, RulesTyped DEF AuditTypes
<1>3. rule \in RuleType /\ index + 1 \in 1..Len(Rules)
  BY <1>1, <1>2
<1>4. Rules' = Rules
  BY <1>1 DEF Rules
<1>5. RulesUpTo(index)' = RulesUpTo(index) \cup {RuleId(rule)}
  <2>1. 1..(index + 1) = (1..index) \cup {index + 1}
    BY <1>2
  <2> QED
    BY <1>1, <1>4, <2>1 DEF RulesUpTo
<1>6. RuleId(rule) \notin RulesUpTo(index)
  <2> SUFFICES ASSUME NEW i \in 1..index, RuleId(rule) = RuleId(Rules[i]) PROVE FALSE
    BY DEF RulesUpTo
  <2>1. Rules[i].rule_id = rule.rule_id
    <3> HIDE DEF rule
    <3> QED
      BY IdsDiffer, Zenon
  <2>2. i \in 1..Len(Rules)
    BY <1>1, <1>2
  <2>3. i = index + 1
    BY <1>2, <1>3, <2>1, <2>2
  <2> QED
    BY <1>2, <2>3
<1>7. /\ Due(findings, ActiveIds, RulesUpTo(index)) /\ findings \in Seq(FindingType)
      /\ active \in Seq(ActiveType) /\ residual = <<>> /\ judged = 0
  BY <1>1 DEF CoverInv, AuditTypes
<1>8. \/ findings' = Append(findings, Skipped(rule, "inactive")) /\ active' = active
      \/ findings' = Append(findings, Skipped(rule, "absent")) /\ active' = active
      \/ active' = Append(active, [rule |-> rule, cited |-> law[rule.ref]]) /\ findings' = findings
  BY DEF TakeRule, Resolve
<1>9. ASSUME NEW why \in {"inactive", "absent"},
             findings' = Append(findings, Skipped(rule, why)), active' = active
      PROVE  Due(findings, ActiveIds, RulesUpTo(index))'
  <2>1. Skipped(rule, why) \in FindingType /\ Skipped(rule, why).id = RuleId(rule)
    BY <1>3, SkippedFacts DEF Makers
  <2>2. ActiveIds' = ActiveIds
    BY <1>9 DEF ActiveIds
  <2> HIDE DEF rule
  <2>3. Due(findings', ActiveIds, RulesUpTo(index) \cup {RuleId(rule)})
    BY <1>6, <1>7, <1>9, <2>1, DueFinding
  <2>4. Due(findings, ActiveIds, RulesUpTo(index))' <=> Due(findings', ActiveIds', RulesUpTo(index)')
    BY DEF Due
  <2> QED
    BY <1>5, <2>2, <2>3, <2>4
<1>10. ASSUME active' = Append(active, [rule |-> rule, cited |-> law[rule.ref]]), findings' = findings
       PROVE  Due(findings, ActiveIds, RulesUpTo(index))'
  <2> HIDE DEF rule
  <2>1. /\ Len(active') = Len(active) + 1 /\ Len(active) \in Nat
        /\ active'[Len(active) + 1].rule = rule /\ \A k \in 1..Len(active) : active'[k] = active[k]
    BY <1>7, <1>10
  <2>2. /\ DOMAIN ActiveIds = 1..Len(active) /\ DOMAIN ActiveIds' = 1..(Len(active) + 1)
        /\ ActiveIds'[Len(active) + 1] = RuleId(rule)
        /\ \A k \in 1..Len(active) : ActiveIds'[k] = ActiveIds[k]
    BY <2>1 DEF ActiveIds
  <2>3. Due(findings, ActiveIds', RulesUpTo(index) \cup {RuleId(rule)})
    BY <1>6, <1>7, <2>1, <2>2, DuePending
  <2>4. Due(findings, ActiveIds, RulesUpTo(index))' <=> Due(findings', ActiveIds', RulesUpTo(index)')
    BY DEF Due
  <2> QED
    BY <1>5, <1>10, <2>3, <2>4
<1>11. Due(findings, ActiveIds, RulesUpTo(index))'
  BY <1>8, <1>9, <1>10
<1> QED
  BY <1>1, <1>2, <1>4, <1>7, <1>11 DEF CoverInv

LEMMA EmptyDomain ==
  DOMAIN <<>> = {} /\ Len(<<>>) = 0 /\ \A a \in Nat : (a + 1)..a = {}
OBVIOUS

\* Due, UpTo and the like only depend on what they mention.
LEMMA SameUpTo ==
  ASSUME UNCHANGED <<job, terms>>
  PROVE  /\ Rules' = Rules /\ Form' = Form
         /\ \A n : RulesUpTo(n)' = RulesUpTo(n) /\ TermsUpTo(n)' = TermsUpTo(n)
BY DEF Rules, Form, RulesUpTo, TermsUpTo, VicForm

LEMMA CoverJudgeRules ==
  ASSUME AuditTypes, CoverInv, JudgeRules
  PROVE  CoverInv'
<1>1. /\ phase = "texts" /\ phase' = "terms" /\ index' = 0
      /\ UNCHANGED <<job, terms, residual, judged>> /\ residual = <<>> /\ judged = 0
  BY DEF JudgeRules, CoverInv, form_terms
<1>2. /\ Due(findings, ActiveIds, RulesUpTo(Len(Rules))) /\ findings \in Seq(FindingType)
      /\ Len(active) \in Nat /\ DOMAIN ActiveIds = 1..Len(active)
      /\ \A i \in 1..Len(active) : ActiveIds[i] = RuleId(active[i].rule)
  BY <1>1 DEF CoverInv, AuditTypes, ActiveIds
<1>3. PICK g \in Seq(FindingType) :
        /\ findings' = findings \o g /\ Len(g) = Len(active)
        /\ \A i \in 1..Len(active) : g[i].id = RuleId(active[i].rule)
  BY JudgedRules
<1>4. Due(findings', <<>>, RulesUpTo(Len(Rules)))
  <2>1. \A i \in 1..Len(g) : g[i].id = ActiveIds[1 + i - 1]
    BY <1>2, <1>3
  <2>2. \A k : k \in DOMAIN <<>> <=> k \in 1..Len(active) /\ k >= 1 + Len(g)
    BY <1>2, <1>3, EmptyDomain
  <2>3. \A k \in DOMAIN <<>> : <<>>[k] = ActiveIds[k]
    BY EmptyDomain
  <2>4. 1 + Len(g) <= Len(active) + 1
    BY <1>2, <1>3
  <2>5. Due(findings \o g, <<>>, RulesUpTo(Len(Rules)))
    BY <1>2, <1>3, <2>1, <2>2, <2>3, <2>4, DueJudged
  <2> QED
    BY <1>3, <2>5
<1>5. Due(findings', <<>>, RulesUpTo(Len(Rules))')
  BY <1>1, <1>4, SameUpTo DEF Rules, RulesUpTo
<1> QED
  BY <1>1, <1>5 DEF CoverInv, Due

LEMMA CoverFetchTerms ==
  ASSUME AuditTypes, CoverInv, FetchTerms
  PROVE  CoverInv'
<1>1. /\ phase = "terms" /\ phase' \in {"screen", "duties"} /\ index' = index /\ index = 0
      /\ UNCHANGED <<job, residual, judged, findings>> /\ residual = <<>> /\ judged = 0
      /\ Due(findings, <<>>, RulesUpTo(Len(Rules)))
  BY DEF FetchTerms, CoverInv, report, rules
<1>2. PICK order \in [1..Cardinality(prescribed[Form]) -> prescribed[Form]] :
        terms' = order /\ \A i, k \in DOMAIN order : i < k => order[i] < order[k]
  BY DEF FetchTerms
<1>3. Cardinality(prescribed[Form]) \in Nat /\ prescribed[Form] \subseteq TermNos
  BY FormIsPrescribed, FamiliesAssumption, FS_Subset, FS_CardinalityType DEF AuditTypes
<1>4. TermsOnce'
  <2>1. \A i \in DOMAIN order : order[i] \in Nat
    BY <1>2, <1>3, FamiliesAssumption
  <2>2. Len(terms') \in Nat /\ 1..Len(terms') = DOMAIN order /\ \A i \in DOMAIN order : i \in Nat
    BY <1>2, <1>3
  <2>3. \A i, k \in DOMAIN order : order[i] = order[k] => i = k
    BY <1>2, <2>1, <2>2
  <2> QED
    BY <1>2, <2>2, <2>3 DEF TermsOnce
<1>5. /\ 0 <= Len(terms') /\ Rules' = Rules /\ RulesUpTo(Len(Rules))' = RulesUpTo(Len(Rules))
      /\ TermsUpTo(0)' = {} /\ DOMAIN ResidualIds' = {}
  BY <1>1, <1>2, <1>3, EmptyDomain DEF Rules, RulesUpTo, TermsUpTo, ResidualIds
<1>6. Due(findings', ResidualIds', RulesUpTo(Len(Rules))' \cup TermsUpTo(0)')
  <2>1. Due(findings, ResidualIds', RulesUpTo(Len(Rules)))
    BY <1>1, <1>5, DueEmpty, EmptyDomain
  <2> QED
    BY <1>1, <1>5, <2>1
<1>7. Due(findings', <<>>, RulesUpTo(Len(Rules))')
  BY <1>1, <1>5
<1> QED
  BY <1>1, <1>4, <1>5, <1>6, <1>7 DEF CoverInv, Due

LEMMA CoverScreenTerm ==
  ASSUME AuditTypes, CoverInv, ScreenTerm
  PROVE  CoverInv'
<1> DEFINE n == terms[index + 1]
           ids == RulesUpTo(Len(Rules)) \cup TermsUpTo(index)
<1>1. /\ phase = "screen" /\ phase' = "screen" /\ index < Len(terms) /\ index' = index + 1
      /\ UNCHANGED <<job, terms, judged>> /\ judged = 0 /\ TermsOnce
      /\ Due(findings, ResidualIds, ids)
      /\ index \in Nat /\ terms \in Seq(TermNos) /\ Len(terms) \in Nat /\ job \in Jobs
      /\ findings \in Seq(FindingType) /\ residual \in Seq(TermNos)
  BY DEF ScreenTerm, CoverInv, AuditTypes
<1>2. n \in TermNos /\ n # 0 /\ index + 1 \in 1..Len(terms)
  BY <1>1, FamiliesAssumption
<1>3. TermsUpTo(index)' = TermsUpTo(index) \cup {TermId(Form, n)}
  <2>1. 1..(index + 1) = (1..index) \cup {index + 1}
    BY <1>1
  <2>2. Form' = Form
    BY <1>1, SameUpTo
  <2> QED
    BY <1>1, <2>1, <2>2 DEF TermsUpTo
<1>4. TermId(Form, n) \notin ids
  <2>1. \A i \in 1..index : TermId(Form, terms[i]) # TermId(Form, n)
    <3> SUFFICES ASSUME NEW i \in 1..index, TermId(Form, terms[i]) = TermId(Form, n) PROVE FALSE
      OBVIOUS
    <3>1. terms[i] = n /\ i \in 1..Len(terms) /\ i # index + 1
      BY <1>1, IdsDiffer
    <3> QED
      BY <1>1, <1>2, <3>1 DEF TermsOnce
  <2>2. \A i \in 1..Len(Rules) : RuleId(Rules[i]) # TermId(Form, n)
    BY <1>2, IdsDiffer
  <2> QED
    BY <2>1, <2>2 DEF RulesUpTo, TermsUpTo
<1>5. Rules' = Rules /\ RulesUpTo(Len(Rules))' = RulesUpTo(Len(Rules))
  BY <1>1 DEF Rules, RulesUpTo
<1> HIDE DEF ids
<1>6. Due(findings', ResidualIds', ids \cup {TermId(Form, n)})
  <2>1. CASE findings' = Append(findings, TermFinding(n, "green", "screen", Silent)) /\ residual' = residual
    <3> DEFINE f == TermFinding(n, "green", "screen", Silent)
    <3>1. f \in FindingType /\ f.id = TermId(Form, n)
      BY <1>2, TermFindingFacts, ItemsTyped DEF Makers, Verdicts
    <3>2. ResidualIds' = ResidualIds
      BY <1>1, <2>1, SameUpTo DEF ResidualIds
    <3> HIDE DEF f, n
    <3>3. Due(Append(findings, f), ResidualIds, ids \cup {f.id})
      BY <1>1, <1>4, <3>1, DueFinding
    <3> QED
      BY <2>1, <3>1, <3>2, <3>3 DEF f
  <2>2. CASE residual' = Append(residual, n) /\ findings' = findings
    <3> HIDE DEF n
    <3>1. /\ Len(residual') = Len(residual) + 1 /\ Len(residual) \in Nat
          /\ residual'[Len(residual) + 1] = n /\ \A k \in 1..Len(residual) : residual'[k] = residual[k]
      BY <1>1, <1>2, <2>2
    <3>2. /\ DOMAIN ResidualIds = 1..Len(residual) /\ DOMAIN ResidualIds' = 1..(Len(residual) + 1)
          /\ ResidualIds'[Len(residual) + 1] = TermId(Form, n)
          /\ \A k \in 1..Len(residual) : ResidualIds'[k] = ResidualIds[k]
      BY <1>1, <3>1, SameUpTo DEF ResidualIds
    <3>3. Due(findings, ResidualIds', ids \cup {TermId(Form, n)})
      BY <1>1, <1>4, <3>1, <3>2, DuePending
    <3> QED
      BY <2>2, <3>3
  <2> QED
    BY <2>1, <2>2 DEF ScreenTerm
<1>7. Due(findings', ResidualIds', RulesUpTo(Len(Rules))' \cup TermsUpTo(index)')
  BY <1>3, <1>5, <1>6 DEF ids
<1>8. TermsOnce' /\ index' <= Len(terms')
  BY <1>1 DEF TermsOnce
<1> QED
  BY <1>1, <1>7, <1>8 DEF CoverInv, Due

LEMMA CoverJudgeBatch ==
  ASSUME AuditTypes, CoverInv, JudgeBatch
  PROVE  CoverInv'
<1> DEFINE ids == RulesUpTo(Len(Rules)) \cup TermsUpTo(index)
<1>1. /\ phase = "screen" /\ phase' = "screen" /\ index = Len(terms) /\ judged < Len(residual)
      /\ judged' = judged + BATCH_SIZE
      /\ UNCHANGED <<job, terms, index, residual>> /\ TermsOnce
      /\ Due(findings, ResidualIds, ids)
      /\ judged \in Nat /\ Len(residual) \in Nat /\ findings \in Seq(FindingType)
      /\ BATCH_SIZE \in Nat /\ BATCH_SIZE > 0
  BY FamiliesAssumption DEF JudgeBatch, CoverInv, AuditTypes
<1>2. PICK g \in Seq(FindingType) :
        /\ findings' = findings \o g
        /\ Len(g) = BatchEnd(judged) - judged /\ BatchEnd(judged) <= Len(residual)
        /\ \A i \in 1..Len(g) :
            judged + i \in 1..Len(residual) /\ g[i].id = TermId(Form, residual[judged + i])
  BY JudgedTerms
<1>3. /\ BatchEnd(judged) \in Nat
      /\ \/ BatchEnd(judged) = judged + BATCH_SIZE
         \/ BatchEnd(judged) = Len(residual) /\ Len(residual) <= judged + BATCH_SIZE
  <2>1. CASE judged + BATCH_SIZE < Len(residual)
    <3>1. BatchEnd(judged) = judged + BATCH_SIZE
      BY <2>1 DEF BatchEnd
    <3>2. BatchEnd(judged) \in Nat
      BY <1>1, <3>1
    <3> QED
      BY <3>1, <3>2
  <2>2. CASE ~(judged + BATCH_SIZE < Len(residual))
    <3>1. BatchEnd(judged) = Len(residual) /\ Len(residual) <= judged + BATCH_SIZE
      BY <1>1, <2>2 DEF BatchEnd
    <3> QED
      BY <1>1, <3>1
  <2> QED
    BY <2>1, <2>2
<1>4. /\ DOMAIN ResidualIds = (judged + 1)..Len(residual)
      /\ DOMAIN ResidualIds' = (judged + BATCH_SIZE + 1)..Len(residual)
      /\ \A k \in DOMAIN ResidualIds : ResidualIds[k] = TermId(Form, residual[k])
      /\ \A k \in DOMAIN ResidualIds' : ResidualIds'[k] = TermId(Form, residual[k])
  BY <1>1, SameUpTo DEF ResidualIds
<1> HIDE DEF ids
<1>5. Due(findings \o g, ResidualIds', ids)
  <2>1. \A i \in 1..Len(g) : g[i].id = ResidualIds[(judged + 1) + i - 1]
    <3> SUFFICES ASSUME NEW i \in 1..Len(g) PROVE g[i].id = ResidualIds[(judged + 1) + i - 1]
      OBVIOUS
    <3>1. (judged + 1) + i - 1 = judged + i /\ judged + i \in (judged + 1)..Len(residual)
      BY <1>1, <1>2
    <3> QED
      BY <1>2, <1>4, <3>1
  <2>2. \A k : k \in DOMAIN ResidualIds' <=> k \in (judged + 1)..Len(residual) /\ k >= (judged + 1) + Len(g)
    BY <1>1, <1>2, <1>3, <1>4
  <2>3. \A k \in DOMAIN ResidualIds' : ResidualIds'[k] = ResidualIds[k]
    BY <1>4, <2>2
  <2>4. (judged + 1) + Len(g) <= Len(residual) + 1 /\ judged + 1 \in Nat
    BY <1>1, <1>2, <1>3
  <2> QED
    BY <1>1, <1>2, <1>4, <2>1, <2>2, <2>3, <2>4, DueJudged
<1>6. /\ Rules' = Rules /\ RulesUpTo(Len(Rules))' = RulesUpTo(Len(Rules)) /\ TermsUpTo(index)' = TermsUpTo(index)
      /\ TermsOnce' /\ index' <= Len(terms')
  <2>1. Len(terms) \in Nat
    BY DEF AuditTypes
  <2> QED
    BY <1>1, <2>1, SameUpTo DEF Rules, RulesUpTo, TermsUpTo, TermsOnce
<1>7. Due(findings', ResidualIds', RulesUpTo(Len(Rules))' \cup TermsUpTo(index)')
  BY <1>2, <1>5, <1>6 DEF ids
<1> QED
  BY <1>1, <1>6, <1>7 DEF CoverInv, Due

LEMMA CoverStep ==
  ASSUME AuditTypes, CoverInv, [AuditNext]_avars
  PROVE  CoverInv'
<1>1. ASSUME NEW j \in Jobs, Begin(j) PROVE CoverInv'
  <2>1. /\ phase' = "rules" /\ index' = 0 /\ residual' = <<>> /\ judged' = 0 /\ findings' = <<>>
        /\ active' = <<>> /\ job' = j
    BY <1>1 DEF Begin, NothingYet
  <2>2. Len(Rules') \in Nat
    BY <2>1, FamiliesAssumption DEF Rules
  <2>3. DOMAIN ActiveIds' = {} /\ RulesUpTo(0)' = {} /\ 1..Len(findings') = {}
    BY <2>1, EmptyDomain DEF ActiveIds, RulesUpTo
  <2>4. Due(findings', ActiveIds', RulesUpTo(0)')
    BY <2>3 DEF Due
  <2> QED
    BY <2>1, <2>2, <2>4 DEF CoverInv, Due
<1>2. CASE Leave
  BY <1>2 DEF Leave, CoverInv
<1>3. CASE RulesTaken
  <2>1. /\ phase = "rules" /\ index = Len(Rules) /\ index' = 0
        /\ UNCHANGED <<job, active, residual, judged, findings>>
        /\ phase' = IF active = <<>> THEN "terms" ELSE "texts"
    BY <1>3 DEF RulesTaken, rules, form_terms, report
  <2>2. Due(findings, ActiveIds, RulesUpTo(Len(Rules)))
    BY <2>1 DEF CoverInv
  <2>3. Rules' = Rules /\ RulesUpTo(Len(Rules))' = RulesUpTo(Len(Rules)) /\ ActiveIds' = ActiveIds
    BY <2>1 DEF Rules, RulesUpTo, ActiveIds
  <2>4. active = <<>> => Due(findings, <<>>, RulesUpTo(Len(Rules)))
    <3>1. active = <<>> => DOMAIN ActiveIds = {}
      BY EmptyDomain DEF ActiveIds
    <3> QED
      BY <2>2, <3>1, DueEmpty, EmptyDomain
  <2> QED
    BY <2>1, <2>2, <2>3, <2>4 DEF CoverInv, Due
<1>4. CASE ReadText
  <2>1. /\ phase = "texts" /\ phase' = "texts" /\ Due(findings, ActiveIds, RulesUpTo(Len(Rules)))
        /\ UNCHANGED <<job, active, residual, judged, findings>> /\ residual = <<>> /\ judged = 0
    BY <1>4 DEF ReadText, CoverInv, form_terms, report
  <2>2. RulesUpTo(Len(Rules))' = RulesUpTo(Len(Rules)) /\ ActiveIds' = ActiveIds
    BY <2>1 DEF Rules, RulesUpTo, ActiveIds
  <2> QED
    BY <2>1, <2>2 DEF CoverInv, Due
<1>5. CASE FetchDuties
  <2>1. /\ phase = "duties" /\ phase' = "screen" /\ UNCHANGED <<job, index, terms, residual, judged, findings>>
        /\ index = 0 /\ residual = <<>> /\ judged = 0 /\ TermsOnce /\ Due(findings, <<>>, RulesUpTo(Len(Rules)))
        /\ Len(terms) \in Nat
    BY <1>5 DEF FetchDuties, CoverInv, report, AuditTypes
  <2>2. /\ RulesUpTo(Len(Rules))' = RulesUpTo(Len(Rules)) /\ TermsUpTo(0)' = {}
        /\ DOMAIN ResidualIds' = {} /\ TermsOnce'
    BY <2>1, EmptyDomain DEF Rules, RulesUpTo, TermsUpTo, ResidualIds, TermsOnce
  <2>3. Due(findings, ResidualIds', RulesUpTo(Len(Rules)))
    BY <2>1, <2>2, DueEmpty, EmptyDomain
  <2>4. Due(findings', ResidualIds', RulesUpTo(Len(Rules))' \cup TermsUpTo(0)')
    BY <2>1, <2>2, <2>3
  <2> QED
    BY <2>1, <2>2, <2>4 DEF CoverInv, Due
<1>6. CASE TermsJudged
  <2>1. /\ phase = "screen" /\ phase' \in {"fields", "done"} /\ index = Len(terms)
        /\ judged >= Len(residual) /\ judged \in Nat /\ Len(residual) \in Nat
        /\ UNCHANGED <<job, terms, findings>> /\ TermsOnce
        /\ Due(findings, ResidualIds, RulesUpTo(Len(Rules)) \cup TermsUpTo(Len(terms)))
    BY <1>6 DEF TermsJudged, CoverInv, AuditTypes, form_terms, report
  <2>2. DOMAIN ResidualIds = {}
    BY <2>1 DEF ResidualIds
  <2>3. Due(findings, <<>>, RulesUpTo(Len(Rules)) \cup TermsUpTo(Len(terms)))
    BY <2>1, <2>2, DueEmpty, EmptyDomain
  <2>4. /\ RulesUpTo(Len(Rules))' = RulesUpTo(Len(Rules)) /\ TermsOnce'
        /\ TermsUpTo(Len(terms))' = TermsUpTo(Len(terms))
    BY <2>1, SameUpTo DEF Rules, RulesUpTo, TermsUpTo, TermsOnce
  <2>5. Due(findings', <<>>, RulesUpTo(Len(Rules))' \cup TermsUpTo(Len(terms))')
    BY <2>1, <2>3, <2>4
  <2> QED
    BY <2>1, <2>4, <2>5 DEF CoverInv, Due
<1>7. CASE JudgeFields
  <2>1. phase = "fields" /\ phase' = "done" /\ UNCHANGED <<job, terms, findings>>
    BY <1>7 DEF JudgeFields, form_terms
  <2> QED
    BY <2>1 DEF CoverInv, Rules, RulesUpTo, TermsUpTo, TermsOnce, Due, Form, VicForm
<1>8. ASSUME UNCHANGED <<job, phase, index, active, terms, residual, judged, findings>> PROVE CoverInv'
  BY <1>8 DEF CoverInv, Due, ActiveIds, ResidualIds, Rules, RulesUpTo, TermsUpTo, TermsOnce, Form, VicForm
<1>9. CASE RefreshSection \/ RefreshForms \/ UNCHANGED avars
  BY <1>8, <1>9 DEF RefreshSection, RefreshForms, avars, rules, form_terms, report
<1> QED
  BY <1>1, <1>2, <1>3, <1>4, <1>5, <1>6, <1>7, <1>9,
     CoverTakeRule, CoverJudgeRules, CoverFetchTerms, CoverScreenTerm, CoverJudgeBatch
     DEF AuditNext, Audit
-----------------------------------------------------------------------------
(* What findings rest on: the rows that were in force while the job ran, and *)
(* the words of the document.                                               *)

Cited(f) ==
    f.cited # 0 =>
        /\ f.ref \in Refs /\ f.cited \in past[f.ref]
        /\ f.by = "judge" /\ f.id.no = 0 /\ past[f.ref] = {f.cited} => f.shown = f.cited

\* The text of a rule that was read is that of the row cited, unless the section changed.
AsCited(a) == past[a.rule.ref] = {a.cited} => shown[a.rule.ref] = a.cited

CiteInv ==
    /\ phase = "idle" => active = <<>> /\ findings = <<>> /\ \A s \in Refs : shown[s] = 0
    /\ phase = "idle" => \A n \in TermNos : duties[n] = 0
    /\ phase # "idle" => \A s \in Refs : law[s] \in past[s]
    /\ \A k \in 1..Len(active) : active[k].cited \in past[active[k].rule.ref]
    /\ phase = "texts" => \A k \in 1..Len(active) : k <= index => AsCited(active[k])
    /\ \A s \in Refs : shown[s] # 0 => shown[s] \in past[s]
    /\ \A n \in TermNos : duties[n] # 0 => duties[n] \in past[DutyRef(n)]
    /\ \A i \in 1..Len(findings) : Cited(findings[i])

LEMMA ActiveFacts ==
  ASSUME AuditTypes, NEW k \in 1..Len(active)
  PROVE  /\ active[k].rule \in RuleType /\ active[k].rule.ref \in Refs
         /\ active[k].cited \in Rows /\ active[k].cited # 0 /\ active[k].cited \in Row
<1>1. active[k] \in ActiveType
  BY DEF AuditTypes
<1> QED
  BY <1>1, FamiliesAssumption DEF ActiveType, RuleType, Row

LEMMA CiteTakeRule ==
  ASSUME AuditTypes, CiteInv, TakeRule
  PROVE  CiteInv'
<1> DEFINE rule == Rules[index + 1]
           a == [rule |-> rule, cited |-> law[rule.ref]]
<1>1. /\ phase = "rules" /\ phase' = "rules" /\ index < Len(Rules)
      /\ UNCHANGED <<law, past, shown, duties>>
      /\ findings \in Seq(FindingType) /\ active \in Seq(ActiveType) /\ index \in Nat
  BY DEF TakeRule, corpus, form_terms, AuditTypes
<1>2. rule \in RuleType /\ rule.ref \in Refs
  <2>1. Rules \in Seq(RuleType)
    BY <1>1, RulesTyped DEF AuditTypes
  <2>2. Len(Rules) \in Nat /\ index + 1 \in 1..Len(Rules)
    BY <1>1, <2>1
  <2>3. Rules[index + 1] \in RuleType
    BY <2>1, <2>2
  <2> QED
    BY <2>3 DEF RuleType
<1>3. /\ Skipped(rule, "inactive").cited = 0 /\ Skipped(rule, "absent").cited = 0
      /\ Skipped(rule, "inactive") \in FindingType /\ Skipped(rule, "absent") \in FindingType
      /\ a.cited \in past[a.rule.ref]
  BY <1>1, <1>2, SkippedFacts DEF Makers, CiteInv
<1>4. \/ findings' = Append(findings, Skipped(rule, "inactive")) /\ active' = active
      \/ findings' = Append(findings, Skipped(rule, "absent")) /\ active' = active
      \/ active' = Append(active, a) /\ findings' = findings /\ law[rule.ref] # 0
  BY DEF TakeRule, Resolve
<1>9. law[rule.ref] # 0 => a \in ActiveType
  BY <1>2 DEF AuditTypes, Row, ActiveType
<1> HIDE DEF rule, a
<1>5. \A i \in 1..Len(findings') : findings'[i].cited # 0 => i \in 1..Len(findings) /\ findings'[i] = findings[i]
  BY <1>1, <1>3, <1>4
<1>6. \A k \in 1..Len(active') : (k \in 1..Len(active) /\ active'[k] = active[k]) \/ active'[k] = a
  BY <1>1, <1>4, <1>9
<1>7. \A k \in 1..Len(active') : active'[k].cited \in past[active'[k].rule.ref]
  BY <1>3, <1>6 DEF CiteInv
<1>8. \A i \in 1..Len(findings') : Cited(findings[i])'
  BY <1>1, <1>5 DEF CiteInv, Cited
<1> QED
  BY <1>1, <1>7, <1>8 DEF CiteInv

LEMMA CiteReadText ==
  ASSUME AuditTypes, CiteInv, ReadText
  PROVE  CiteInv'
<1> DEFINE s == active[index + 1].rule.ref
<1>1. /\ phase = "texts" /\ phase' = "texts" /\ index < Len(active) /\ index' = index + 1
      /\ UNCHANGED <<law, past, active, duties, findings>>
      /\ shown \in [Refs -> Row] /\ index \in Nat /\ Len(active) \in Nat
      /\ shown' = IF shown[s] # 0 THEN shown ELSE [shown EXCEPT ![s] = law[s]]
  BY DEF ReadText, corpus, form_terms, report, AuditTypes, TextOf
<1>2. s \in Refs /\ law[s] \in past[s]
  BY <1>1, ActiveFacts DEF CiteInv
<1>3. \A r \in Refs : shown'[r] = shown[r] \/ (r = s /\ shown[s] = 0 /\ shown'[s] = law[s])
  BY <1>1, <1>2
<1>4. shown'[s] # 0 => shown'[s] \in past[s]
  BY <1>1, <1>2, <1>3 DEF CiteInv
<1>5. shown'[s] = law[s] \/ (shown'[s] = shown[s] /\ shown[s] # 0)
  BY <1>1, <1>2
<1> HIDE DEF s
<1>6. \A r \in Refs : shown'[r] # 0 => shown'[r] \in past[r]
  BY <1>3, <1>4 DEF CiteInv
<1>7. ASSUME NEW k \in 1..Len(active), k <= index + 1, past[active[k].rule.ref] = {active[k].cited}
      PROVE  shown'[active[k].rule.ref] = active[k].cited
  <2>1. active[k].rule.ref \in Refs /\ active[k].cited # 0
    BY ActiveFacts
  <2>2. CASE k <= index
    <3>1. shown[active[k].rule.ref] = active[k].cited
      BY <1>1, <1>7, <2>2 DEF CiteInv, AsCited
    <3> QED
      BY <1>3, <2>1, <3>1
  <2>3. CASE k = index + 1
    <3>1. active[k].rule.ref = s
      BY <2>3 DEF s
    <3>2. shown'[s] \in past[s]
      BY <1>2, <1>4, <1>5
    <3> QED
      BY <1>7, <3>1, <3>2
  <2> QED
    BY <1>1, <1>7, <2>2, <2>3
<1>8. \A k \in 1..Len(active') : k <= index' => AsCited(active[k])'
  BY <1>1, <1>7 DEF AsCited
<1>9. \A i \in 1..Len(findings') : Cited(findings[i])'
  BY <1>1 DEF CiteInv, Cited
<1> QED
  BY <1>1, <1>6, <1>8, <1>9 DEF CiteInv

LEMMA CiteJudgeRules ==
  ASSUME AuditTypes, CiteInv, JudgeRules
  PROVE  CiteInv'
<1>1. /\ phase = "texts" /\ phase' = "terms" /\ index = Len(active)
      /\ UNCHANGED <<law, past, active, shown, duties>> /\ findings \in Seq(FindingType)
      /\ Len(active) \in Nat
  BY DEF JudgeRules, corpus, form_terms, rules, AuditTypes
<1>2. PICK g \in Seq(FindingType) :
            /\ findings' = findings \o g /\ Len(g) = Len(active)
            /\ \A i \in 1..Len(active) :
                /\ g[i].ref = active[i].rule.ref /\ g[i].cited = active[i].cited
                /\ g[i].shown = shown[active[i].rule.ref]
  BY JudgedRules
<1>3. \A i \in 1..Len(g) : Cited(g[i])
  <2> SUFFICES ASSUME NEW i \in 1..Len(g) PROVE Cited(g[i])
    OBVIOUS
  <2>1. active[i].rule.ref \in Refs /\ active[i].cited \in past[active[i].rule.ref] /\ AsCited(active[i])
    BY <1>1, <1>2, ActiveFacts DEF CiteInv
  <2> QED
    BY <1>2, <2>1 DEF Cited, AsCited
<1>4. \A i \in 1..Len(findings') :
        (i \in 1..Len(findings) /\ findings'[i] = findings[i]) \/ \E k \in 1..Len(g) : findings'[i] = g[k]
  BY <1>1, <1>2
<1>5. \A i \in 1..Len(findings') : Cited(findings'[i])
  BY <1>3, <1>4 DEF CiteInv
<1>6. \A i \in 1..Len(findings') : Cited(findings[i])'
  BY <1>1, <1>5 DEF Cited
<1> QED
  BY <1>1, <1>6 DEF CiteInv

LEMMA CiteTerms ==
  ASSUME AuditTypes, CiteInv, NEW f \in FindingType, NEW n \in TermNos,
         f.cited = duties[n], f.cited # 0 => f.ref = DutyRef(n), f.id.no = n
  PROVE  Cited(f)
<1>1. duties[n] # 0 => DutyRef(n) \in Refs
  <2>1. n \in DOMAIN NSW_ACT_DUTIES => DutyRef(n) \in Refs
    BY FamiliesAssumption
  <2>2. duties[n] # 0 => n \in DOMAIN NSW_ACT_DUTIES
    BY DEF AuditTypes
  <2> QED
    BY <2>1, <2>2
<1>2. duties[n] # 0 => duties[n] \in past[DutyRef(n)]
  BY DEF CiteInv
<1>3. n # 0
  BY FamiliesAssumption
<1> QED
  BY <1>1, <1>2, <1>3 DEF Cited

LEMMA CiteScreenTerm ==
  ASSUME AuditTypes, CiteInv, ScreenTerm
  PROVE  CiteInv'
<1> DEFINE n == terms[index + 1]
           f == TermFinding(n, "green", "screen", Silent)
<1>1. /\ phase = "screen" /\ phase' = "screen" /\ UNCHANGED <<law, past, active, shown, duties>>
      /\ findings \in Seq(FindingType)
  BY DEF ScreenTerm, corpus, rules, AuditTypes
<1>2. n \in TermNos
  BY DEF ScreenTerm, AuditTypes
<1>3. f \in FindingType /\ Cited(f)
  <2>1. /\ f \in FindingType /\ f.id = TermId(Form, n) /\ f.cited = duties[n]
        /\ f.cited # 0 => f.ref = DutyRef(n)
        /\ TermId(Form, n).no = n
    BY <1>2, TermFindingFacts, ItemsTyped DEF Makers, Verdicts
  <2> HIDE DEF f, n
  <2> QED
    BY <1>2, <2>1, CiteTerms
<1>4. findings' = findings \/ findings' = Append(findings, f)
  BY DEF ScreenTerm
<1> HIDE DEF f
<1>5. \A i \in 1..Len(findings') : Cited(findings'[i])
  BY <1>1, <1>3, <1>4 DEF CiteInv
<1>6. \A i \in 1..Len(findings') : Cited(findings[i])'
  BY <1>1, <1>5 DEF Cited
<1> QED
  BY <1>1, <1>6 DEF CiteInv

LEMMA CiteJudgeBatch ==
  ASSUME AuditTypes, CiteInv, JudgeBatch
  PROVE  CiteInv'
<1>1. /\ phase = "screen" /\ phase' = "screen" /\ UNCHANGED <<law, past, active, shown, duties>>
      /\ findings \in Seq(FindingType) /\ residual \in Seq(TermNos)
  BY DEF JudgeBatch, corpus, rules, AuditTypes
<1>2. PICK g \in Seq(FindingType) :
        /\ findings' = findings \o g
        /\ \A i \in 1..Len(g) :
            /\ judged + i \in 1..Len(residual)
            /\ g[i].id = TermId(Form, residual[judged + i])
            /\ g[i].cited = duties[residual[judged + i]]
            /\ g[i].cited # 0 => g[i].ref = DutyRef(residual[judged + i])
  BY JudgedTerms
<1>3. \A i \in 1..Len(g) : Cited(g[i])
  <2> SUFFICES ASSUME NEW i \in 1..Len(g) PROVE Cited(g[i])
    OBVIOUS
  <2>1. residual[judged + i] \in TermNos /\ g[i] \in FindingType
    BY <1>1, <1>2
  <2>2. g[i].id.no = residual[judged + i]
    BY <1>2, IdFields
  <2> QED
    BY <1>2, <2>1, <2>2, CiteTerms
<1>4. \A i \in 1..Len(findings') :
        (i \in 1..Len(findings) /\ findings'[i] = findings[i]) \/ \E k \in 1..Len(g) : findings'[i] = g[k]
  BY <1>1, <1>2
<1>5. \A i \in 1..Len(findings') : Cited(findings'[i])
  BY <1>3, <1>4 DEF CiteInv
<1>6. \A i \in 1..Len(findings') : Cited(findings[i])'
  BY <1>1, <1>5 DEF Cited
<1> QED
  BY <1>1, <1>6 DEF CiteInv

\* The corpus moves under the job: what was read stays in the history, and a
\* section with one row in its history has not changed.
LEMMA CiteRefresh ==
  ASSUME AuditTypes, CiteInv, RefreshSection
  PROVE  CiteInv'
<1>1. UNCHANGED <<phase, index, active, shown, duties, findings>>
  BY DEF RefreshSection, rules, form_terms, report
<1>2. PICK s \in Amended : \E row \in (Rows \ past[s]) \cup ({0} \ {law[s]}) :
        /\ law' = [law EXCEPT ![s] = row]
        /\ past' = [past EXCEPT ![s] = IF phase = "idle" THEN {} ELSE past[s] \cup {row}]
  BY DEF RefreshSection
<1>3. PICK row \in (Rows \ past[s]) \cup ({0} \ {law[s]}) :
        /\ law' = [law EXCEPT ![s] = row]
        /\ past' = [past EXCEPT ![s] = IF phase = "idle" THEN {} ELSE past[s] \cup {row}]
  BY <1>2
<1>4. CASE phase = "idle"
  <2>1. 1..Len(active) = {} /\ 1..Len(findings) = {}
    BY <1>4, EmptyDomain DEF CiteInv
  <2> QED
    BY <1>1, <1>4, <2>1 DEF CiteInv
<1>5. CASE phase # "idle"
  <2>1. \A r \in Refs : past[r] \subseteq past'[r] /\ law'[r] \in past'[r]
    BY <1>3, <1>5 DEF CiteInv, AuditTypes
  <2>2. \A r \in Refs : \A c \in past[r] : past'[r] = {c} => past[r] = {c}
    BY <2>1
  <2>3. \A k \in 1..Len(active) : active[k].rule.ref \in Refs /\ active[k].cited \in past[active[k].rule.ref]
    BY ActiveFacts DEF CiteInv
  <2>4. \A k \in 1..Len(active) : active[k].cited \in past'[active[k].rule.ref]
    BY <2>1, <2>3
  <2>5. \A k \in 1..Len(active) : AsCited(active[k]) => AsCited(active[k])'
    BY <1>1, <2>2, <2>3 DEF AsCited
  <2>6. \A r \in Refs : shown[r] # 0 => shown[r] \in past'[r]
    BY <2>1 DEF CiteInv
  <2>7. \A n \in TermNos : duties[n] # 0 => duties[n] \in past'[DutyRef(n)]
    <3> SUFFICES ASSUME NEW n \in TermNos, duties[n] # 0 PROVE duties[n] \in past'[DutyRef(n)]
      OBVIOUS
    <3>1. n \in DOMAIN NSW_ACT_DUTIES
      BY DEF AuditTypes
    <3>2. DutyRef(n) \in Refs
      BY <3>1, FamiliesAssumption
    <3> QED
      BY <2>1, <3>2 DEF CiteInv
  <2>8. \A i \in 1..Len(findings) : Cited(findings[i]) => Cited(findings[i])'
    BY <1>1, <2>1, <2>2 DEF Cited
  <2> QED
    BY <1>1, <1>5, <2>1, <2>4, <2>5, <2>6, <2>7, <2>8 DEF CiteInv
<1> QED
  BY <1>4, <1>5

LEMMA CiteStep ==
  ASSUME AuditTypes, CiteInv, [AuditNext]_avars
  PROVE  CiteInv'
<1>1. ASSUME NEW j \in Jobs, Begin(j) PROVE CiteInv'
  <2>1. /\ phase' = "rules" /\ active' = <<>> /\ findings' = <<>> /\ law' = law
        /\ past' = [s \in Refs |-> {law[s]}]
        /\ \A s \in Refs : shown'[s] = 0
        /\ \A n \in TermNos : duties'[n] = 0
    BY <1>1 DEF Begin, NothingYet, corpus
  <2>2. 1..Len(active') = {} /\ 1..Len(findings') = {}
    BY <2>1, EmptyDomain
  <2> QED
    BY <2>1, <2>2 DEF CiteInv
<1>2. CASE Leave
  <2>1. /\ phase' = "idle" /\ active' = <<>> /\ findings' = <<>>
        /\ \A s \in Refs : shown'[s] = 0
        /\ \A n \in TermNos : duties'[n] = 0
    BY <1>2 DEF Leave, NothingYet
  <2>2. 1..Len(active') = {} /\ 1..Len(findings') = {}
    BY <2>1, EmptyDomain
  <2> QED
    BY <2>1, <2>2 DEF CiteInv
<1>3. CASE RulesTaken
  <2>1. /\ phase = "rules" /\ phase' \in {"terms", "texts"} /\ index' = 0
        /\ UNCHANGED <<law, past, active, shown, duties, findings>>
    BY <1>3 DEF RulesTaken, corpus, rules, form_terms, report
  <2>2. \A k \in 1..Len(active) : ~(k <= 0)
    BY DEF AuditTypes
  <2> QED
    BY <2>1, <2>2 DEF CiteInv, Cited
<1>4. CASE FetchDuties
  <2>1. /\ phase = "duties" /\ phase' = "screen"
        /\ UNCHANGED <<law, past, active, shown, findings>>
        /\ duties' = [n \in TermNos |-> IF n \in DOMAIN NSW_ACT_DUTIES THEN law[DutyRef(n)] ELSE 0]
    BY <1>4 DEF FetchDuties, corpus, rules, report
  <2>2. \A n \in TermNos : duties'[n] # 0 => duties'[n] \in past[DutyRef(n)]
    <3> SUFFICES ASSUME NEW n \in TermNos, duties'[n] # 0 PROVE duties'[n] \in past[DutyRef(n)]
      OBVIOUS
    <3>1. n \in DOMAIN NSW_ACT_DUTIES /\ duties'[n] = law[DutyRef(n)]
      BY <2>1
    <3>2. DutyRef(n) \in Refs
      BY <3>1, FamiliesAssumption
    <3> QED
      BY <2>1, <3>1, <3>2 DEF CiteInv
  <2> QED
    BY <2>1, <2>2 DEF CiteInv, Cited
<1>5. ASSUME UNCHANGED <<law, past, active, shown, duties, findings>>, phase # "idle",
             phase' \in {"terms", "duties", "screen", "fields", "done"}
      PROVE  CiteInv'
  BY <1>5 DEF CiteInv, Cited
<1>6. CASE FetchTerms \/ TermsJudged \/ JudgeFields
  <2>1. UNCHANGED <<law, past, active, shown, duties, findings>> /\ phase # "idle"
        /\ phase' \in {"terms", "duties", "screen", "fields", "done"}
    BY <1>6 DEF FetchTerms, TermsJudged, JudgeFields, corpus, rules, form_terms, report
  <2> QED
    BY <1>5, <2>1
<1>7. CASE RefreshForms \/ UNCHANGED avars
  <2>1. UNCHANGED <<law, past, phase, index, active, shown, duties, findings>>
    BY <1>7 DEF RefreshForms, avars, corpus, rules, form_terms, report
  <2> QED
    BY <2>1 DEF CiteInv, Cited, AsCited
<1> QED
  BY <1>1, <1>2, <1>3, <1>4, <1>6, <1>7, CiteTakeRule, CiteReadText, CiteJudgeRules,
     CiteScreenTerm, CiteJudgeBatch, CiteRefresh
     DEF AuditNext, Audit
-----------------------------------------------------------------------------
(* Terms that are green without the model.                                   *)

ScreenInv ==
    /\ phase = "idle" => findings = <<>>
    /\ \A i \in 1..Len(findings) : findings[i].by = "screen" =>
        findings[i].id.no \in TermNos /\ IsVerbatim(findings[i].id.no)

LEMMA ScreenStep ==
  ASSUME AuditTypes, ScreenInv, [AuditNext]_avars
  PROVE  ScreenInv'
<1> DEFINE Ok(f) == f.by = "screen" => f.id.no \in TermNos /\ IsVerbatim(f.id.no)
<1>1. (\E j \in Jobs : Begin(j)) \/ Leave => ScreenInv'
  <2> SUFFICES ASSUME (\E j \in Jobs : Begin(j)) \/ Leave PROVE ScreenInv'
    OBVIOUS
  <2>1. findings' = <<>>
    BY DEF Begin, Leave, NothingYet
  <2> QED
    BY <2>1, EmptyDomain DEF ScreenInv
<1>2. ASSUME UNCHANGED <<job, findings>>, phase' # "idle" \/ phase' = phase PROVE ScreenInv'
  BY <1>2 DEF ScreenInv, IsVerbatim
<1>3. CASE RulesTaken \/ ReadText \/ FetchTerms \/ FetchDuties \/ TermsJudged \/ JudgeFields
           \/ RefreshSection \/ RefreshForms \/ UNCHANGED avars
  <2>1. UNCHANGED <<job, findings>> /\ (phase' # "idle" \/ phase' = phase)
    BY <1>3 DEF RulesTaken, ReadText, FetchTerms, FetchDuties, TermsJudged, JudgeFields,
                RefreshSection, RefreshForms, avars, report, form_terms
  <2> QED
    BY <1>2, <2>1
<1>4. ASSUME job' = job, phase' # "idle", NEW g \in Seq(FindingType), findings' = findings \o g,
             \A i \in 1..Len(g) : Ok(g[i])
      PROVE  ScreenInv'
  <2>1. findings \in Seq(FindingType)
    BY DEF AuditTypes
  <2>2. \A i \in 1..Len(findings') :
          (i \in 1..Len(findings) /\ findings'[i] = findings[i]) \/ \E k \in 1..Len(g) : findings'[i] = g[k]
    BY <1>4, <2>1
  <2>3. \A i \in 1..Len(findings') : Ok(findings'[i])
    BY <1>4, <2>2 DEF ScreenInv
  <2>4. \A n : IsVerbatim(n)' = IsVerbatim(n)
    BY <1>4 DEF IsVerbatim
  <2> QED
    BY <1>4, <2>3, <2>4 DEF ScreenInv
<1>5. CASE TakeRule
  <2>1. job' = job /\ phase' # "idle" /\ findings \in Seq(FindingType)
    BY <1>5 DEF TakeRule, AuditTypes
  <2>2. Rules[index + 1] \in RuleType
    <3>1. Rules \in Seq(RuleType) /\ index \in Nat /\ index < Len(Rules)
      BY <1>5, RulesTyped DEF AuditTypes, TakeRule
    <3> QED
      BY <3>1
  <2> DEFINE rule == Rules[index + 1]
  <2>3. /\ Skipped(rule, "inactive") \in FindingType /\ Skipped(rule, "inactive").by = "inactive"
        /\ Skipped(rule, "absent") \in FindingType /\ Skipped(rule, "absent").by = "absent"
    BY <2>2, SkippedFacts DEF Makers
  <2>4. \/ findings' = Append(findings, Skipped(rule, "inactive"))
        \/ findings' = Append(findings, Skipped(rule, "absent"))
        \/ findings' = findings
    BY <1>5 DEF TakeRule, Resolve
  <2> HIDE DEF rule
  <2>5. \A i \in 1..Len(findings') :
          (i \in 1..Len(findings) /\ findings'[i] = findings[i]) \/ findings'[i].by # "screen"
    BY <2>1, <2>3, <2>4
  <2>6. \A n : IsVerbatim(n)' = IsVerbatim(n)
    BY <2>1 DEF IsVerbatim
  <2> QED
    BY <2>1, <2>5, <2>6 DEF ScreenInv
<1>6. CASE JudgeRules
  <2>1. PICK g \in Seq(FindingType) : findings' = findings \o g /\ Len(g) = Len(active)
                /\ \A i \in 1..Len(active) : g[i].by = "judge"
    BY <1>6, JudgedRules
  <2>2. job' = job /\ phase' # "idle" /\ \A i \in 1..Len(g) : Ok(g[i])
    BY <1>6, <2>1 DEF JudgeRules
  <2> QED
    BY <1>4, <2>1, <2>2
<1>7. CASE JudgeBatch
  <2>1. PICK g \in Seq(FindingType) : findings' = findings \o g
                /\ \A i \in 1..Len(g) : g[i].by = "judge"
    BY <1>7, JudgedTerms
  <2>2. job' = job /\ phase' # "idle" /\ \A i \in 1..Len(g) : Ok(g[i])
    BY <1>7, <2>1 DEF JudgeBatch
  <2> QED
    BY <1>4, <2>1, <2>2
<1>8. CASE ScreenTerm
  <2> DEFINE n == terms[index + 1]
             f == TermFinding(n, "green", "screen", Silent)
  <2>1. n \in TermNos /\ job' = job /\ phase' # "idle" /\ phase' = phase /\ findings \in Seq(FindingType)
    BY <1>8 DEF ScreenTerm, AuditTypes
  <2>2. f \in FindingType /\ f.id.no = n
    BY <2>1, TermFindingFacts, ItemsTyped DEF Makers, Verdicts
  <2>3. findings' = findings \/ (IsVerbatim(n) /\ findings' = Append(findings, f))
    BY <1>8 DEF ScreenTerm
  <2> HIDE DEF n, f
  <2>4. \A i \in 1..Len(findings') :
          (i \in 1..Len(findings) /\ findings'[i] = findings[i]) \/ (IsVerbatim(n) /\ findings'[i] = f)
    BY <2>1, <2>2, <2>3
  <2>5. \A m : IsVerbatim(m)' = IsVerbatim(m)
    BY <2>1 DEF IsVerbatim
  <2> QED
    BY <2>1, <2>2, <2>4, <2>5 DEF ScreenInv
<1> QED
  BY <1>1, <1>3, <1>5, <1>6, <1>7, <1>8 DEF AuditNext, Audit

\* What the screen is worth: of a term that is found word for word, each word that
\* is part of SHINGLE_TOKENS different windows stands in the document in one of them.
LEMMA VerbatimWindows ==
  ASSUME NEW heading, NEW body, NEW document, heading \o body \in Seq(Nat),
         Verbatim(heading, body, document), NEW p,
         Cardinality(Spanning(heading \o body, p)) = SHINGLE_TOKENS
  PROVE  Spanning(heading \o body, p) \cap Shingles(document) # {}
<1> DEFINE text == heading \o body
           places == 1..(Len(text) - SHINGLE_TOKENS + 1)
           f == [i \in places |-> Window(text, i)]
           lost == Shingles(text) \ Shingles(document)
<1>1. IsFiniteSet(places)
  <2>1. Len(text) - SHINGLE_TOKENS + 1 \in Int
    BY ScreenAssumption
  <2> QED
    BY <2>1, FS_Interval
<1>2. IsFiniteSet(Shingles(text))
  <2>1. f \in Surjection(places, Shingles(text))
    BY DEF Shingles, Surjection
  <2> QED
    BY <1>1, <2>1, FS_Surjection
<1>3. IsFiniteSet(lost) /\ Cardinality(lost) \in Nat
  BY <1>2, FS_Subset, FS_CardinalityType
<1>4. Spanning(text, p) \subseteq Shingles(text)
  BY DEF Spanning, Shingles
<1>5. ASSUME Spanning(text, p) \cap Shingles(document) = {} PROVE FALSE
  <2>1. Spanning(text, p) \in SUBSET lost
    BY <1>4, <1>5
  <2>2. Cardinality(Spanning(text, p)) <= Cardinality(lost)
    BY <1>3, <2>1, FS_Subset
  <2>3. Cardinality(lost) <= MAX_MISSING_SHINGLES
    BY DEF Verbatim, Missing
  <2> HIDE DEF text, lost
  <2>4. SHINGLE_TOKENS <= Cardinality(lost)
    BY <2>2 DEF text
  <2> QED
    BY <1>3, <2>3, <2>4, ScreenAssumption
<1> QED
  BY <1>5
-----------------------------------------------------------------------------
(* The composition: what the loader hands to the audits.                     *)

\* Only clauses are late, and every number comes from the document.
LoaderInv ==
    /\ \A x \in late : x[2].form = 0
    /\ \A k \in opened : k.no \in Numbers \cup {0}

LEMMA LoaderStep ==
  ASSUME ParseInv, LoaderInv, [ParseNext]_pvars
  PROVE  LoaderInv'
<1>1. ASSUME opened' = opened, late' = late PROVE LoaderInv'
  BY <1>1 DEF LoaderInv
<1>2. Late => \A x \in late' : x[2].form = 0
  BY DEF Late, LoaderInv, ParseInv, Sound
<1>3. ASSUME NEW s, NEW f, NEW n \in Numbers \cup {0}, opened' = opened \cup {Key(s, f, n)}
      PROVE  \A k \in opened' : k.no \in Numbers \cup {0}
  BY <1>3 DEF LoaderInv, Key
<1>4. CASE ReadHeading
  BY <1>2, <1>4 DEF ReadHeading, LoaderInv
<1>5. CASE ReadFormHeading \/ Finish \/ UNCHANGED pvars
  BY <1>1, <1>5 DEF ReadFormHeading, Finish, pvars, history
<1>6. CASE NextDocument
  BY <1>6 DEF NextDocument, LoaderInv
<1>7. ASSUME NEW s \in Schedules, ReadSchedule(s) PROVE LoaderInv'
  BY <1>3, <1>7 DEF ReadSchedule, Open, LoaderInv
<1>8. ASSUME NEW f \in Forms, ReadForm(f) PROVE LoaderInv'
  BY <1>3, <1>8 DEF ReadForm, Open, LoaderInv
<1>9. ASSUME NEW n \in Numbers, ReadTerm(n) PROVE LoaderInv'
  <2>1. late' = late /\ (opened' = opened \/ opened' = opened \cup {Key(schedule_no, form_no, n)})
    BY <1>9 DEF ReadTerm, SkipForm, OpenTerm
  <2> QED
    BY <1>1, <1>3, <2>1 DEF LoaderInv
<1>10. ASSUME NEW n \in Numbers, ReadClause(n) PROVE LoaderInv'
  <2>1. Late /\ opened' = opened \cup {Key(schedule_no, 0, n)}
    BY <1>10 DEF ReadClause, Open
  <2> QED
    BY <1>2, <1>3, <2>1 DEF LoaderInv
<1> QED
  BY <1>4, <1>5, <1>6, <1>7, <1>8, <1>9, <1>10 DEF ParseNext

LEMMA LoaderInvariant ==
  Spec => [](ParseInv /\ LoaderInv)
<1>1. ParseInit => ParseInv /\ LoaderInv
  BY InitParseInv DEF ParseInit, LoaderInv
<1>2. ParseInv /\ LoaderInv /\ [ParseNext]_pvars => (ParseInv /\ LoaderInv)'
  BY ParseStep, LoaderStep
<1> QED
  BY <1>1, <1>2, ParserIsAlone, PTL DEF ParseSpec

\* What was parsed of a form: all its terms, or none if it was skipped.
LEMMA LoadedTerms ==
  ASSUME ParseInv, LoaderInv, ~reading, NEW f, f # 0
  PROVE  /\ Loaded(f) \subseteq Numbers
         /\ ~repeated => Loaded(f) = IF Key(1, f, 0) \in skipped THEN {} ELSE TermsOf(f)
<1>1. /\ sections \in Seq(KeyType) /\ current = NoClause /\ term = 0 /\ opened \subseteq KeyType
      /\ \A i \in 1..Len(sections) : sections[i] \in opened /\ sections[i].no # 0
  BY DEF ParseInv, Sound, Book
<1>2. \A k \in Written : k \in opened /\ k.no # 0 /\ \E i \in 1..Len(sections) : k = sections[i]
  BY <1>1 DEF Written
<1>3. \A i \in 1..Len(sections) : sections[i] \in Written
  BY <1>1 DEF Written
<1>4. Loaded(f) \subseteq Numbers
  BY <1>2 DEF Loaded, LoaderInv
<1>5. \A k \in opened : k.schedule = 1 /\ k.form = f => FormOf(k) = Key(1, f, 0)
  BY <1>1 DEF FormOf, Key, KeyType
<1>6. CASE ~repeated /\ Key(1, f, 0) \in skipped
  <2>1. \A k \in Written : ~(k.schedule = 1 /\ k.form = f)
    BY <1>2, <1>5, <1>6 DEF ParseInv, Unique
  <2>2. Loaded(f) = {}
    BY <2>1 DEF Loaded
  <2> QED
    BY <1>4, <1>6, <2>2
<1>7. CASE ~repeated /\ Key(1, f, 0) \notin skipped
  <2>1. ASSUME NEW k \in opened, k.schedule = 1, k.form = f, k.no # 0 PROVE k \in Written
    <3>1. k # NoClause
      BY <2>1 DEF NoClause, Key
    <3>2. \A g \in skipped : <<g, k>> \notin late
      <4> SUFFICES ASSUME NEW g \in skipped, <<g, k>> \in late PROVE FALSE
        OBVIOUS
      <4>1. <<g, k>>[2].form = 0
        BY DEF LoaderInv
      <4> QED
        BY <2>1, <4>1
    <3>3. \E i \in 1..Len(sections) : sections[i] = k
      BY <1>1, <1>5, <1>7, <2>1, <3>1, <3>2 DEF ParseInv, Kept
    <3> QED
      BY <1>3, <3>3
  <2>2. Loaded(f) = TermsOf(f)
    BY <1>2, <2>1 DEF Loaded, TermsOf
  <2> QED
    BY <1>4, <1>7, <2>2
<1> QED
  BY <1>4, <1>6, <1>7

\* A step of the composition is a step of the audits: loading an instrument is a
\* change of the prescribed terms.
LEMMA AuditMoves ==
  ASSUME ParseInv, LoaderInv, AuditTypes, [Next]_vars
  PROVE  [AuditNext]_avars
<1>1. CASE AuditStep
  BY <1>1 DEF AuditStep, AuditNext
<1>2. CASE Parse /\ reading
  BY <1>2 DEF Parse
<1>3. CASE Parse /\ ~reading
  <2>1. Loads /\ UNCHANGED <<law, refreshes, job, phase, index, rules, form_terms, report, past>>
    BY <1>3 DEF Parse
  <2>2. CASE Accepted
    <3>1. \A f \in PrescribedForms : f # NswForm => Loaded(f) \subseteq TermNos
      BY <1>3, LoadedTerms, InstrumentAssumption DEF NswForm
    <3>2. prescribed' \in [PrescribedForms -> SUBSET TermNos]
      BY <2>1, <2>2, <3>1, InstrumentAssumption DEF Loads
    <3> QED
      BY <2>1, <3>2 DEF AuditNext, RefreshForms
  <2>3. CASE ~Accepted
    BY <2>1, <2>3 DEF Loads, avars, corpus
  <2> QED
    BY <2>2, <2>3
<1>4. CASE UNCHANGED vars
  BY <1>4 DEF vars
<1> QED
  BY <1>1, <1>2, <1>3, <1>4 DEF Next

AuditInv == AuditTypes /\ CoverInv /\ CiteInv /\ ScreenInv

LEMMA InitAuditInv ==
  AuditInit => AuditInv
<1> SUFFICES ASSUME AuditInit PROVE AuditInv
  OBVIOUS
<1>1. AuditTypes
  BY InitTypes
<1>2. /\ phase = "idle" /\ active = <<>> /\ findings = <<>>
      /\ \A s \in Refs : shown[s] = 0
      /\ \A n \in TermNos : duties[n] = 0
  BY DEF AuditInit
<1>3. CoverInv /\ CiteInv /\ ScreenInv
  BY <1>2, EmptyDomain DEF CoverInv, CiteInv, ScreenInv
<1> QED
  BY <1>1, <1>3 DEF AuditInv

LEMMA AuditInvariant ==
  Spec => []AuditInv
<1>1. Init => AuditInv
  BY InitAuditInv DEF Init
<1>2. AuditInv /\ ParseInv /\ LoaderInv /\ [Next]_vars => AuditInv'
  BY AuditMoves, TypesStep, CoverStep, CiteStep, ScreenStep DEF AuditInv
<1> QED
  BY <1>1, <1>2, LoaderInvariant, PTL DEF Spec

\* In the composition the audits make the steps of ClauseFamilies only.
THEOREM AuditIsImplemented ==
  Spec => AuditSpec
<1>1. Init => AuditInit
  BY DEF Init
<1>2. AuditInv /\ ParseInv /\ LoaderInv /\ [Next]_vars => [AuditNext]_avars
  BY AuditMoves DEF AuditInv
<1> QED
  BY <1>1, <1>2, LoaderInvariant, AuditInvariant, PTL DEF Spec, AuditSpec

\* ReportedOnce for all rules, forms, answers and batch sizes.
THEOREM ReportsOnce ==
  Spec => []ReportedOnce
<1>1. AuditInv => ReportedOnce
  <2> SUFFICES ASSUME AuditInv, phase = "done"
               PROVE  /\ {findings[i].id : i \in DOMAIN findings} = RuleIds \cup TermIds
                      /\ \A i, k \in DOMAIN findings : findings[i].id = findings[k].id => i = k
    BY DEF ReportedOnce
  <2>1. /\ Due(findings, <<>>, RulesUpTo(Len(Rules)) \cup TermsUpTo(Len(terms)))
        /\ DOMAIN findings = 1..Len(findings) /\ DOMAIN terms = 1..Len(terms)
        /\ DOMAIN Rules = 1..Len(Rules)
    BY RulesTyped DEF AuditInv, CoverInv, AuditTypes
  <2>2. RuleIds = RulesUpTo(Len(Rules)) /\ TermIds = TermsUpTo(Len(terms))
    BY <2>1 DEF RuleIds, TermIds, RulesUpTo, TermsUpTo
  <2> QED
    BY <2>1, <2>2, EmptyDomain DEF Due
<1> QED
  BY <1>1, AuditInvariant, PTL

\* CitedAsJudged for all corpora and all refreshes during a job.
THEOREM CitesWhatWasJudged ==
  Spec => []CitedAsJudged
<1>1. AuditInv => CitedAsJudged
  BY DEF AuditInv, AuditTypes, CiteInv, Cited, CitedAsJudged
<1> QED
  BY <1>1, AuditInvariant, PTL

\* EditedTermsJudged for all terms, documents and sizes of the window.
THEOREM ScreensNoEdit ==
  Spec => []EditedTermsJudged
<1>1. AuditInv => EditedTermsJudged
  <2> SUFFICES ASSUME AuditInv, NEW n \in Screened, NEW p \in 1..Len(Heading[n] \o Body[n]),
                      Cardinality(Spanning(Heading[n] \o Body[n], p)) = SHINGLE_TOKENS
               PROVE  Spanning(Heading[n] \o Body[n], p) \cap Shingles(job.document.text) # {}
    BY DEF EditedTermsJudged
  <2>1. n \in TermNos /\ IsVerbatim(n)
    BY DEF AuditInv, AuditTypes, ScreenInv, Screened
  <2>2. Heading[n] \o Body[n] \in Seq(Nat)
    BY <2>1, FamiliesAssumption
  <2>3. Verbatim(Heading[n], Body[n], job.document.text)
    BY <2>1 DEF IsVerbatim
  <2> QED
    BY <2>2, <2>3, VerbatimWindows
<1> QED
  BY <1>1, AuditInvariant, PTL

\* Between audits the prescribed terms are those of the instrument; during one
\* they stay, and the terms fetched are all of them.
OfferInv ==
    /\ offered = prescribed
    /\ phase \in {"duties", "screen", "fields", "done"} =>
        {terms[i] : i \in 1..Len(terms)} = prescribed[Form]

LEMMA FetchedAll ==
  ASSUME AuditTypes, FetchTerms
  PROVE  {terms'[i] : i \in 1..Len(terms')} = prescribed[Form]
<1> DEFINE S == prescribed[Form]
<1>1. IsFiniteSet(S) /\ Cardinality(S) \in Nat /\ S \subseteq Nat
  BY FormIsPrescribed, FamiliesAssumption, FS_Subset, FS_CardinalityType DEF AuditTypes
<1>2. PICK order \in [1..Cardinality(S) -> S] :
        terms' = order /\ \A i, k \in DOMAIN order : i < k => order[i] < order[k]
  BY DEF FetchTerms
<1> HIDE DEF S
<1>3. order \in Injection(1..Cardinality(S), S)
  <2>1. \A i \in 1..Cardinality(S) : i \in Nat /\ order[i] \in Nat
    <3>1. \A i \in 1..Cardinality(S) : order[i] \in S
      BY <1>2
    <3>2. \A i \in 1..Cardinality(S) : order[i] \in Nat
      BY <1>1, <3>1
    <3>3. \A i \in 1..Cardinality(S) : i \in Nat
      BY <1>1
    <3> QED
      BY <3>2, <3>3
  <2>2. \A i, k \in 1..Cardinality(S) : order[i] = order[k] => i = k
    BY <1>2, <2>1
  <2> QED
    BY <1>2, <2>2 DEF Injection, IsInjective
<1>4. Cardinality(1..Cardinality(S)) = Cardinality(S)
  BY <1>1, FS_Interval
<1>5. order \in Surjection(1..Cardinality(S), S)
  BY <1>1, <1>3, <1>4, FS_Injection
<1>6. Len(terms') = Cardinality(S)
  BY <1>1, <1>2
<1> QED
  BY <1>2, <1>5, <1>6 DEF Surjection, S

LEMMA OfferStep ==
  ASSUME ParseInv, LoaderInv, AuditTypes, OfferInv, [Next]_vars
  PROVE  OfferInv'
<1>1. ASSUME UNCHANGED <<offered, prescribed, job, terms>>,
             phase' \in {"duties", "screen", "fields", "done"} => phase \in {"duties", "screen", "fields", "done"}
      PROVE  OfferInv'
  BY <1>1 DEF OfferInv, Form, VicForm
<1>2. CASE UNCHANGED vars
  <2>1. UNCHANGED <<offered, prescribed, job, terms, phase>>
    BY <1>2 DEF vars, avars, corpus, form_terms
  <2> QED
    BY <1>1, <2>1
<1>3. CASE Parse
  <2>1. phase = "idle" /\ UNCHANGED <<job, phase, terms>>
    BY <1>3 DEF Parse, avars, form_terms
  <2>2. UNCHANGED <<offered, prescribed>> \/ (~reading /\ Loads /\ Accepted)
    BY <1>3 DEF Parse, avars, corpus, Loads
  <2>3. CASE ~reading /\ Loads /\ Accepted
    <3>1. \A f \in PrescribedForms : f # NswForm => f # 0
      BY DEF NswForm
    <3>2. ~repeated => \A f \in PrescribedForms : f # NswForm =>
            Loaded(f) = IF Key(1, f, 0) \in skipped THEN {} ELSE TermsOf(f)
      BY <2>3, <3>1, LoadedTerms
    <3>3. offered' = prescribed'
      BY <2>3, <3>2 DEF Loads
    <3> QED
      BY <2>1, <3>3 DEF OfferInv
  <2> QED
    BY <1>1, <2>1, <2>2, <2>3
<1>4. CASE AuditStep
  <2>1. offered' = offered /\ (Audit \/ RefreshSection)
    BY <1>4 DEF AuditStep
  <2>2. prescribed' = prescribed
    BY <2>1 DEF Audit, RefreshSection, Begin, Leave, TakeRule, RulesTaken, ReadText, JudgeRules, FetchTerms,
                FetchDuties, ScreenTerm, JudgeBatch, TermsJudged, JudgeFields, corpus
  <2>3. CASE FetchTerms
    <3>1. Form' = Form
      BY <2>3 DEF FetchTerms, Form, VicForm
    <3> QED
      BY <2>1, <2>2, <2>3, <3>1, FetchedAll DEF OfferInv
  <2>4. CASE (\E j \in Jobs : Begin(j)) \/ Leave
    <3>1. phase' \in {"idle", "rules"}
      BY <2>4 DEF Begin, Leave
    <3> QED
      BY <2>1, <2>2, <3>1 DEF OfferInv
  <2>5. CASE TakeRule \/ RulesTaken \/ ReadText \/ JudgeRules
    <3>1. phase' \in {"rules", "texts", "terms"}
      BY <2>5 DEF TakeRule, RulesTaken, ReadText, JudgeRules
    <3> QED
      BY <2>1, <2>2, <3>1 DEF OfferInv
  <2>6. CASE FetchDuties \/ ScreenTerm \/ JudgeBatch \/ TermsJudged \/ JudgeFields \/ RefreshSection
    <3>1. UNCHANGED <<job, terms>> /\ (phase \in {"duties", "screen", "fields"} \/ phase' = phase)
      BY <2>6 DEF FetchDuties, ScreenTerm, JudgeBatch, TermsJudged, JudgeFields, RefreshSection, form_terms
    <3> QED
      BY <1>1, <2>1, <2>2, <3>1
  <2> QED
    BY <2>1, <2>3, <2>4, <2>5, <2>6 DEF Audit
<1> QED
  BY <1>2, <1>3, <1>4 DEF Next

\* ReportCoversInstrument for all instruments: what the report says of terms is
\* said of exactly those that the parser read in the governing form.
THEOREM ReportsWholeForm ==
  Spec => []ReportCoversInstrument
<1>1. Init => OfferInv
  BY DEF Init, AuditInit, OfferInv
<1>2. ParseInv /\ LoaderInv /\ AuditInv /\ OfferInv /\ [Next]_vars => OfferInv'
  BY OfferStep DEF AuditInv
<1>3. AuditInv /\ OfferInv => ReportCoversInstrument
  <2> SUFFICES ASSUME AuditInv, OfferInv, phase = "done"
               PROVE  {findings[i].id.no : i \in {k \in DOMAIN findings : findings[k].id.rule = "standard_form"}}
                        = offered[Form]
    BY DEF ReportCoversInstrument
  <2> DEFINE ids == RulesUpTo(Len(Rules)) \cup TermsUpTo(Len(terms))
  <2>1. /\ Due(findings, <<>>, ids) /\ findings \in Seq(FindingType) /\ job \in Jobs
        /\ offered[Form] = {terms[i] : i \in 1..Len(terms)}
    BY DEF AuditInv, CoverInv, AuditTypes, OfferInv
  <2>2. DOMAIN findings = 1..Len(findings)
    BY <2>1
  <2>3. \A x \in RulesUpTo(Len(Rules)) : x.rule # "standard_form"
    <3>1. Rules \in Seq(RuleType)
      BY <2>1, RulesTyped
    <3>2. \A i \in 1..Len(Rules) : Rules[i] \in RuleType
      BY <3>1
    <3>3. \A r \in RuleType : r.rule_id # "standard_form"
      BY DEF RuleType
    <3> QED
      BY <3>2, <3>3, IdFields DEF RulesUpTo
  <2>4. \A x \in TermsUpTo(Len(terms)) : x.rule = "standard_form" /\ \E i \in 1..Len(terms) : x.no = terms[i]
    BY IdFields DEF TermsUpTo
  <2>5. \A i \in 1..Len(terms) : TermId(Form, terms[i]) \in TermsUpTo(Len(terms))
    BY DEF TermsUpTo
  <2>6. \A x \in ids : \E i \in 1..Len(findings) : findings[i].id = x
    BY <2>1, EmptyDomain DEF Due
  <2>7. \A i \in 1..Len(findings) : findings[i].id \in ids
    BY <2>1 DEF Due
  <2>8. ASSUME NEW i \in 1..Len(findings), findings[i].id.rule = "standard_form"
        PROVE  \E j \in 1..Len(terms) : findings[i].id.no = terms[j]
    BY <2>3, <2>4, <2>7, <2>8
  <2>9. ASSUME NEW j \in 1..Len(terms)
        PROVE  \E i \in 1..Len(findings) : findings[i].id.rule = "standard_form" /\ findings[i].id.no = terms[j]
    <3>1. PICK i \in 1..Len(findings) : findings[i].id = TermId(Form, terms[j])
      BY <2>5, <2>6
    <3> QED
      BY <3>1, IdFields
  <2>10. {findings[i].id.no : i \in {k \in 1..Len(findings) : findings[k].id.rule = "standard_form"}}
            = {terms[j] : j \in 1..Len(terms)}
    <3> DEFINE A == {findings[i].id.no : i \in {k \in 1..Len(findings) : findings[k].id.rule = "standard_form"}}
               B == {terms[j] : j \in 1..Len(terms)}
    <3>1. ASSUME NEW x \in A PROVE x \in B
      <4>1. PICK i \in 1..Len(findings) : findings[i].id.rule = "standard_form" /\ x = findings[i].id.no
        OBVIOUS
      <4>2. PICK j \in 1..Len(terms) : findings[i].id.no = terms[j]
        BY <2>8, <4>1
      <4> QED
        BY <4>1, <4>2
    <3>2. ASSUME NEW x \in B PROVE x \in A
      <4>1. PICK j \in 1..Len(terms) : x = terms[j]
        OBVIOUS
      <4>2. PICK i \in 1..Len(findings) : findings[i].id.rule = "standard_form" /\ findings[i].id.no = terms[j]
        BY <2>9
      <4> QED
        BY <4>1, <4>2
    <3> HIDE DEF A, B
    <3>3. A = B
      BY <3>1, <3>2
    <3> QED
      BY <3>3 DEF A, B
  <2> QED
    BY <2>1, <2>2, <2>10
<1> QED
  BY <1>1, <1>2, <1>3, LoaderInvariant, AuditInvariant, PTL DEF Spec
-----------------------------------------------------------------------------
(* One rule on contractors.                                                  *)

Judged(r) == rule_active(r, job.as_at)

\* What is found of a rule says whether the rule was active on the day.
Answers(f) ==
    f.id.no = 0 => \E r \in 1..Len(Rules) :
        f.id = RuleId(Rules[r]) /\ (f.by = "inactive" <=> ~Judged(Rules[r]))

ActiveInv ==
    /\ \A i \in 1..Len(findings) : Answers(findings[i])
    /\ \A a \in 1..Len(active) : \E r \in 1..Len(Rules) : active[a].rule = Rules[r] /\ Judged(Rules[r])

\* An element of a concatenation is one of the first or of the second list.
LEMMA ConcatIndex ==
  ASSUME NEW S, NEW s \in Seq(S), NEW t \in Seq(S), NEW i \in 1..Len(s \o t)
  PROVE  \/ i \in 1..Len(s) /\ (s \o t)[i] = s[i]
         \/ \E k \in 1..Len(t) : (s \o t)[i] = t[k]
<1>1. Len(s) \in Nat /\ Len(t) \in Nat /\ Len(s \o t) = Len(s) + Len(t)
  OBVIOUS
<1>2. CASE i <= Len(s)
  BY <1>1, <1>2
<1>3. CASE ~(i <= Len(s))
  <2>1. i - Len(s) \in 1..Len(t) /\ (s \o t)[i] = t[i - Len(s)]
    BY <1>1, <1>3
  <2> QED
    BY <2>1
<1> QED
  BY <1>2, <1>3

\* Skipping, resolving and judging a rule all look at the same day.
LEMMA ActiveStep ==
  ASSUME AuditTypes, ActiveInv, [AuditNext]_avars
  PROVE  ActiveInv'
<1>1. ASSUME (\E j \in Jobs : Begin(j)) \/ Leave PROVE ActiveInv'
  <2>1. findings' = <<>> /\ active' = <<>>
    BY <1>1 DEF Begin, Leave, NothingYet
  <2> QED
    BY <2>1, EmptyLen DEF ActiveInv
<1>2. ASSUME job' = job
      PROVE  /\ Rules' = Rules
             /\ \A r : Judged(r)' = Judged(r)
             /\ \A f : Answers(f)' = Answers(f)
  BY <1>2 DEF Rules, Judged, Answers
<1>3. CASE RulesTaken \/ ReadText \/ FetchTerms \/ FetchDuties \/ TermsJudged \/ JudgeFields
           \/ RefreshSection \/ RefreshForms \/ UNCHANGED avars
  <2>1. UNCHANGED <<job, findings, active>>
    BY <1>3 DEF RulesTaken, ReadText, FetchTerms, FetchDuties, TermsJudged, JudgeFields,
                RefreshSection, RefreshForms, avars, report, rules, form_terms
  <2> QED
    BY <1>2, <2>1 DEF ActiveInv
<1>4. ASSUME job' = job, active' = active, NEW g \in Seq(FindingType), findings' = findings \o g,
             \A i \in 1..Len(g) : Answers(g[i])
      PROVE  ActiveInv'
  <2>1. findings \in Seq(FindingType)
    BY DEF AuditTypes
  <2>2. \A i \in 1..Len(findings') :
          (i \in 1..Len(findings) /\ findings'[i] = findings[i]) \/ \E k \in 1..Len(g) : findings'[i] = g[k]
    <3>1. \A i \in 1..Len(findings \o g) :
            \/ i \in 1..Len(findings) /\ (findings \o g)[i] = findings[i]
            \/ \E k \in 1..Len(g) : (findings \o g)[i] = g[k]
      BY <1>4, <2>1, ConcatIndex
    <3> QED
      BY <1>4, <3>1
  <2>3. \A i \in 1..Len(findings') : Answers(findings'[i])
    BY <1>4, <2>2 DEF ActiveInv
  <2> QED
    BY <1>2, <1>4, <2>3 DEF ActiveInv
<1>5. ASSUME job' = job, NEW f \in FindingType, Answers(f), active' = active,
             findings' = Append(findings, f)
      PROVE  ActiveInv'
  <2>1. findings \in Seq(FindingType)
    BY DEF AuditTypes
  <2>2. \A i \in 1..Len(findings') :
          (i \in 1..Len(findings) /\ findings'[i] = findings[i]) \/ findings'[i] = f
    BY <1>5, <2>1
  <2>3. \A i \in 1..Len(findings') : Answers(findings'[i])
    BY <1>5, <2>2 DEF ActiveInv
  <2> QED
    BY <1>2, <1>5, <2>3 DEF ActiveInv
<1>6. CASE TakeRule
  <2> DEFINE rule == Rules[index + 1]
             a == [rule |-> rule, cited |-> law[rule.ref]]
  <2>1. job' = job /\ phase = "rules" /\ index + 1 \in 1..Len(Rules)
    <3>1. Rules \in Seq(RuleType) /\ index \in Nat /\ index < Len(Rules) /\ job' = job /\ phase = "rules"
      BY <1>6, RulesTyped DEF AuditTypes, TakeRule
    <3> QED
      BY <3>1
  <2>2. rule \in RuleType
    BY <2>1, RulesTyped DEF AuditTypes
  <2>3. \A why \in {"inactive", "absent"} :
          /\ Skipped(rule, why) \in FindingType /\ Skipped(rule, why).by = why
          /\ Skipped(rule, why).id = RuleId(rule)
    BY <2>2, SkippedFacts DEF Makers
  <2>4. CASE ~Judged(rule)
    <3>1. findings' = Append(findings, Skipped(rule, "inactive")) /\ active' = active
      BY <1>6, <2>4 DEF TakeRule, Judged
    <3>2. Answers(Skipped(rule, "inactive"))
      BY <2>1, <2>3, <2>4 DEF Answers
    <3> QED
      BY <1>5, <2>1, <2>3, <3>1, <3>2
  <2>5. CASE Judged(rule) /\ law[rule.ref] = 0
    <3>1. findings' = Append(findings, Skipped(rule, "absent")) /\ active' = active
      BY <1>6, <2>5 DEF TakeRule, Judged, Resolve
    <3>2. Answers(Skipped(rule, "absent"))
      BY <2>1, <2>3, <2>5 DEF Answers
    <3> QED
      BY <1>5, <2>1, <2>3, <3>1, <3>2
  <2>6. CASE Judged(rule) /\ law[rule.ref] # 0
    <3>1. findings' = findings /\ active' = Append(active, a)
      BY <1>6, <2>6 DEF TakeRule, Judged, Resolve
    <3>2. active \in Seq(ActiveType) /\ a.rule = rule
      BY DEF AuditTypes
    <3>3. \A k \in 1..Len(active') : (k \in 1..Len(active) /\ active'[k] = active[k]) \/ active'[k] = a
      <4> HIDE DEF a
      <4> QED
        BY <3>1, <3>2
    <3>4. \A k \in 1..Len(active') :
            \E r \in 1..Len(Rules) : active'[k].rule = Rules[r] /\ Judged(Rules[r])
      BY <2>1, <2>6, <3>2, <3>3 DEF ActiveInv
    <3> QED
      BY <1>2, <2>1, <3>1, <3>4 DEF ActiveInv
  <2> QED
    BY <2>4, <2>5, <2>6
<1>7. CASE JudgeRules
  <2>1. PICK g \in Seq(FindingType) : findings' = findings \o g /\ Len(g) = Len(active)
                /\ \A i \in 1..Len(active) : g[i].id = RuleId(active[i].rule) /\ g[i].by = "judge"
    BY <1>7, JudgedRules
  <2>2. job' = job /\ active' = active
    BY <1>7 DEF JudgeRules, rules
  <2>3. \A i \in 1..Len(g) : Answers(g[i])
    <3> SUFFICES ASSUME NEW i \in 1..Len(active)
                 PROVE  Answers(g[i])
      BY <2>1
    <3>1. PICK r \in 1..Len(Rules) : active[i].rule = Rules[r] /\ Judged(Rules[r])
      BY DEF ActiveInv
    <3> QED
      BY <2>1, <3>1 DEF Answers
  <2> QED
    BY <1>4, <2>1, <2>2, <2>3
<1>8. CASE JudgeBatch
  <2>1. PICK g \in Seq(FindingType) : findings' = findings \o g
                /\ \A i \in 1..Len(g) :
                      /\ judged + i \in 1..Len(residual)
                      /\ g[i].id = TermId(Form, residual[judged + i])
    BY <1>8, JudgedTerms
  <2>2. job' = job /\ active' = active /\ residual \in Seq(TermNos)
    BY <1>8 DEF JudgeBatch, rules, AuditTypes
  <2>3. \A i \in 1..Len(g) : g[i].id.no # 0
    <3> SUFFICES ASSUME NEW i \in 1..Len(g)
                 PROVE  g[i].id.no # 0
      OBVIOUS
    <3>1. residual[judged + i] \in TermNos /\ g[i].id.no = residual[judged + i]
      BY <2>1, <2>2, IdFields
    <3> QED
      BY <3>1, FamiliesAssumption
  <2> QED
    BY <1>4, <2>1, <2>2, <2>3 DEF Answers
<1>9. CASE ScreenTerm
  <2> DEFINE n == terms[index + 1]
             f == TermFinding(n, "green", "screen", Silent)
  <2>1. n \in TermNos /\ job' = job /\ active' = active
    BY <1>9 DEF ScreenTerm, AuditTypes, rules
  <2>2. f \in FindingType /\ f.id.no = n /\ n # 0
    <3>1. n # 0
      BY <2>1, FamiliesAssumption
    <3>2. f \in FindingType /\ f.id.no = n
      BY <2>1, TermFindingFacts, ItemsTyped DEF Makers, Verdicts
    <3> QED
      BY <3>1, <3>2
  <2>3. findings' = findings \/ findings' = Append(findings, f)
    BY <1>9 DEF ScreenTerm
  <2> HIDE DEF f, n
  <2>4. Answers(f)
    BY <2>2 DEF Answers
  <2>5. CASE findings' = findings
    BY <1>2, <2>1, <2>5 DEF ActiveInv
  <2> QED
    BY <1>5, <2>1, <2>2, <2>3, <2>4, <2>5
<1> QED
  BY <1>1, <1>3, <1>6, <1>7, <1>8, <1>9 DEF AuditNext, Audit

ContractorAct == PROHIBITED_RULES[7]
ContractorReg == PROHIBITED_RULES[8]

\* The two rules of the code.
LEMMA ContractorsOfTheCode ==
  /\ OnContractors(PROHIBITED_RULES) = {ContractorAct, ContractorReg}
  /\ ContractorAct = ClauseRule("specified_contractor", NSW_ACT, "19", PETS_COMMENCED, NoDate)
  /\ ContractorReg = ClauseRule("specified_contractor_reg", NSW_REG, "5", REG_COMMENCED, PETS_COMMENCED)
<1>1. /\ ContractorAct = ClauseRule("specified_contractor", NSW_ACT, "19", PETS_COMMENCED, NoDate)
      /\ ContractorReg = ClauseRule("specified_contractor_reg", NSW_REG, "5", REG_COMMENCED, PETS_COMMENCED)
  BY DEF ContractorAct, ContractorReg, PROHIBITED_RULES
<1>2. DOMAIN PROHIBITED_RULES = 1..9 /\ \A k \in 1..9 : k \in {1, 2, 3, 4, 5, 6, 7, 8, 9}
  BY DEF PROHIBITED_RULES
<1>3. \A k \in 1..9 : PROHIBITED_RULES[k].rule_id \in ContractorRules <=> k \in {7, 8}
  BY DEF PROHIBITED_RULES, ClauseRule, ContractorRules
<1>4. {k \in DOMAIN PROHIBITED_RULES : PROHIBITED_RULES[k].rule_id \in ContractorRules} = {7, 8}
  BY <1>2, <1>3
<1>5. OnContractors(PROHIBITED_RULES) = {PROHIBITED_RULES[k] : k \in {7, 8}}
  BY <1>4 DEF OnContractors
<1> QED
  BY <1>1, <1>5 DEF ContractorAct, ContractorReg

\* On every day since the Regulation began exactly one of the two is active.
LEMMA OneIsActive ==
  ASSUME NEW d \in Date, NoLater(REG_COMMENCED, d)
  PROVE  rule_active(ContractorAct, d) <=> ~rule_active(ContractorReg, d)
<1>1. /\ ContractorAct.applies_from = PETS_COMMENCED /\ ContractorAct.applies_to = NoDate
      /\ ContractorReg.applies_from = REG_COMMENCED /\ ContractorReg.applies_to = PETS_COMMENCED
  BY ContractorsOfTheCode DEF ClauseRule
<1>2. /\ PETS_COMMENCED.month = 24304 /\ PETS_COMMENCED.day = 19
      /\ REG_COMMENCED.month = 24239 /\ REG_COMMENCED.day = 16
      /\ NoDate.month = 0
  BY DEF PETS_COMMENCED, REG_COMMENCED, NoDate, date
<1>3. PETS_COMMENCED # NoDate /\ REG_COMMENCED # NoDate
  BY <1>2
<1>4. ~Before(d, REG_COMMENCED)
  BY <1>2 DEF NoLater, Before, Date
<1> QED
  BY <1>1, <1>3, <1>4 DEF rule_active

\* OneContractorRule for every part of the table that keeps both rules, every
\* corpus, document and day.
THEOREM OneRuleOnContractors ==
  Spec => []OneContractorRule
<1>1. ActiveInv /\ AuditTypes /\ ReportedOnce => OneContractorRule
  <2> SUFFICES ASSUME ActiveInv, AuditTypes, ReportedOnce, phase = "done",
                      job.jurisdiction = "NSW", NoLater(REG_COMMENCED, job.as_at)
               PROVE  \E i \in DOMAIN findings :
                        /\ findings[i].id.rule \in ContractorRules
                        /\ \A k \in DOMAIN findings :
                            findings[k].id.rule \in ContractorRules
                              => (findings[k].by # "inactive" <=> k = i)
    BY DEF OneContractorRule
  <2>1. job \in Jobs /\ findings \in Seq(FindingType)
    BY DEF AuditTypes
  <2>2. job.as_at \in Date
    BY <2>1, FamiliesAssumption
  <2>3. Rules \in Seq(RuleType) /\ Rules = RulesOf["NSW"] /\ DOMAIN Rules = 1..Len(Rules)
    BY <2>1, RulesTyped DEF Rules
  <2>4. OnContractors(Rules) = {ContractorAct, ContractorReg}
    BY <2>3, ContractorAssumption, ContractorsOfTheCode
  <2>5. /\ \A r \in 1..Len(Rules) : Rules[r].rule_id \in ContractorRules
                                      => Rules[r] \in {ContractorAct, ContractorReg}
        /\ \A c \in {ContractorAct, ContractorReg} :
              \E r \in 1..Len(Rules) : Rules[r] = c /\ c.rule_id \in ContractorRules
    BY <2>3, <2>4 DEF OnContractors
  <2>6. PICK c \in {ContractorAct, ContractorReg} :
            \A x \in {ContractorAct, ContractorReg} : Judged(x) <=> x = c
    <3>1. ContractorAct # ContractorReg
      <4>1. /\ ContractorAct.rule_id = "specified_contractor"
            /\ ContractorReg.rule_id = "specified_contractor_reg"
        BY ContractorsOfTheCode DEF ClauseRule
      <4> QED
        BY <4>1
    <3> QED
      BY <2>2, <3>1, OneIsActive DEF Judged
  <2>7. PICK r \in 1..Len(Rules) : Rules[r] = c /\ c.rule_id \in ContractorRules
    BY <2>5
  <2>8. RuleId(c) \in RuleIds
    BY <2>3, <2>7 DEF RuleIds
  <2>9. PICK i \in DOMAIN findings : findings[i].id = RuleId(c)
    BY <2>8 DEF ReportedOnce
  <2>10. findings[i].id.rule \in ContractorRules
    BY <2>7, <2>9, IdFields
  <2>11. ASSUME NEW k \in DOMAIN findings, findings[k].id.rule \in ContractorRules
         PROVE  findings[k].by # "inactive" <=> k = i
    <3>1. findings[k].id.no = 0
      <4>1. findings[k].id \in RuleIds \cup TermIds
        BY DEF ReportedOnce
      <4>2. "standard_form" \notin ContractorRules
        BY DEF ContractorRules
      <4>3. findings[k].id \notin TermIds
        BY <2>11, <4>2, IdFields DEF TermIds
      <4> QED
        BY <4>1, <4>3, IdFields DEF RuleIds
    <3>2. k \in 1..Len(findings)
      BY <2>1
    <3>3. PICK q \in 1..Len(Rules) :
            findings[k].id = RuleId(Rules[q]) /\ (findings[k].by = "inactive" <=> ~Judged(Rules[q]))
      BY <3>1, <3>2 DEF ActiveInv, Answers
    <3>4. Rules[q].rule_id \in ContractorRules
      BY <2>11, <3>3, IdFields
    <3>5. Rules[q] \in {ContractorAct, ContractorReg}
      BY <2>5, <3>4
    <3>6. findings[k].by # "inactive" <=> Rules[q] = c
      BY <2>6, <3>3, <3>5
    <3>7. CASE Rules[q] = c
      BY <2>9, <3>3, <3>6, <3>7 DEF ReportedOnce
    <3>8. CASE Rules[q] # c
      <4>1. Rules[q].rule_id # c.rule_id
        BY <2>1, <2>7, <3>8, RulesTyped
      <4>2. findings[k].id # findings[i].id
        BY <2>9, <3>3, <4>1, IdsDiffer
      <4> QED
        BY <3>6, <3>8, <4>2
    <3> QED
      BY <3>7, <3>8
  <2> QED
    BY <2>10, <2>11
<1>2. Init => ActiveInv
  BY EmptyLen DEF Init, AuditInit, ActiveInv
<1>3. AuditInv /\ ParseInv /\ LoaderInv /\ ActiveInv /\ [Next]_vars => ActiveInv'
  BY AuditMoves, ActiveStep DEF AuditInv
<1>4. AuditInv => AuditTypes
  BY DEF AuditInv
<1> QED
  BY <1>1, <1>2, <1>3, <1>4, ReportsOnce, AuditInvariant, LoaderInvariant, PTL DEF Spec
=============================================================================
