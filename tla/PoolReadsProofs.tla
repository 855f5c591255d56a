---------------------------- MODULE PoolReadsProofs ----------------------------
(***************************************************************************)
(* What the two reads of several statements show, for any constants.       *)
(*                                                                         *)
(* A walk through a list: the keys of rows are totally preordered by       *)
(* Before; the cursor is the key of the last row of a page, so that what   *)
(* was shown is not before it and what is still to come is.                *)
(*                                                                         *)
(* The sales summary: every part of its answer is a sum over the payments  *)
(* of the table its statement found, and the table only grows.  Sums over  *)
(* finite sets are treated first, by minimal counterexample.               *)
(***************************************************************************)
EXTENDS CursorPaging, SalesSummary, FiniteSetTheorems, TLAPS

-----------------------------------------------------------------------------
(* The walk through a list                                                   *)

Key(k) == k.at \in Int /\ k.id \in Int

\* k and l stand at the same place of the order.
Same(k, l) == k.at = l.at /\ k.id = l.id

LEMMA BeforeTrans ==
    ASSUME NEW k, NEW l, NEW m, Key(k), Key(l), Key(m), Before(k, l), Before(l, m)
    PROVE  Before(k, m)
  BY DEF Key, Before

LEMMA BeforeAsym ==
    ASSUME NEW k, NEW l, Key(k), Key(l), Before(k, l)
    PROVE  ~Before(l, k) /\ ~Same(k, l)
  BY DEF Key, Before, Same

LEMMA BeforeTotal ==
    ASSUME NEW k, NEW l, Key(k), Key(l)
    PROVE  Before(k, l) \/ Before(l, k) \/ Same(k, l)
  BY DEF Key, Before, Same

LEMMA BeforeSame ==
    ASSUME NEW k, NEW l, NEW m, Key(k), Key(l), Key(m), Same(k, l)
    PROVE  (Before(k, m) <=> Before(l, m)) /\ (Before(m, k) <=> Before(m, l))
  BY DEF Key, Before, Same

LEMMA RowKey == \A r \in Row : Key(r) /\ r.at \in Nat /\ r.id \in Nat /\ r.late \in BOOLEAN
  BY DEF Row, Key

LEMMA Consts ==
    /\ Limit \in Nat /\ Limit > 0
    /\ Null \notin Row /\ Null \notin [at : Nat, id : Nat]
  BY PagingAssumption DEF PagingAssumption, Row

\* What is shown is what the fewest come before: nothing left out is newer than
\* what is on the page.
LEMMA PageIsTop ==
    ASSUME NEW S \in SUBSET Row, IsFiniteSet(S),
           NEW last \in Newest(S, Limit),
           \A r \in Newest(S, Limit) : r = last \/ Before(last, r),
           NEW r \in S, r \notin Newest(S, Limit)
    PROVE  Before(r, last)
  <1> DEFINE Above(x) == {s \in S : Before(x, s)}
  <1>1. last \in S /\ Cardinality(Above(last)) < Limit
    BY DEF Newest
  <1>2. Key(r) /\ Key(last)
    BY <1>1, RowKey
  <1>3. IsFiniteSet(Above(last)) /\ Cardinality(Above(last)) \in Nat
    BY FS_Subset, FS_CardinalityType
  <1>4. ASSUME Above(r) \subseteq Above(last) PROVE FALSE
    <2>1. IsFiniteSet(Above(r)) /\ Cardinality(Above(r)) <= Cardinality(Above(last))
          /\ Cardinality(Above(r)) \in Nat
      BY <1>3, <1>4, FS_Subset, FS_CardinalityType
    <2>2. Cardinality(Above(r)) < Limit
      BY <1>1, <1>3, <2>1, Consts
    <2>. QED
      BY <2>2 DEF Newest
  <1>5. ~Before(last, r)
    <2>1. ASSUME Before(last, r) PROVE Above(r) \subseteq Above(last)
      BY <1>2, <2>1, BeforeTrans, RowKey
    <2>. QED
      BY <1>4, <2>1
  <1>6. ~Same(r, last)
    <2>1. ASSUME Same(r, last) PROVE Above(r) \subseteq Above(last)
      BY <1>2, <2>1, BeforeSame, RowKey
    <2>. QED
      BY <1>4, <2>1
  <1>. QED
    BY <1>2, <1>5, <1>6, BeforeTotal

\* A page that is not followed by another shows all there is.
LEMMA LastPage ==
    ASSUME NEW S \in SUBSET Row, IsFiniteSet(S), Cardinality(S) <= Limit
    PROVE  Newest(S, Limit) = S
  <1> SUFFICES ASSUME NEW r \in S PROVE Cardinality({s \in S : Before(r, s)}) < Limit
    BY DEF Newest
  <1>1. ~Before(r, r)
    BY RowKey, BeforeAsym
  <1>2. {s \in S : Before(r, s)} \subseteq S \ {r}
    BY <1>1
  <1>3. IsFiniteSet(S \ {r}) /\ Cardinality(S \ {r}) = Cardinality(S) - 1
    BY FS_RemoveElement
  <1>4. /\ Cardinality({s \in S : Before(r, s)}) <= Cardinality(S \ {r})
        /\ IsFiniteSet({s \in S : Before(r, s)})
    BY <1>2, <1>3, FS_Subset
  <1>. QED
    BY <1>3, <1>4, FS_CardinalityType, Consts

-----------------------------------------------------------------------------
(* The invariant                                                             *)

\* The clock and the sequence bound what is in the table and on its way to it.
Bounded ==
    /\ IsFiniteSet(rows)
    /\ \A r \in rows : r.at <= stamp /\ r.id <= lastId
    /\ \A r \in there : r.id <= lastId
    /\ \A w \in Writers : open[w] # Null => open[w].at <= stamp /\ open[w].id <= lastId

\* A row on its way has a number that no other row has or had.
Inserted(w) == open[w] # Null /\ open[w].id # 0

Fresh ==
    \A w \in Writers : Inserted(w) =>
        /\ \A r \in rows \cup there : r.id # open[w].id
        /\ \A v \in Writers \ {w} : Inserted(v) => open[v].id # open[w].id

Quiet ==
    phase = "idle" =>
        /\ page = {} /\ seen = {}
        /\ \A r \in rows : ~r.late
        /\ \A w \in Writers : open[w] # Null => ~open[w].late

\* While the walk goes on the cursor parts what was shown from what is to come,
\* and later transactions are on the side of what was shown.
Parted ==
    phase = "walking" =>
        /\ cursor # Null /\ cursor.at <= stamp /\ cursor.id <= lastId
        /\ \A r \in page \cup seen : ~Before(r, cursor)
        /\ \A r \in there \cap rows : r \in page \cup seen \/ Before(r, cursor)
        /\ \A r \in rows : r.late => Before(cursor, r)
        /\ \A w \in Writers : open[w] # Null /\ open[w].late =>
              cursor.at <= open[w].at /\ (open[w].id # 0 => Before(cursor, open[w]))

IInv ==
    /\ ListTypeOK /\ Bounded /\ Fresh /\ Quiet /\ Parted
    /\ NoRowTwice /\ NoRowSkipped /\ LaterRowsStayOut

LEMMA Initially == ListInit => IInv
  <1>1. ASSUME ListInit PROVE IInv
    <2>1. ListTypeOK
      BY <1>1 DEF ListInit, ListTypeOK
    <2>2. Bounded /\ Fresh /\ Quiet /\ Parted
      BY <1>1, FS_EmptySet DEF ListInit, Bounded, Fresh, Inserted, Quiet, Parted
    <2>. QED
      BY <1>1, <2>1, <2>2 DEF ListInit, IInv, NoRowTwice, NoRowSkipped, LaterRowsStayOut
  <1>. QED
    BY <1>1

LEMMA CursorKey ==
    ASSUME ListTypeOK, cursor # Null
    PROVE  Key(cursor) /\ cursor.at \in Nat /\ cursor.id \in Nat
  BY DEF ListTypeOK, Key

\* The clock moves, a transaction begins, inserts or is rolled back.
LEMMA TickStep ==
    ASSUME IInv, Tick
    PROVE  IInv'
  <1>1. /\ stamp' = stamp + 1 /\ stamp \in Nat
        /\ UNCHANGED <<lastId, open, rows, phase, cursor, page, seen, there>>
    BY DEF Tick, walkVars, IInv, ListTypeOK
  <1>2. ListTypeOK' /\ NoRowTwice' /\ NoRowSkipped' /\ LaterRowsStayOut' /\ Quiet' /\ Fresh'
    BY <1>1 DEF IInv, ListTypeOK, NoRowTwice, NoRowSkipped, LaterRowsStayOut, Quiet, Fresh,
       Inserted
  <1>3. Bounded'
    <2>1. \A r \in rows : r.at \in Nat
      BY RowKey DEF IInv, ListTypeOK
    <2>2. \A w \in Writers : open[w] # Null => open[w].at \in Nat
      BY RowKey DEF IInv, ListTypeOK
    <2>. QED
      BY <1>1, <2>1, <2>2 DEF IInv, Bounded
  <1>4. Parted'
    <2>1. cursor # Null => cursor.at \in Nat
      BY CursorKey DEF IInv
    <2>. QED
      BY <1>1, <2>1 DEF IInv, Parted
  <1>. QED
    BY <1>2, <1>3, <1>4 DEF IInv

LEMMA BeginStep ==
    ASSUME IInv, NEW w \in Writers, Begin(w)
    PROVE  IInv'
  <1> DEFINE new == [at |-> stamp, id |-> 0, late |-> phase # "idle"]
  <1>1. /\ open' = [open EXCEPT ![w] = new] /\ stamp \in Nat /\ lastId \in Nat
        /\ UNCHANGED <<stamp, lastId, rows, phase, cursor, page, seen, there>>
        /\ open \in [Writers -> Row \cup {Null}]
    BY DEF Begin, walkVars, IInv, ListTypeOK
  <1>2. new \in Row /\ new.at = stamp /\ new.id = 0 /\ (new.late <=> phase # "idle")
        /\ new # Null
    <2>1. (phase # "idle") \in BOOLEAN
      OBVIOUS
    <2>2. new \in Row
      BY <1>1, <2>1 DEF Row
    <2>. QED
      BY <2>2, Consts
  <1> HIDE DEF new
  <1>3. /\ open'[w] = new /\ \A v \in Writers \ {w} : open'[v] = open[v]
        /\ open' \in [Writers -> Row \cup {Null}]
    BY <1>1, <1>2
  <1>4. ListTypeOK' /\ NoRowTwice' /\ NoRowSkipped' /\ LaterRowsStayOut'
    BY <1>1, <1>3 DEF IInv, ListTypeOK, NoRowTwice, NoRowSkipped, LaterRowsStayOut
  <1>5. Bounded'
    BY <1>1, <1>2, <1>3 DEF IInv, Bounded
  <1>6. Fresh'
    BY <1>1, <1>2, <1>3 DEF IInv, Fresh, Inserted
  <1>7. Quiet'
    BY <1>1, <1>2, <1>3 DEF IInv, Quiet
  <1>8. Parted'
    BY <1>1, <1>2, <1>3 DEF IInv, Parted
  <1>. QED
    BY <1>4, <1>5, <1>6, <1>7, <1>8 DEF IInv

LEMMA InsertStep ==
    ASSUME IInv, NEW w \in Writers, Insert(w)
    PROVE  IInv'
  <1> DEFINE new == [open[w] EXCEPT !.id = lastId + 1]
  <1>1. /\ open' = [open EXCEPT ![w] = new] /\ lastId' = lastId + 1
        /\ open[w] # Null /\ lastId \in Nat /\ stamp \in Nat
        /\ UNCHANGED <<stamp, rows, phase, cursor, page, seen, there>>
        /\ open \in [Writers -> Row \cup {Null}]
    BY DEF Insert, walkVars, IInv, ListTypeOK
  <1>2. new \in Row /\ new.at = open[w].at /\ new.id = lastId + 1
        /\ new.late = open[w].late /\ new # Null /\ open[w].at \in Nat
    <2>1. open[w] \in Row
      BY <1>1
    <2>2. new \in Row /\ new.at = open[w].at /\ new.id = lastId + 1
          /\ new.late = open[w].late /\ open[w].at \in Nat
      BY <1>1, <2>1 DEF Row
    <2>. QED
      BY <2>2, Consts
  <1> HIDE DEF new
  <1>3. /\ open'[w] = new /\ \A v \in Writers \ {w} : open'[v] = open[v]
        /\ open' \in [Writers -> Row \cup {Null}]
    BY <1>1, <1>2
  <1>4. ListTypeOK' /\ NoRowTwice' /\ NoRowSkipped' /\ LaterRowsStayOut'
    BY <1>1, <1>3 DEF IInv, ListTypeOK, NoRowTwice, NoRowSkipped, LaterRowsStayOut
  <1>5. /\ \A r \in rows \cup there : r.id \in Nat /\ r.id <= lastId
        /\ \A v \in Writers : open[v] # Null => open[v].id \in Nat /\ open[v].id <= lastId
    BY <1>1, RowKey DEF IInv, ListTypeOK, Bounded
  <1>6. Bounded'
    BY <1>1, <1>2, <1>3, <1>5 DEF IInv, Bounded
  <1>7. Fresh'
    BY <1>1, <1>2, <1>3, <1>5 DEF IInv, Fresh, Inserted
  <1>8. Quiet'
    BY <1>1, <1>2, <1>3 DEF IInv, Quiet
  <1>9. Parted'
    <2>1. ASSUME phase = "walking", open[w].late
          PROVE  cursor.at <= new.at /\ Before(cursor, new)
      <3>1. cursor.at \in Nat /\ cursor.id \in Nat /\ cursor.id <= lastId
            /\ cursor.at <= open[w].at
        BY <1>1, <2>1, CursorKey DEF IInv, Parted
      <3>. QED
        BY <1>1, <1>2, <3>1 DEF Before
    <2>2. cursor # Null => cursor.id \in Nat
      BY CursorKey DEF IInv
    <2>. QED
      BY <1>1, <1>2, <1>3, <2>1, <2>2 DEF IInv, Parted
  <1>. QED
    BY <1>4, <1>6, <1>7, <1>8, <1>9 DEF IInv

LEMMA CommitStep ==
    ASSUME IInv, NEW w \in Writers, Commit(w)
    PROVE  IInv'
  <1>1. /\ rows' = rows \cup {open[w]} /\ open[w] # Null /\ open[w].id # 0
        /\ open' = [open EXCEPT ![w] = Null]
        /\ UNCHANGED <<stamp, lastId, phase, cursor, page, seen, there>>
        /\ open \in [Writers -> Row \cup {Null}] /\ rows \subseteq {r \in Row : r.id > 0}
    BY DEF Commit, walkVars, IInv, ListTypeOK
  <1>2. /\ open'[w] = Null /\ \A v \in Writers \ {w} : open'[v] = open[v]
        /\ open' \in [Writers -> Row \cup {Null}]
    BY <1>1
  <1>3. open[w] \in {r \in Row : r.id > 0} /\ rows' \subseteq {r \in Row : r.id > 0}
    BY <1>1, RowKey
  <1>4. open[w] \notin there /\ open[w] \notin rows
    BY <1>1 DEF IInv, Fresh, Inserted
  <1>5. ListTypeOK' /\ NoRowTwice' /\ NoRowSkipped' /\ LaterRowsStayOut'
    BY <1>1, <1>2, <1>3, <1>4 DEF IInv, ListTypeOK, NoRowTwice, NoRowSkipped,
       LaterRowsStayOut
  <1>6. Bounded'
    BY <1>1, <1>2, FS_AddElement DEF IInv, Bounded
  <1>7. Fresh'
    BY <1>1, <1>2 DEF IInv, Fresh, Inserted
  <1>8. Quiet'
    BY <1>1, <1>2 DEF IInv, Quiet
  <1>9. Parted'
    BY <1>1, <1>2, <1>4 DEF IInv, Parted
  <1>. QED
    BY <1>5, <1>6, <1>7, <1>8, <1>9 DEF IInv

LEMMA RollbackStep ==
    ASSUME IInv, NEW w \in Writers, Rollback(w)
    PROVE  IInv'
  <1>1. /\ open' = [open EXCEPT ![w] = Null]
        /\ UNCHANGED <<stamp, lastId, rows, phase, cursor, page, seen, there>>
        /\ open \in [Writers -> Row \cup {Null}]
    BY DEF Rollback, walkVars, IInv, ListTypeOK
  <1>2. /\ open'[w] = Null /\ \A v \in Writers \ {w} : open'[v] = open[v]
        /\ open' \in [Writers -> Row \cup {Null}]
    BY <1>1
  <1>. QED
    BY <1>1, <1>2 DEF IInv, ListTypeOK, NoRowTwice, NoRowSkipped, LaterRowsStayOut,
       Bounded, Fresh, Inserted, Quiet, Parted

LEMMA DeleteStep ==
    ASSUME IInv, NEW r \in rows, Delete(r)
    PROVE  IInv'
  <1>1. /\ rows' = rows \ {r}
        /\ UNCHANGED <<stamp, lastId, open, phase, cursor, page, seen, there>>
    BY DEF Delete, walkVars, writerVars
  <1>2. IsFiniteSet(rows')
    BY <1>1, FS_RemoveElement DEF IInv, Bounded
  <1>3. ListTypeOK' /\ NoRowTwice' /\ NoRowSkipped' /\ LaterRowsStayOut'
    BY <1>1 DEF IInv, ListTypeOK, NoRowTwice, NoRowSkipped, LaterRowsStayOut
  <1>4. Bounded' /\ Fresh'
    BY <1>1, <1>2 DEF IInv, Bounded, Fresh, Inserted
  <1>5. Quiet' /\ Parted'
    BY <1>1 DEF IInv, Quiet, Parted
  <1>. QED
    BY <1>3, <1>4, <1>5 DEF IInv

-----------------------------------------------------------------------------
(* The pages                                                                 *)

\* An answer is the end of the walk and all that is left, or its cursor is the
\* last row of the page and what is left comes before it.
LEMMA AnswerFacts ==
    ASSUME IInv, NEW found \in SUBSET rows, Answer(found)
    PROVE  /\ page' \subseteq found
           /\ \/ cursor' = Null /\ phase' = "done" /\ page' = found
              \/ \E last \in page' :
                    /\ cursor' = [at |-> last.at, id |-> last.id] /\ cursor' # Null
                    /\ phase' = "walking"
                    /\ \A r \in page' : r = last \/ Before(last, r)
                    /\ \A r \in found \ page' : Before(r, last)
  <1>1. found \in SUBSET Row /\ IsFiniteSet(found)
    BY FS_Subset DEF IInv, ListTypeOK, Bounded
  <1>2. /\ page' = Newest(found, Limit) /\ NextCursor(found, cursor')
        /\ phase' = IF cursor' = Null THEN "done" ELSE "walking"
    BY DEF Answer
  <1>3. page' \subseteq found
    BY <1>2 DEF Newest
  <1>4. CASE Cardinality(found) <= Limit
    BY <1>1, <1>2, <1>3, <1>4, LastPage DEF NextCursor
  <1>5. CASE ~(Cardinality(found) <= Limit)
    <2>1. PICK last \in Newest(found, Limit) :
             /\ \A r \in Newest(found, Limit) : r = last \/ Before(last, r)
             /\ cursor' = [at |-> last.at, id |-> last.id]
      BY <1>2, <1>5 DEF NextCursor
    <2>2. cursor' \in [at : Nat, id : Nat]
      BY <1>1, <1>2, <1>3, <2>1, RowKey
    <2>3. cursor' # Null /\ phase' = "walking"
      BY <1>2, <2>2, Consts
    <2>4. \A r \in found \ page' : Before(r, last)
      BY <1>1, <1>2, <2>1, PageIsTop
    <2>. QED
      BY <1>2, <1>3, <2>1, <2>3, <2>4
  <1>. QED
    BY <1>4, <1>5

\* What a page leaves alone, and its type.
LEMMA AnswerFrame ==
    ASSUME IInv, NEW found \in SUBSET rows, Answer(found),
           there' \subseteq there \cup rows, seen' \subseteq seen \cup page
    PROVE  ListTypeOK' /\ Bounded' /\ Fresh' /\ phase' # "idle"
  <1>1. UNCHANGED <<stamp, lastId, open, rows>> /\ phase' \in {"walking", "done"}
    BY DEF Answer, writerVars
  <1>2. page' \subseteq rows
    BY AnswerFacts
  <1>3. rows \subseteq Row /\ there \subseteq Row /\ seen \subseteq Row /\ page \subseteq Row
    BY DEF IInv, ListTypeOK
  <1>4. cursor' \in [at : Nat, id : Nat] \cup {Null}
    BY <1>2, <1>3, AnswerFacts, RowKey
  <1>5. ListTypeOK'
    BY <1>1, <1>2, <1>3, <1>4 DEF IInv, ListTypeOK
  <1>6. Bounded' /\ Fresh'
    BY <1>1 DEF IInv, Bounded, Fresh, Inserted
  <1>. QED
    BY <1>1, <1>5, <1>6

LEMMA FirstPageStep ==
    ASSUME IInv, FirstPage
    PROVE  IInv'
  <1>1. phase = "idle" /\ there' = rows /\ seen' = seen /\ seen = {} /\ page = {}
    BY DEF FirstPage, IInv, Quiet
  <1>2. Answer(rows)
    BY DEF FirstPage, AfterCursor
  <1>3. ListTypeOK' /\ Bounded' /\ Fresh' /\ phase' # "idle"
    BY <1>1, <1>2, AnswerFrame
  <1>4. UNCHANGED <<stamp, lastId, open, rows>>
    BY <1>2 DEF Answer, writerVars
  <1>5. /\ page' \subseteq rows
        /\ \/ cursor' = Null /\ phase' = "done" /\ page' = rows
           \/ \E last \in page' :
                 /\ cursor' = [at |-> last.at, id |-> last.id] /\ cursor' # Null
                 /\ phase' = "walking"
                 /\ \A r \in page' : r = last \/ Before(last, r)
                 /\ \A r \in rows \ page' : Before(r, last)
    BY <1>2, AnswerFacts
  <1>6. /\ \A r \in rows : ~r.late
        /\ \A w \in Writers : open[w] # Null => ~open[w].late
    BY <1>1 DEF IInv, Quiet
  <1>7. NoRowTwice' /\ LaterRowsStayOut'
    BY <1>1, <1>5, <1>6 DEF NoRowTwice, LaterRowsStayOut
  <1>8. NoRowSkipped'
    BY <1>1, <1>4, <1>5 DEF NoRowSkipped
  <1>9. Parted'
    <2> SUFFICES ASSUME phase' = "walking" PROVE Parted'
      BY DEF Parted
    <2>1. PICK last \in page' :
             /\ cursor' = [at |-> last.at, id |-> last.id] /\ cursor' # Null
             /\ \A r \in page' : r = last \/ Before(last, r)
             /\ \A r \in rows \ page' : Before(r, last)
      BY <1>5
    <2>2. last \in rows /\ cursor'.at = last.at /\ cursor'.id = last.id
      BY <1>5, <2>1
    <2>3. last \in Row /\ Key(last) /\ last.at <= stamp /\ last.id <= lastId
      BY <2>2, RowKey DEF IInv, ListTypeOK, Bounded
    <2>4. \A r \in Row : Key(r) /\ (Before(r, cursor') <=> Before(r, last))
      BY <2>2, RowKey DEF Before
    <2>5. \A r \in page' : ~Before(r, cursor')
      <3>1. \A r \in page' : r \in Row
        BY <1>5 DEF IInv, ListTypeOK
      <3>. QED
        BY <2>1, <2>3, <2>4, <3>1, BeforeAsym
    <2>6. \A r \in rows : r \in page' \/ Before(r, cursor')
      <3>1. rows \subseteq Row
        BY DEF IInv, ListTypeOK
      <3>. QED
        BY <2>1, <2>4, <3>1
    <2>. QED
      BY <1>1, <1>4, <1>6, <2>1, <2>2, <2>3, <2>5, <2>6 DEF Parted
  <1>10. Quiet'
    BY <1>3 DEF Quiet
  <1>. QED
    BY <1>3, <1>7, <1>8, <1>9, <1>10 DEF IInv

LEMMA NextPageStep ==
    ASSUME IInv, NextPage
    PROVE  IInv'
  <1> DEFINE found == {r \in rows : Before(r, cursor)}
  <1>1. phase = "walking" /\ there' = there /\ seen' = seen \cup page
    BY DEF NextPage
  <1>2. /\ cursor # Null /\ cursor.at <= stamp /\ cursor.id <= lastId
        /\ \A r \in page \cup seen : ~Before(r, cursor)
        /\ \A r \in there \cap rows : r \in page \cup seen \/ Before(r, cursor)
        /\ \A r \in rows : r.late => Before(cursor, r)
        /\ \A w \in Writers : open[w] # Null /\ open[w].late =>
              cursor.at <= open[w].at /\ (open[w].id # 0 => Before(cursor, open[w]))
    BY <1>1 DEF IInv, Parted
  <1>3. Key(cursor) /\ cursor.at \in Nat
    BY <1>2, CursorKey DEF IInv
  <1>4. found \in SUBSET rows /\ Answer(found)
    BY <1>2 DEF NextPage, AfterCursor
  <1>5. rows \subseteq Row /\ page \subseteq Row /\ seen \subseteq Row
    BY DEF IInv, ListTypeOK
  <1>6. \A r \in found : Before(r, cursor) /\ ~Before(cursor, r) /\ r \in Row
    BY <1>3, <1>5, RowKey, BeforeAsym
  <1> HIDE DEF found
  <1>7. ListTypeOK' /\ Bounded' /\ Fresh' /\ phase' # "idle"
    BY <1>1, <1>4, AnswerFrame
  <1>8. UNCHANGED <<stamp, lastId, open, rows>>
    BY <1>4 DEF Answer, writerVars
  <1>9. /\ page' \subseteq found
        /\ \/ cursor' = Null /\ phase' = "done" /\ page' = found
           \/ \E last \in page' :
                 /\ cursor' = [at |-> last.at, id |-> last.id] /\ cursor' # Null
                 /\ phase' = "walking"
                 /\ \A r \in page' : r = last \/ Before(last, r)
                 /\ \A r \in found \ page' : Before(r, last)
    BY <1>4, AnswerFacts
  <1>10. NoRowTwice'
    BY <1>1, <1>2, <1>6, <1>9 DEF NoRowTwice
  <1>11. LaterRowsStayOut'
    BY <1>1, <1>2, <1>4, <1>6, <1>9 DEF IInv, LaterRowsStayOut
  <1>12. \A r \in there \cap rows : r \in page \cup seen \/ r \in found
    BY <1>2 DEF found
  <1>13. NoRowSkipped'
    BY <1>1, <1>8, <1>9, <1>12 DEF NoRowSkipped
  <1>14. Parted'
    <2> SUFFICES ASSUME phase' = "walking" PROVE Parted'
      BY DEF Parted
    <2>1. PICK last \in page' :
             /\ cursor' = [at |-> last.at, id |-> last.id] /\ cursor' # Null
             /\ \A r \in page' : r = last \/ Before(last, r)
             /\ \A r \in found \ page' : Before(r, last)
      BY <1>9
    <2>2. last \in found /\ last \in rows /\ cursor'.at = last.at /\ cursor'.id = last.id
      BY <1>4, <1>9, <2>1
    <2>3. last \in Row /\ Key(last) /\ Key(cursor') /\ last.at <= stamp /\ last.id <= lastId
          /\ Before(last, cursor)
      BY <1>6, <2>2, RowKey DEF IInv, Bounded, Key
    <2>4. /\ \A r \in Row : Key(r)
          /\ \A r : Before(r, cursor') <=> Before(r, last)
          /\ \A r : Before(cursor', r) <=> Before(last, r)
      BY <2>2, RowKey DEF Before
    <2>5. \A r \in page' : ~Before(r, cursor')
      <3>1. \A r \in page' : r \in Row
        BY <1>6, <1>9
      <3>. QED
        BY <2>1, <2>3, <2>4, <3>1, BeforeAsym
    <2>6. \A r \in page \cup seen : ~Before(r, cursor')
      BY <1>2, <1>3, <1>5, <2>3, <2>4, BeforeTrans
    <2>7. \A r \in there \cap rows : r \in page' \cup page \cup seen \/ Before(r, cursor')
      BY <1>12, <2>1, <2>4
    <2>8. \A r \in rows : r.late => Before(cursor', r)
      BY <1>2, <1>3, <1>5, <2>3, <2>4, BeforeTrans
    <2>9. \A w \in Writers : open[w] # Null /\ open[w].late =>
              cursor'.at <= open[w].at /\ (open[w].id # 0 => Before(cursor', open[w]))
      <3>1. \A w \in Writers : open[w] # Null => open[w] \in Row
        BY DEF IInv, ListTypeOK
      <3>2. cursor'.at <= cursor.at /\ cursor'.at \in Nat
        BY <1>3, <2>2, <2>3, RowKey DEF Before, Key
      <3>3. ASSUME NEW w \in Writers, open[w] # Null, open[w].late
            PROVE  cursor'.at <= open[w].at /\ (open[w].id # 0 => Before(cursor', open[w]))
        <4>1. open[w].at \in Nat /\ Key(open[w])
          BY <3>1, <3>3, RowKey
        <4>2. cursor.at <= open[w].at
          BY <1>2, <3>3
        <4>3. open[w].id # 0 => Before(last, open[w])
          BY <1>2, <1>3, <2>3, <3>3, <4>1, BeforeTrans
        <4>. QED
          BY <1>3, <2>4, <3>2, <4>1, <4>2, <4>3
      <3>. QED
        BY <3>3
    <2>. QED
      BY <1>1, <1>8, <2>1, <2>2, <2>3, <2>5, <2>6, <2>7, <2>8, <2>9 DEF Parted
  <1>15. Quiet'
    BY <1>7 DEF Quiet
  <1>. QED
    BY <1>7, <1>10, <1>11, <1>13, <1>14, <1>15 DEF IInv

LEMMA Inductive == ListSpec => []IInv
  <1>1. IInv /\ [ListNext]_listVars => IInv'
    <2> SUFFICES ASSUME IInv, [ListNext]_listVars PROVE IInv'
      OBVIOUS
    <2>1. CASE UNCHANGED listVars
      BY <2>1 DEF listVars, writerVars, walkVars, IInv, ListTypeOK, Bounded, Fresh, Inserted,
         Quiet, Parted, NoRowTwice, NoRowSkipped, LaterRowsStayOut
    <2>2. CASE Tick
      BY <2>2, TickStep
    <2>3. CASE FirstPage
      BY <2>3, FirstPageStep
    <2>4. CASE NextPage
      BY <2>4, NextPageStep
    <2>5. ASSUME NEW w \in Writers, Begin(w) \/ Insert(w) \/ Commit(w) \/ Rollback(w)
          PROVE  IInv'
      BY <2>5, BeginStep, InsertStep, CommitStep, RollbackStep
    <2>6. ASSUME NEW r \in rows, Delete(r) PROVE IInv'
      BY <2>6, DeleteStep
    <2>. QED
      BY <2>1, <2>2, <2>3, <2>4, <2>5, <2>6 DEF ListNext
  <1>. QED
    BY <1>1, Initially, PTL DEF ListSpec

-----------------------------------------------------------------------------
(* The theorems                                                              *)

\* The state keeps its type.
THEOREM TypeCorrect == ListSpec => []ListTypeOK
  <1>1. IInv => ListTypeOK
    BY DEF IInv
  <1>. QED
    BY <1>1, Inductive, PTL

\* Whatever is added or deleted in between, no row is on two pages.
THEOREM PagesAreDisjoint == ListSpec => []NoRowTwice
  <1>1. IInv => NoRowTwice
    BY DEF IInv
  <1>. QED
    BY <1>1, Inductive, PTL

\* A walk to the end has shown all that was there from its beginning to its end.
THEOREM WalksAreComplete == ListSpec => []NoRowSkipped
  <1>1. IInv => NoRowSkipped
    BY DEF IInv
  <1>. QED
    BY <1>1, Inductive, PTL

\* What begins after the first page is on no page of the walk.
THEOREM LaterRowsAreOut == ListSpec => []LaterRowsStayOut
  <1>1. IInv => LaterRowsStayOut
    BY DEF IInv
  <1>. QED
    BY <1>1, Inductive, PTL

-----------------------------------------------------------------------------
(* Sums over finite sets, as SumFunctionOnSet adds them up: a collection of   *)
(* subsets of a finite set that is not empty has a member none of whose      *)
(* proper parts it has, so what fails for some part of a set fails for a     *)
(* smallest one.                                                             *)

Total(f, S) == SumFunctionOnSet(f, S)

\* The element a fold takes first.
First(S) == CHOOSE x \in S : TRUE

LEMMA FirstIn == \A S : S # {} => First(S) \in S
  BY DEF First

LEMMA SetInduction ==
    ASSUME NEW S, IsFiniteSet(S), NEW Good,
           \A T \in SUBSET S :
              IsFiniteSet(T) /\ (\A U \in SUBSET T : U # T => U \in Good) => T \in Good
    PROVE  S \in Good
  <1>1. PICK Bad : Bad = {T \in SUBSET S : T \notin Good}
    OBVIOUS
  <1>2. SUFFICES ASSUME S \in Bad PROVE FALSE
    BY <1>1
  <1>3. IsWellFoundedOn(StrictSubsetOrdering(S), FiniteSubsetsOf(S))
    BY FS_StrictSubsetOrderingWellFounded
  <1>4. FiniteSubsetsOf(S) = SUBSET S
    BY FS_FiniteSubsetsOfFinite
  <1>5. PICK T \in Bad : \A U \in Bad : <<U, T>> \notin StrictSubsetOrdering(S)
    BY <1>1, <1>2, <1>3, <1>4, WFMin
  <1>6. ASSUME NEW U \in SUBSET T, U # T
        PROVE  U \in Good
    <2>1. <<U, T>> \in (SUBSET S) \X (SUBSET S) /\ U \in SUBSET S
      BY <1>1, <1>6
    <2>2. <<U, T>> \in StrictSubsetOrdering(S)
      BY <1>6, <2>1 DEF StrictSubsetOrdering
    <2>. QED
      BY <1>1, <1>5, <2>1, <2>2
  <1>7. T \in SUBSET S /\ IsFiniteSet(T)
    BY <1>1, FS_Subset
  <1>. QED
    BY <1>1, <1>6, <1>7

\* Element by element.
LEMMA Elementwise ==
    ASSUME NEW S, IsFiniteSet(S), NEW Good, {} \in Good,
           \A T \in SUBSET S : \A x \in S \ T : T \in Good => T \cup {x} \in Good
    PROVE  S \in Good
  <1>1. ASSUME NEW T \in SUBSET S, \A U \in SUBSET T : U # T => U \in Good, T # {}
        PROVE  T \in Good
    <2>1. PICK x \in T : TRUE
      BY <1>1
    <2>2. PICK U : U = T \ {x}
      OBVIOUS
    <2>3. U \in SUBSET T /\ U # T /\ U \in SUBSET S /\ x \in S \ U /\ U \cup {x} = T
      BY <2>1, <2>2
    <2>. QED
      BY <1>1, <2>3
  <1>2. \A T \in SUBSET S :
           IsFiniteSet(T) /\ (\A U \in SUBSET T : U # T => U \in Good) => T \in Good
    BY <1>1
  <1>. QED
    BY <1>2, SetInduction

\* The recursion the fold evaluates.
Folds(f, S, it) ==
    it = [s \in SUBSET S |-> IF s = {} THEN 0 ELSE f[First(s)] + it[s \ {First(s)}]]

LEMMA TotalIs ==
    ASSUME NEW f, NEW S
    PROVE  Total(f, S) = (CHOOSE it : Folds(f, S, it))[S]
  BY DEF Total, SumFunctionOnSet, FoldFunctionOnSet, MapThenFoldSet, Folds, First

LEMMA FoldsAt ==
    ASSUME NEW f, NEW S, NEW it, Folds(f, S, it), NEW s \in SUBSET S
    PROVE  it[s] = IF s = {} THEN 0 ELSE f[First(s)] + it[s \ {First(s)}]
  BY DEF Folds

LEMMA FoldsAgree ==
    ASSUME NEW f, NEW S, IsFiniteSet(S), NEW T, S \subseteq T,
           NEW g, Folds(f, S, g), NEW h, Folds(f, T, h)
    PROVE  \A s \in SUBSET S : g[s] = h[s]
  <1> SUFFICES ASSUME NEW R \in SUBSET S PROVE g[R] = h[R]
    OBVIOUS
  <1>1. PICK Good : Good = {s \in SUBSET S : g[s] = h[s]}
    OBVIOUS
  <1>2. ASSUME NEW s \in SUBSET R, \A u \in SUBSET s : u # s => u \in Good
        PROVE  s \in Good
    <2>1. s \in SUBSET S /\ s \in SUBSET T
      OBVIOUS
    <2>2. CASE s = {}
      BY <1>1, <2>1, <2>2, FoldsAt
    <2>3. CASE s # {}
      <3>1. s \ {First(s)} \in SUBSET s /\ s \ {First(s)} # s
        BY <2>3, FirstIn
      <3>2. g[s \ {First(s)}] = h[s \ {First(s)}]
        BY <1>1, <1>2, <3>1
      <3>3. g[s] = f[First(s)] + g[s \ {First(s)}]
        BY <2>1, <2>3, FoldsAt
      <3>4. h[s] = f[First(s)] + h[s \ {First(s)}]
        BY <2>1, <2>3, FoldsAt
      <3>. QED
        BY <1>1, <2>1, <3>2, <3>3, <3>4
    <2>. QED
      BY <2>2, <2>3
  <1>3. IsFiniteSet(R)
    BY FS_Subset
  <1>4. R \in Good
    BY <1>2, <1>3, SetInduction
  <1>. QED
    BY <1>1, <1>4

LEMMA TotalUnfolds ==
    ASSUME NEW f, NEW S, IsFiniteSet(S), \E it : Folds(f, S, it),
           S # {} => \E it : Folds(f, S \ {First(S)}, it)
    PROVE  Total(f, S) = IF S = {} THEN 0 ELSE f[First(S)] + Total(f, S \ {First(S)})
  <1>1. PICK g : Folds(f, S, g) /\ Total(f, S) = g[S]
    BY TotalIs
  <1>2. CASE S = {}
    BY <1>1, <1>2, FoldsAt
  <1>3. CASE S # {}
    <2>1. PICK h : Folds(f, S \ {First(S)}, h) /\ Total(f, S \ {First(S)}) = h[S \ {First(S)}]
      BY <1>3, TotalIs
    <2>2. IsFiniteSet(S \ {First(S)})
      BY FS_RemoveElement
    <2>3. g[S \ {First(S)}] = h[S \ {First(S)}]
      BY <1>1, <2>1, <2>2, FoldsAgree
    <2>4. g[S] = f[First(S)] + g[S \ {First(S)}]
      BY <1>1, <1>3, FoldsAt
    <2>. QED
      BY <1>1, <1>3, <2>1, <2>3, <2>4
  <1>. QED
    BY <1>2, <1>3

LEMMA FoldsExists ==
    ASSUME NEW f, NEW S, IsFiniteSet(S)
    PROVE  \E it : Folds(f, S, it)
  <1>1. PICK Good : Good = {s \in SUBSET S : \E it : Folds(f, s, it)}
    OBVIOUS
  <1>2. ASSUME NEW T \in SUBSET S, IsFiniteSet(T), \A u \in SUBSET T : u # T => u \in Good
        PROVE  T \in Good
    <2>1. PICK h : h = [s \in SUBSET T |-> IF s = {} THEN 0
                                           ELSE f[First(s)] + Total(f, s \ {First(s)})]
      OBVIOUS
    <2>2. ASSUME NEW s \in SUBSET T, s # {}
          PROVE  h[s \ {First(s)}] = Total(f, s \ {First(s)})
      <3>1. PICK u : u = s \ {First(s)}
        OBVIOUS
      <3>2. u \in SUBSET T /\ u # T /\ IsFiniteSet(u)
        BY <1>2, <2>2, <3>1, FirstIn, FS_Subset
      <3>3. u # {} => u \ {First(u)} \in SUBSET T /\ u \ {First(u)} # T
        BY <3>2, FirstIn
      <3>4. (\E it : Folds(f, u, it)) /\ (u # {} => \E it : Folds(f, u \ {First(u)}, it))
        BY <1>1, <1>2, <3>2, <3>3
      <3>5. Total(f, u) = IF u = {} THEN 0 ELSE f[First(u)] + Total(f, u \ {First(u)})
        BY <3>2, <3>4, TotalUnfolds
      <3>6. h[u] = IF u = {} THEN 0 ELSE f[First(u)] + Total(f, u \ {First(u)})
        BY <2>1, <3>2
      <3>. QED
        BY <3>1, <3>5, <3>6
    <2>3. h = [s \in SUBSET T |-> IF s = {} THEN 0 ELSE f[First(s)] + h[s \ {First(s)}]]
      BY <2>1, <2>2
    <2>4. Folds(f, T, h)
      BY <2>3 DEF Folds
    <2>. QED
      BY <1>1, <2>4
  <1>3. S \in Good
    BY <1>2, SetInduction
  <1>. QED
    BY <1>1, <1>3

LEMMA TotalStep ==
    ASSUME NEW f, NEW S, IsFiniteSet(S)
    PROVE  Total(f, S) = IF S = {} THEN 0 ELSE f[First(S)] + Total(f, S \ {First(S)})
  BY FoldsExists, TotalUnfolds, FS_RemoveElement

\* An empty sum is zero.
LEMMA TotalEmpty == \A f : Total(f, {}) = 0
  BY TotalStep, FS_EmptySet

\* A sum of integers is an integer, and one of natural numbers a natural one.
LEMMA TotalType ==
    ASSUME NEW N \in {Nat, Int}, NEW f, NEW S, IsFiniteSet(S), \A x \in S : f[x] \in N
    PROVE  Total(f, S) \in N
  <1>1. PICK Good : Good = {s \in SUBSET S : Total(f, s) \in N}
    OBVIOUS
  <1>2. ASSUME NEW s \in SUBSET S, IsFiniteSet(s), \A u \in SUBSET s : u # s => u \in Good
        PROVE  s \in Good
    <2>1. Total(f, s) = IF s = {} THEN 0 ELSE f[First(s)] + Total(f, s \ {First(s)})
      BY <1>2, TotalStep
    <2>2. CASE s = {}
      BY <1>1, <2>1, <2>2
    <2>3. CASE s # {}
      <3>1. First(s) \in s /\ f[First(s)] \in N
        BY <2>3, FirstIn
      <3>2. Total(f, s \ {First(s)}) \in N
        BY <1>1, <1>2, <3>1
      <3>3. \A a, b \in N : a + b \in N
        OBVIOUS
      <3>. QED
        BY <1>1, <2>1, <2>3, <3>1, <3>2, <3>3
    <2>. QED
      BY <2>2, <2>3
  <1>3. S \in Good
    BY <1>2, SetInduction
  <1>. QED
    BY <1>1, <1>3

\* A sum does not depend on the order: any element can be taken first.
LEMMA TotalTake ==
    ASSUME NEW f, NEW S, IsFiniteSet(S), \A y \in S : f[y] \in Int, NEW x \in S
    PROVE  Total(f, S) = f[x] + Total(f, S \ {x})
  <1>1. PICK Good : Good = {s \in SUBSET S : \A y \in s : Total(f, s) = f[y] + Total(f, s \ {y})}
    OBVIOUS
  <1>2. ASSUME NEW s \in SUBSET S, IsFiniteSet(s), \A u \in SUBSET s : u # s => u \in Good
        PROVE  s \in Good
    <2>1. SUFFICES ASSUME NEW y \in s PROVE Total(f, s) = f[y] + Total(f, s \ {y})
      BY <1>1
    <2>2. PICK z \in s : Total(f, s) = f[z] + Total(f, s \ {z})
      BY <1>2, TotalStep, FirstIn
    <2>3. CASE y = z
      BY <2>2, <2>3
    <2>4. CASE y # z
      <3>1. PICK rest : rest = (s \ {y}) \ {z}
        OBVIOUS
      <3>2. Total(f, s \ {z}) = f[y] + Total(f, rest)
        <4>1. s \ {z} \in Good /\ y \in s \ {z} /\ (s \ {z}) \ {y} = rest
          BY <1>2, <2>4, <3>1
        <4>. QED
          BY <1>1, <4>1
      <3>3. Total(f, s \ {y}) = f[z] + Total(f, rest)
        <4>1. s \ {y} \in Good /\ z \in s \ {y} /\ (s \ {y}) \ {z} = rest
          BY <1>2, <2>4, <3>1
        <4>. QED
          BY <1>1, <4>1
      <3>4. Total(f, rest) \in Int
        <4>1. IsFiniteSet(rest) /\ rest \subseteq S
          BY <1>2, <3>1, FS_Subset
        <4>. QED
          BY <4>1, TotalType
      <3>5. f[y] \in Int /\ f[z] \in Int
        OBVIOUS
      <3>6. Total(f, s) = f[z] + (f[y] + Total(f, rest)) /\ Total(f, s \ {y}) = f[z] + Total(f, rest)
        BY <2>2, <3>2, <3>3
      <3>. QED
        BY <3>4, <3>5, <3>6
    <2>. QED
      BY <2>3, <2>4
  <1>3. S \in Good
    BY <1>2, SetInduction
  <1>. QED
    BY <1>1, <1>3

\* One more element.
LEMMA TotalAdd ==
    ASSUME NEW f, NEW S, IsFiniteSet(S), NEW x, x \notin S,
           \A y \in S \cup {x} : f[y] \in Int
    PROVE  Total(f, S \cup {x}) = Total(f, S) + f[x]
  <1>1. PICK T : T = S \cup {x}
    OBVIOUS
  <1>2. IsFiniteSet(T) /\ T \ {x} = S /\ x \in T
    BY <1>1, FS_AddElement
  <1>3. Total(f, T) = f[x] + Total(f, T \ {x})
    BY <1>1, <1>2, TotalTake
  <1>4. Total(f, S) \in Int /\ f[x] \in Int
    BY TotalType
  <1>5. Total(f, T) = f[x] + Total(f, S)
    BY <1>2, <1>3
  <1>. QED
    BY <1>1, <1>4, <1>5

\* A sum depends on what it adds up alone, and grows with it.
LEMMA TotalCompare ==
    ASSUME NEW f, NEW g, NEW S, IsFiniteSet(S),
           \A x \in S : f[x] \in Int /\ g[x] \in Int
    PROVE  /\ (\A x \in S : f[x] = g[x]) => Total(f, S) = Total(g, S)
           /\ (\A x \in S : f[x] <= g[x]) => Total(f, S) <= Total(g, S)
           /\ (\A x \in S : f[x] = -g[x]) => Total(f, S) = -Total(g, S)
  <1>1. PICK Good : Good = {s \in SUBSET S :
            /\ (\A x \in s : f[x] = g[x]) => Total(f, s) = Total(g, s)
            /\ (\A x \in s : f[x] <= g[x]) => Total(f, s) <= Total(g, s)
            /\ (\A x \in s : f[x] = -g[x]) => Total(f, s) = -Total(g, s)}
    OBVIOUS
  <1>2. {} \in Good
    BY <1>1, TotalEmpty
  <1>3. ASSUME NEW T \in SUBSET S, NEW x \in S \ T, T \in Good
        PROVE  T \cup {x} \in Good
    <2>1. IsFiniteSet(T) /\ Total(f, T) \in Int /\ Total(g, T) \in Int
      BY FS_Subset, TotalType
    <2>2. Total(f, T \cup {x}) = Total(f, T) + f[x] /\ Total(g, T \cup {x}) = Total(g, T) + g[x]
      BY <2>1, TotalAdd
    <2>3. f[x] \in Int /\ g[x] \in Int
      OBVIOUS
    <2>. QED
      BY <1>1, <1>3, <2>1, <2>2, <2>3
  <1>4. S \in Good
    BY <1>2, <1>3, Elementwise
  <1>. QED
    BY <1>1, <1>4

\* A sum splits along a split of its set, and what is not negative makes it grow.
LEMMA TotalUnion ==
    ASSUME NEW f, NEW S, NEW T, IsFiniteSet(S), IsFiniteSet(T), S \cap T = {},
           \A x \in S \cup T : f[x] \in Int
    PROVE  Total(f, S \cup T) = Total(f, S) + Total(f, T)
  <1>1. PICK Good : Good = {U \in SUBSET T : Total(f, S \cup U) = Total(f, S) + Total(f, U)}
    OBVIOUS
  <1>2. Total(f, S) \in Int
    BY TotalType
  <1>3. {} \in Good
    <2>1. S \cup {} = S
      OBVIOUS
    <2>. QED
      BY <1>1, <1>2, <2>1, TotalEmpty
  <1>4. ASSUME NEW U \in SUBSET T, NEW x \in T \ U, U \in Good
        PROVE  U \cup {x} \in Good
    <2>1. IsFiniteSet(U) /\ Total(f, U) \in Int /\ f[x] \in Int
      BY FS_Subset, TotalType
    <2>2. IsFiniteSet(S \cup U) /\ x \notin S \cup U
      BY <2>1, FS_Union
    <2>3. Total(f, U \cup {x}) = Total(f, U) + f[x]
      BY <2>1, TotalAdd
    <2>4. Total(f, (S \cup U) \cup {x}) = Total(f, S \cup U) + f[x]
      BY <2>2, TotalAdd
    <2>5. (S \cup U) \cup {x} = S \cup (U \cup {x}) /\ U \cup {x} \in SUBSET T
      OBVIOUS
    <2>6. Total(f, S \cup U) = Total(f, S) + Total(f, U)
      BY <1>1, <1>4
    <2>7. Total(f, S \cup U) + f[x] = Total(f, S) + Total(f, U \cup {x})
      BY <1>2, <2>1, <2>3, <2>6
    <2>. QED
      BY <1>1, <2>4, <2>5, <2>7
  <1>5. T \in Good
    BY <1>3, <1>4, Elementwise
  <1>. QED
    BY <1>1, <1>5

\* What is added beyond a part, at least nothing, and nothing if it is all zero.
LEMMA TotalPart ==
    ASSUME NEW f, NEW S, IsFiniteSet(S), NEW T \in SUBSET S, \A x \in S : f[x] \in Int
    PROVE  /\ (\A x \in S \ T : f[x] >= 0) => Total(f, T) <= Total(f, S)
           /\ (\A x \in S \ T : f[x] = 0) => Total(f, T) = Total(f, S)
  <1>1. PICK U : U = S \ T
    OBVIOUS
  <1>2. IsFiniteSet(T) /\ IsFiniteSet(U) /\ T \cap U = {} /\ T \cup U = S
    BY <1>1, FS_Subset
  <1>3. Total(f, S) = Total(f, T) + Total(f, U)
    BY <1>2, TotalUnion
  <1>4. Total(f, T) \in Int /\ Total(f, U) \in Int
    BY <1>1, <1>2, TotalType
  <1>5. (\A x \in U : f[x] >= 0) => Total(f, U) >= 0
    <2>1. ASSUME \A x \in U : f[x] >= 0 PROVE Total(f, U) \in Nat
      <3>1. \A x \in U : f[x] \in Nat
        BY <1>1, <2>1
      <3>. QED
        BY <1>2, <3>1, TotalType
    <2>. QED
      BY <2>1
  <1>6. (\A x \in U : f[x] = 0) => Total(f, U) = 0
    <2>1. ASSUME \A x \in U : f[x] = 0 PROVE Total(f, U) = -Total(f, U)
      <3>1. \A x \in U : f[x] \in Int /\ f[x] = -f[x]
        BY <2>1
      <3>. QED
        BY <1>2, <3>1, TotalCompare
    <2>. QED
      BY <1>4, <2>1
  <1>7. (\A x \in S \ T : f[x] >= 0) => Total(f, T) <= Total(f, S)
    BY <1>1, <1>3, <1>4, <1>5
  <1>8. (\A x \in S \ T : f[x] = 0) => Total(f, T) = Total(f, S)
    BY <1>1, <1>3, <1>4, <1>6
  <1>. QED
    BY <1>7, <1>8

\* The sum of differences is the difference of the sums.
LEMMA TotalMinus ==
    ASSUME NEW f, NEW g, NEW h, NEW S, IsFiniteSet(S),
           \A x \in S : f[x] \in Int /\ g[x] \in Int /\ h[x] \in Int /\ f[x] = g[x] - h[x]
    PROVE  Total(f, S) = Total(g, S) - Total(h, S)
  <1>1. PICK Good : Good = {T \in SUBSET S : Total(f, T) = Total(g, T) - Total(h, T)}
    OBVIOUS
  <1>2. {} \in Good
    BY <1>1, TotalEmpty
  <1>3. ASSUME NEW T \in SUBSET S, NEW x \in S \ T, T \in Good
        PROVE  T \cup {x} \in Good
    <2>1. /\ IsFiniteSet(T)
          /\ Total(f, T) \in Int /\ Total(g, T) \in Int /\ Total(h, T) \in Int
      BY FS_Subset, TotalType
    <2>2. /\ Total(f, T \cup {x}) = Total(f, T) + f[x]
          /\ Total(g, T \cup {x}) = Total(g, T) + g[x]
          /\ Total(h, T \cup {x}) = Total(h, T) + h[x]
      BY <2>1, TotalAdd
    <2>3. f[x] \in Int /\ g[x] \in Int /\ h[x] \in Int /\ f[x] = g[x] - h[x]
      OBVIOUS
    <2>. QED
      BY <1>1, <1>3, <2>1, <2>2, <2>3
  <1>4. S \in Good
    BY <1>2, <1>3, Elementwise
  <1>. QED
    BY <1>1, <1>4

\* Summed by groups, and then over the groups, a set gives its sum.
LEMMA TotalByGroup ==
    ASSUME NEW f, NEW S, IsFiniteSet(S), \A x \in S : f[x] \in Int,
           NEW K, IsFiniteSet(K), NEW key, \A x \in S : key[x] \in K,
           NEW group, \A k \in K : \A x : x \in group[k] <=> x \in S /\ key[x] = k,
           NEW g, \A k \in K : g[k] = Total(f, group[k])
    PROVE  Total(g, K) = Total(f, S)
  <1>1. PICK Good :
           Good = {L \in SUBSET K : Total(g, L) = Total(f, {x \in S : key[x] \in L})}
    OBVIOUS
  <1>2. {} \in Good
    <2>1. {x \in S : key[x] \in {}} = {}
      OBVIOUS
    <2>. QED
      BY <1>1, <2>1, TotalEmpty
  <1>3. \A k \in K : g[k] \in Int
    <2>1. ASSUME NEW k \in K PROVE g[k] \in Int
      <3>1. IsFiniteSet(group[k]) /\ group[k] \subseteq S
        BY FS_Subset
      <3>. QED
        BY <3>1, TotalType
    <2>. QED
      BY <2>1
  <1>4. ASSUME NEW L \in SUBSET K, NEW k \in K \ L, L \in Good
        PROVE  L \cup {k} \in Good
    <2>1. PICK U : U = {x \in S : key[x] \in L}
      OBVIOUS
    <2>2. PICK V : V = group[k]
      OBVIOUS
    <2>3. U \subseteq S /\ V \subseteq S /\ U \cap V = {} /\ U \cup V \subseteq S
      <3>1. \A x : x \in V <=> x \in S /\ key[x] = k
        BY <2>2
      <3>. QED
        BY <2>1, <3>1
    <2>4. {x \in S : key[x] \in L \cup {k}} = U \cup V
      <3>1. \A x : x \in V <=> x \in S /\ key[x] = k
        BY <2>2
      <3>. QED
        BY <2>1, <3>1
    <2>5. IsFiniteSet(U) /\ IsFiniteSet(V)
      BY <2>3, FS_Subset
    <2>6. \A x \in U \cup V : f[x] \in Int
      BY <2>3
    <2>7. Total(f, U \cup V) = Total(f, U) + Total(f, V)
      BY <2>3, <2>5, <2>6, TotalUnion
    <2>8. IsFiniteSet(L)
      BY FS_Subset
    <2>9. Total(g, L \cup {k}) = Total(g, L) + g[k]
      BY <1>3, <2>8, TotalAdd
    <2>10. Total(g, L) = Total(f, U) /\ g[k] = Total(f, V)
      BY <1>1, <1>4, <2>1, <2>2
    <2>. QED
      BY <1>1, <2>4, <2>7, <2>9, <2>10
  <1>5. K \in Good
    BY <1>2, <1>4, Elementwise
  <1>6. {x \in S : key[x] \in K} = S
    OBVIOUS
  <1>. QED
    BY <1>1, <1>5, <1>6

\* When every element has one of its own that is worth as much, so have their sums.
LEMMA TotalMatched ==
    ASSUME NEW S, NEW T, IsFiniteSet(S), IsFiniteSet(T), NEW match,
           \A x \in S : match[x] \in T,
           \A x, y \in S : match[x] = match[y] => x = y,
           NEW f, NEW g, \A x \in S : f[x] \in Int /\ f[x] <= g[match[x]],
           \A x \in T : g[x] \in Nat
    PROVE  Total(f, S) <= Total(g, T)
  <1>1. PICK Good : Good = {U \in SUBSET S : Total(f, U) <= Total(g, {match[x] : x \in U})}
    OBVIOUS
  <1>2. {} \in Good
    <2>1. {match[x] : x \in {}} = {}
      OBVIOUS
    <2>. QED
      BY <1>1, <2>1, TotalEmpty
  <1>3. ASSUME NEW U \in SUBSET S, NEW x \in S \ U, U \in Good
        PROVE  U \cup {x} \in Good
    <2>1. PICK V : V = {match[y] : y \in U}
      OBVIOUS
    <2>2. /\ V \subseteq T /\ match[x] \notin V /\ match[x] \in T
          /\ {match[y] : y \in U \cup {x}} = V \cup {match[x]}
      BY <2>1
    <2>3. IsFiniteSet(U) /\ IsFiniteSet(V) /\ Total(f, U) \in Int /\ Total(g, V) \in Int
      <3>1. IsFiniteSet(U) /\ IsFiniteSet(V)
        BY <2>2, FS_Subset
      <3>2. Total(f, U) \in Int
        BY <3>1, TotalType
      <3>3. \A y \in V : g[y] \in Int
        BY <2>2
      <3>. QED
        BY <3>1, <3>2, <3>3, TotalType
    <2>4. Total(f, U \cup {x}) = Total(f, U) + f[x]
      BY <2>3, TotalAdd
    <2>5. Total(g, V \cup {match[x]}) = Total(g, V) + g[match[x]]
      <3>1. \A y \in V \cup {match[x]} : g[y] \in Int
        BY <2>2
      <3>. QED
        BY <2>2, <2>3, <3>1, TotalAdd
    <2>6. f[x] \in Int /\ f[x] <= g[match[x]] /\ g[match[x]] \in Int
      BY <2>2
    <2>7. Total(f, U) <= Total(g, V)
      BY <1>1, <1>3, <2>1
    <2>8. Total(f, U \cup {x}) <= Total(g, V \cup {match[x]})
      BY <2>3, <2>4, <2>5, <2>6, <2>7
    <2>9. U \cup {x} \in SUBSET S
      OBVIOUS
    <2>. QED
      BY <1>1, <2>2, <2>8, <2>9
  <1>4. S \in Good
    BY <1>2, <1>3, Elementwise
  <1>5. Total(f, S) <= Total(g, {match[x] : x \in S})
    BY <1>1, <1>4
  <1>6. PICK V : V = {match[x] : x \in S}
    OBVIOUS
  <1>7. V \in SUBSET T /\ \A x \in T : g[x] \in Int /\ g[x] >= 0
    BY <1>6
  <1>8. Total(g, V) <= Total(g, T)
    BY <1>7, TotalPart
  <1>9. Total(f, S) \in Int /\ Total(g, V) \in Int /\ Total(g, T) \in Int
    <2>1. IsFiniteSet(V) /\ \A x \in V : g[x] \in Int
      BY <1>7, FS_Subset
    <2>2. Total(f, S) \in Int
      BY TotalType
    <2>3. Total(g, V) \in Int
      BY <2>1, TotalType
    <2>4. Total(g, T) \in Int
      BY <1>7, TotalType
    <2>. QED
      BY <2>2, <2>3, <2>4
  <1>. QED
    BY <1>5, <1>6, <1>8, <1>9

-----------------------------------------------------------------------------
(* The sums of the summary                                                   *)

Fields == {"gross", "refund", "net"}

Amount == [p \in Payment |-> p.amount]
Taken  == [p \in Payment |-> IF p.amount > 0 THEN p.amount ELSE 0]
Given  == [p \in Payment |-> IF p.amount < 0 THEN -p.amount ELSE 0]

\* What a field of a bucket adds up.
Part(field) == IF field = "gross" THEN Taken ELSE IF field = "refund" THEN Given ELSE Amount

LEMMA PartType ==
    ASSUME NEW p \in Payment
    PROVE  /\ Taken[p] \in Nat /\ Given[p] \in Nat /\ Amount[p] \in Int
           /\ Amount[p] = Taken[p] - Given[p]
  <1>1. p.amount \in Int
    BY DEF Payment
  <1>. QED
    BY <1>1 DEF Taken, Given, Amount

LEMMA SumIs ==
    ASSUME NEW S \in SUBSET Payment, IsFiniteSet(S)
    PROVE  Sum(S) = Total(Amount, S)
  <1>1. PICK fun : fun = [p \in S |-> p.amount]
    OBVIOUS
  <1>2. Sum(S) = Total(fun, S)
    BY <1>1 DEF Sum, SumFunction, Total
  <1>3. \A p \in S : p.amount \in Int
    BY DEF Payment
  <1>4. \A p \in S : fun[p] \in Int /\ Amount[p] \in Int /\ fun[p] = Amount[p]
    BY <1>1, <1>3 DEF Amount
  <1>. QED
    BY <1>2, <1>4, TotalCompare

\* A bucket adds up what was taken, what was given back and the difference.
LEMMA SumsAre ==
    ASSUME NEW S \in SUBSET Payment, IsFiniteSet(S)
    PROVE  /\ Sums(S) \in Bucket
           /\ Sums(S).gross = Total(Taken, S)
           /\ Sums(S).refund = Total(Given, S)
           /\ Sums(S).net = Total(Amount, S)
           /\ Sums(S).net = Sums(S).gross - Sums(S).refund
  <1>1. \A p \in S : p.amount \in Int
    BY DEF Payment
  <1>2. Sum({p \in S : p.amount > 0}) = Total(Taken, S)
    <2>1. PICK T : T = {p \in S : p.amount > 0}
      OBVIOUS
    <2>2. T \in SUBSET S /\ T \in SUBSET Payment /\ IsFiniteSet(T)
      BY <2>1, FS_Subset
    <2>3. Sum(T) = Total(Amount, T)
      BY <2>2, SumIs
    <2>4. \A p \in T : Amount[p] \in Int /\ Taken[p] \in Int /\ Amount[p] = Taken[p]
      BY <1>1, <2>1 DEF Amount, Taken
    <2>5. Total(Amount, T) = Total(Taken, T)
      BY <2>2, <2>4, TotalCompare
    <2>6. (\A p \in S : Taken[p] \in Int) /\ \A p \in S \ T : Taken[p] = 0
      BY <1>1, <2>1 DEF Taken
    <2>7. Total(Taken, T) = Total(Taken, S)
      BY <2>2, <2>6, TotalPart
    <2>. QED
      BY <2>1, <2>3, <2>5, <2>7
  <1>3. -Sum({p \in S : p.amount < 0}) = Total(Given, S)
    <2>1. PICK T : T = {p \in S : p.amount < 0}
      OBVIOUS
    <2>2. T \in SUBSET S /\ T \in SUBSET Payment /\ IsFiniteSet(T)
      BY <2>1, FS_Subset
    <2>3. Sum(T) = Total(Amount, T)
      BY <2>2, SumIs
    <2>4. \A p \in T : Given[p] \in Int /\ Amount[p] \in Int /\ Given[p] = -Amount[p]
      BY <1>1, <2>1 DEF Amount, Given
    <2>5. Total(Given, T) = -Total(Amount, T)
      BY <2>2, <2>4, TotalCompare
    <2>6. (\A p \in S : Given[p] \in Int) /\ \A p \in S \ T : Given[p] = 0
      BY <1>1, <2>1 DEF Given
    <2>7. Total(Given, T) = Total(Given, S)
      BY <2>2, <2>6, TotalPart
    <2>. QED
      BY <2>1, <2>3, <2>5, <2>7
  <1>4. Sum(S) = Total(Amount, S)
    BY SumIs
  <1>5. Total(Taken, S) \in Nat /\ Total(Given, S) \in Nat /\ Total(Amount, S) \in Int
    <2>1. \A p \in S : Taken[p] \in Nat /\ Given[p] \in Nat /\ Amount[p] \in Int
      BY PartType
    <2>. QED
      BY <2>1, TotalType
  <1>6. Total(Amount, S) = Total(Taken, S) - Total(Given, S)
    <2>1. \A p \in S : /\ Amount[p] \in Int /\ Taken[p] \in Int /\ Given[p] \in Int
                       /\ Amount[p] = Taken[p] - Given[p]
      BY PartType
    <2>. QED
      BY <2>1, TotalMinus
  <1>7. Sums(S) = [gross |-> Total(Taken, S), refund |-> Total(Given, S), net |-> Total(Amount, S)]
    BY <1>2, <1>3, <1>4 DEF Sums
  <1>. QED
    BY <1>5, <1>6, <1>7 DEF Bucket

LEMMA FieldIs ==
    ASSUME NEW S \in SUBSET Payment, IsFiniteSet(S), NEW field \in Fields
    PROVE  Sums(S)[field] = Total(Part(field), S) /\ Sums(S)[field] \in Int
  <1>1. CASE field = "gross"
    BY <1>1, SumsAre DEF Part, Bucket
  <1>2. CASE field = "refund"
    BY <1>2, SumsAre DEF Part, Bucket
  <1>3. CASE field = "net"
    BY <1>3, SumsAre DEF Part, Bucket
  <1>. QED
    BY <1>1, <1>2, <1>3 DEF Fields

\* More payments: more taken, and more given back.
LEMMA SumsGrow ==
    ASSUME NEW T \in SUBSET Payment, IsFiniteSet(T), NEW S \in SUBSET T
    PROVE  Sums(S).gross <= Sums(T).gross /\ Sums(S).refund <= Sums(T).refund
  <1>1. IsFiniteSet(S) /\ S \in SUBSET Payment
    BY FS_Subset
  <1>2. \A p \in T : Taken[p] \in Int /\ Taken[p] >= 0 /\ Given[p] \in Int /\ Given[p] >= 0
    BY PartType
  <1>3. Total(Taken, S) <= Total(Taken, T)
    BY <1>2, TotalPart
  <1>4. Total(Given, S) <= Total(Given, T)
    BY <1>2, TotalPart
  <1>. QED
    BY <1>1, <1>3, <1>4, SumsAre

\* The sums by method add up to the sum, and so do those by day.
LEMMA OverMethodsIs ==
    ASSUME NEW S \in SUBSET Payment, IsFiniteSet(S), NEW field \in Fields,
           byMethod = [m \in Methods |-> Sums(Of(S, m))]
    PROVE  OverMethods(field) = Sums(S)[field]
  <1>1. PICK f : f = Part(field)
    OBVIOUS
  <1>2. PICK g : g = [m \in Methods |-> byMethod[m][field]]
    OBVIOUS
  <1>3. OverMethods(field) = Total(g, Methods)
    BY <1>2 DEF OverMethods, SumFunction, Total
  <1>4. PICK key : key = [p \in Payment |-> p.method]
    OBVIOUS
  <1>5. \A p \in S : key[p] \in Methods
    BY <1>4 DEF Payment
  <1>6. PICK group : group = [m \in Methods |-> Of(S, m)]
    OBVIOUS
  <1>7. ASSUME NEW m \in Methods
        PROVE  /\ g[m] = Total(f, group[m])
               /\ \A p : p \in group[m] <=> p \in S /\ key[p] = m
    <2>1. group[m] = Of(S, m) /\ \A p : p \in Of(S, m) <=> p \in S /\ key[p] = m
      BY <1>4, <1>6 DEF Of
    <2>2. IsFiniteSet(Of(S, m)) /\ Of(S, m) \in SUBSET Payment
      BY FS_Subset DEF Of
    <2>3. g[m] = Sums(Of(S, m))[field]
      BY <1>2
    <2>. QED
      BY <1>1, <2>1, <2>2, <2>3, FieldIs
  <1>8. \A p \in S : f[p] \in Int
    BY <1>1, PartType DEF Part
  <1>9. IsFiniteSet(Methods)
    BY SalesAssumption DEF SalesAssumption
  <1>10. Total(g, Methods) = Total(f, S)
    BY <1>5, <1>7, <1>8, <1>9, TotalByGroup
  <1>. QED
    BY <1>1, <1>3, <1>10, FieldIs

LEMMA OverDaysIs ==
    ASSUME NEW S \in SUBSET Payment, IsFiniteSet(S), NEW field \in Fields, NEW m \in Methods,
           byDay = [d \in Days |-> [n \in Methods |-> Sums(Of(On(S, d), n))]]
    PROVE  OverDays(m, field) = Sums(Of(S, m))[field]
  <1>1. PICK f : f = Part(field)
    OBVIOUS
  <1>2. PICK g : g = [d \in Days |-> byDay[d][m][field]]
    OBVIOUS
  <1>3. OverDays(m, field) = Total(g, Days)
    BY <1>2 DEF OverDays, SumFunction, Total
  <1>4. PICK key : key = [p \in Payment |-> p.day]
    OBVIOUS
  <1>5. PICK T : T = Of(S, m)
    OBVIOUS
  <1>6. IsFiniteSet(T) /\ T \in SUBSET Payment
    BY <1>5, FS_Subset DEF Of
  <1>7. \A p \in T : key[p] \in Days
    BY <1>4, <1>6 DEF Payment
  <1>8. PICK group : group = [d \in Days |-> Of(On(S, d), m)]
    OBVIOUS
  <1>9. ASSUME NEW d \in Days
        PROVE  /\ g[d] = Total(f, group[d])
               /\ \A p : p \in group[d] <=> p \in T /\ key[p] = d
    <2>1. PICK U : U = Of(On(S, d), m)
      OBVIOUS
    <2>2. group[d] = U /\ \A p : p \in U <=> p \in T /\ key[p] = d
      BY <1>4, <1>5, <1>6, <1>8, <2>1 DEF Of, On
    <2>3. IsFiniteSet(U) /\ U \in SUBSET Payment
      BY <1>6, <2>2, FS_Subset
    <2>4. g[d] = Sums(U)[field]
      BY <1>2, <2>1
    <2>. QED
      BY <1>1, <2>2, <2>3, <2>4, FieldIs
  <1>10. \A p \in T : f[p] \in Int
    BY <1>1, <1>6, PartType DEF Part
  <1>11. IsFiniteSet(Days)
    BY SalesAssumption DEF SalesAssumption
  <1>12. Total(g, Days) = Total(f, T)
    BY <1>6, <1>7, <1>9, <1>10, <1>11, TotalByGroup
  <1>. QED
    BY <1>1, <1>3, <1>5, <1>6, <1>12, FieldIs

-----------------------------------------------------------------------------
(* Payments                                                                  *)

LEMMA SalesConsts ==
    /\ Amounts \subseteq Nat \ {0} /\ Days \subseteq Nat /\ MaxInt \in Nat
  BY SalesAssumption DEF SalesAssumption

\* What the invariant says of the payments, and of a part of them.
LEMMA Paid ==
    ASSUME SalesInv
    PROVE  /\ payments \in SUBSET Payment /\ IsFiniteSet(payments)
           /\ \A S \in SUBSET payments :
                 /\ S \in SUBSET Payment /\ IsFiniteSet(S)
                 /\ Within(S) \in SUBSET S /\ Within(S) \in SUBSET Payment
                 /\ IsFiniteSet(Within(S))
           /\ Within(payments) = Selected
  <1>1. payments \in SUBSET Payment /\ IsFiniteSet(payments)
    BY DEF SalesInv, SalesTypeOK
  <1>2. ASSUME NEW S \in SUBSET payments
        PROVE  /\ S \in SUBSET Payment /\ IsFiniteSet(S)
               /\ Within(S) \in SUBSET S /\ Within(S) \in SUBSET Payment
               /\ IsFiniteSet(Within(S))
    <2>1. IsFiniteSet(S) /\ S \in SUBSET Payment
      BY <1>1, FS_Subset
    <2>2. Within(S) \in SUBSET S
      BY DEF Within
    <2>. QED
      BY <2>1, <2>2, FS_Subset
  <1>3. Within(payments) = Selected
    BY DEF Within, Selected
  <1>. QED
    BY <1>1, <1>2, <1>3

\* The tables the statements found.
LEMMA Tables ==
    ASSUME SalesInv
    PROVE  \E first, second, third :
              /\ third \in SUBSET payments /\ second \in SUBSET third /\ first \in SUBSET second
              /\ Mirrored(second)
              /\ quiet /\ ask.step \in {"methods", "days", "done"} => Within(first) = Selected
              /\ Read(first, second, third)
  BY DEF SalesInv, PartsRead

LEMMA SalesInitially == SalesInit => SalesInv
  <1> SUFFICES ASSUME SalesInit PROVE SalesInv
    OBVIOUS
  <1>1. SalesTypeOK
    BY DEF SalesInit, SalesTypeOK, Steps
  <1>2. payments = {} /\ IsFiniteSet(payments)
    BY FS_EmptySet DEF SalesInit
  <1>3. Mirrored(payments) /\ \A p \in payments : p.amount # 0
    BY <1>2 DEF Mirrored
  <1>4. ask.step = "idle"
    BY DEF SalesInit
  <1>5. PartsRead
    BY <1>3, <1>4 DEF PartsRead, Read
  <1>. QED
    BY <1>1, <1>2, <1>3, <1>4, <1>5 DEF SalesInv, TotalFits

LEMMA MidnightStep ==
    ASSUME SalesInv, today' \in Days, UNCHANGED <<payments, askVars, quiet>>
    PROVE  SalesInv'
  <1>1. UNCHANGED <<payments, ask, total, byMethod, byDay, quiet>>
    BY DEF askVars
  <1>2. SalesTypeOK'
    BY <1>1 DEF SalesInv, SalesTypeOK
  <1>3. PartsRead'
    <2>1. PICK first, second, third :
             /\ third \in SUBSET payments /\ second \in SUBSET third /\ first \in SUBSET second
             /\ Mirrored(second)
             /\ quiet /\ ask.step \in {"methods", "days", "done"} => Within(first) = Selected
             /\ Read(first, second, third)
      BY Tables
    <2>2. Selected' = Selected /\ \A S : Within(S)' = Within(S)
      BY <1>1 DEF Within, Selected, InRange
    <2>3. Read(first, second, third)'
      BY <1>1, <2>1, <2>2 DEF Read
    <2>. QED
      BY <1>1, <2>1, <2>2, <2>3 DEF PartsRead
  <1>4. TotalFits'
    BY <1>1 DEF SalesInv, TotalFits, Fits, askVars
  <1>. QED
    BY <1>1, <1>2, <1>3, <1>4 DEF SalesInv, Mirrored

\* A payment more: a grant, or a refund that stands beside its grant.
LEMMA InsertPaymentStep ==
    ASSUME SalesInv, NEW m \in Memberships, NEW amount \in Int, amount # 0,
           NEW method \in Methods, NEW day \in Days,
           InsertPayment(m, amount, method, day),
           amount < 0 => \E q \in payments : /\ q.membership = m /\ q.method = method
                                             /\ q.amount = -amount /\ q.day <= day
    PROVE  SalesInv'
  <1>1. PICK p : p = [id |-> Cardinality(payments) + 1, membership |-> m, amount |-> amount,
                      method |-> method, day |-> day]
    OBVIOUS
  <1>2. /\ payments' = payments \cup {p} /\ UNCHANGED <<today, ask, total, byMethod, byDay>>
        /\ quiet' = (ask.step \in {"idle", "totals"} \/ (quiet /\ ~InRange(p)))
    BY <1>1 DEF InsertPayment, askVars
  <1>3. p \in Payment /\ p.amount # 0
    <2>1. Cardinality(payments) + 1 \in Nat
      BY Paid, FS_CardinalityType
    <2>. QED
      BY <1>1, <2>1 DEF Payment
  <1>4. SalesTypeOK'
    BY <1>2, <1>3 DEF SalesInv, SalesTypeOK
  <1>5. IsFiniteSet(payments') /\ \A q \in payments' : q.amount # 0
    BY <1>2, <1>3, FS_AddElement DEF SalesInv
  <1>6. Mirrored(payments')
    BY <1>1, <1>2 DEF SalesInv, Mirrored
  <1>7. (\A q : InRange(q)' <=> InRange(q)) /\ \A S : Within(S)' = Within(S)
    BY <1>2 DEF InRange, Within
  <1>8. Selected \in SUBSET Selected'
        /\ (quiet' /\ ask.step \in {"methods", "days", "done"} => quiet /\ Selected' = Selected)
    BY <1>2, <1>7 DEF Selected
  <1>9. PartsRead'
    <2>1. PICK first, second, third :
             /\ third \in SUBSET payments /\ second \in SUBSET third /\ first \in SUBSET second
             /\ Mirrored(second)
             /\ quiet /\ ask.step \in {"methods", "days", "done"} => Within(first) = Selected
             /\ Read(first, second, third)
      BY Tables
    <2>2. Read(first, second, third)'
      BY <1>2, <1>7, <2>1 DEF Read
    <2>3. quiet' /\ ask'.step \in {"methods", "days", "done"} => Within(first)' = Selected'
      BY <1>2, <1>7, <1>8, <2>1
    <2>4. third \in SUBSET payments'
      BY <1>2, <2>1
    <2>. QED
      BY <2>1, <2>2, <2>3, <2>4 DEF PartsRead
  <1>10. TotalFits'
    BY <1>2 DEF SalesInv, TotalFits, Fits
  <1>. QED
    BY <1>4, <1>5, <1>6, <1>9, <1>10 DEF SalesInv

LEMMA GrantStep ==
    ASSUME SalesInv, NEW m \in Memberships, Grant(m)
    PROVE  SalesInv'
  <1>1. PICK amount \in Amounts, method \in Methods, day \in PaidAt :
           InsertPayment(m, amount, method, day)
    BY DEF Grant
  <1>2. day \in Days /\ amount \in Int /\ amount # 0 /\ ~(amount < 0)
    BY SalesConsts DEF PaidAt
  <1>. QED
    BY <1>1, <1>2, InsertPaymentStep

LEMMA RefundStep ==
    ASSUME SalesInv, NEW m \in Memberships, Refund(m)
    PROVE  SalesInv'
  <1>1. PICK orig \in GrantOf(m), day \in PaidAt :
           orig.day <= day /\ InsertPayment(m, -orig.amount, orig.method, day)
    BY DEF Refund
  <1>2. orig \in payments /\ orig.membership = m /\ orig.amount > 0
    BY DEF GrantOf
  <1>3. orig.method \in Methods /\ orig.amount \in Int
    BY <1>2, Paid DEF Payment
  <1>4. day \in Days /\ -orig.amount \in Int /\ -orig.amount # 0 /\ orig.amount = -(-orig.amount)
    BY <1>2, <1>3 DEF PaidAt
  <1>. QED
    BY <1>1, <1>2, <1>3, <1>4, InsertPaymentStep

-----------------------------------------------------------------------------
(* The three statements                                                      *)

\* The statements leave the payments alone; ask moves on over the same range.
Moves(step) ==
    /\ ask' = [ask EXCEPT !.step = step]
    /\ UNCHANGED <<today, payments, quiet>>

LEMMA Moved ==
    ASSUME SalesInv, NEW step \in Steps, Moves(step)
    PROVE  /\ ask' \in [step : Steps, from : Days, to : Days] /\ ask'.step = step
           /\ IsFiniteSet(payments') /\ (\A p \in payments' : p.amount # 0)
           /\ Mirrored(payments') /\ Mirrored(payments)
           /\ Selected' = Selected /\ \A S : Within(S)' = Within(S)
  <1>1. ask \in [step : Steps, from : Days, to : Days]
    BY DEF SalesInv, SalesTypeOK
  <1>2. /\ ask' \in [step : Steps, from : Days, to : Days] /\ ask'.step = step
        /\ ask'.from = ask.from /\ ask'.to = ask.to
    BY <1>1 DEF Moves
  <1>3. Selected' = Selected /\ \A S : Within(S)' = Within(S)
    BY <1>2 DEF Moves, Selected, Within, InRange
  <1>. QED
    BY <1>2, <1>3 DEF Moves, SalesInv, Mirrored

LEMMA RequestStep ==
    ASSUME SalesInv, Request
    PROVE  SalesInv'
  <1>1. Moves("totals") /\ UNCHANGED <<total, byMethod, byDay>>
    BY DEF Request, Moves
  <1>2. "totals" \in Steps
    BY DEF Steps
  <1>3. SalesTypeOK'
    BY <1>1, <1>2, Moved DEF SalesInv, SalesTypeOK, Moves
  <1>4. PartsRead'
    <2>1. ask'.step = "totals" /\ Mirrored({})
      BY <1>1, <1>2, Moved DEF Mirrored
    <2>2. Read({}, {}, {})'
      BY <2>1 DEF Read
    <2>. QED
      BY <2>1, <2>2 DEF PartsRead
  <1>5. TotalFits'
    BY <1>1, <1>2, Moved DEF TotalFits
  <1>. QED
    BY <1>1, <1>2, <1>3, <1>4, <1>5, Moved DEF SalesInv

LEMMA FailStep ==
    ASSUME SalesInv, Fail
    PROVE  SalesInv'
  <1>1. Moves("failed") /\ UNCHANGED <<total, byMethod, byDay>>
    BY DEF Fail, Moves
  <1>2. "failed" \in Steps
    BY DEF Steps
  <1>3. SalesTypeOK'
    BY <1>1, <1>2, Moved DEF SalesInv, SalesTypeOK, Moves
  <1>4. PartsRead'
    <2>1. ask'.step = "failed" /\ Mirrored({})
      BY <1>1, <1>2, Moved DEF Mirrored
    <2>2. Read({}, {}, {})'
      BY <2>1 DEF Read
    <2>. QED
      BY <2>1, <2>2 DEF PartsRead
  <1>5. TotalFits'
    BY <1>1, <1>2, Moved DEF TotalFits
  <1>. QED
    BY <1>1, <1>2, <1>3, <1>4, <1>5, Moved DEF SalesInv

LEMMA TotalsStep ==
    ASSUME SalesInv, Totals
    PROVE  SalesInv'
  <1>1. /\ Moves("methods") /\ total' = Sums(Selected) /\ UNCHANGED <<byMethod, byDay>>
        /\ Fits(Sums(Selected))
    BY DEF Totals, Moves
  <1>2. "methods" \in Steps
    BY DEF Steps
  <1>3. Sums(Selected) \in Bucket
    BY Paid, SumsAre
  <1>4. SalesTypeOK'
    BY <1>1, <1>2, <1>3, Moved DEF SalesInv, SalesTypeOK, Moves
  <1>5. PartsRead'
    <2>1. /\ ask'.step = "methods" /\ Mirrored(payments) /\ payments' = payments
          /\ Within(payments)' = Selected' /\ Selected' = Selected
      BY <1>1, <1>2, Moved, Paid DEF Moves
    <2>2. Read(payments, payments, payments)'
      BY <1>1, <2>1 DEF Read
    <2>. QED
      BY <2>1, <2>2 DEF PartsRead
  <1>6. TotalFits'
    <2>1. PICK b : b = Sums(Selected)
      OBVIOUS
    <2>2. total' = b /\ Fits(b)
      BY <1>1, <2>1
    <2>. QED
      BY <2>2 DEF TotalFits, Fits
  <1>. QED
    BY <1>1, <1>2, <1>4, <1>5, <1>6, Moved DEF SalesInv

LEMMA ByMethodStep ==
    ASSUME SalesInv, ByMethod
    PROVE  SalesInv'
  <1>1. PICK sums : sums = [m \in Methods |-> Sums(Of(Selected, m))]
    OBVIOUS
  <1>2. sums \in [Methods -> Bucket]
    <2>1. ASSUME NEW m \in Methods PROVE Sums(Of(Selected, m)) \in Bucket
      <3>1. Of(Selected, m) \in SUBSET Selected
        BY DEF Of
      <3>2. Of(Selected, m) \in SUBSET Payment /\ IsFiniteSet(Of(Selected, m))
        BY <3>1, Paid, FS_Subset
      <3>. QED
        BY <3>2, SumsAre
    <2>. QED
      BY <1>1, <2>1
  <1>3. ask.step = "methods" /\ Moves("days") /\ byMethod' = sums /\ UNCHANGED <<total, byDay>>
    BY <1>1 DEF ByMethod, Moves
  <1>4. "days" \in Steps
    BY DEF Steps
  <1>5. SalesTypeOK'
    BY <1>2, <1>3, <1>4, Moved DEF SalesInv, SalesTypeOK, Moves
  <1>6. PartsRead'
    <2>1. PICK first, second, third :
             /\ third \in SUBSET payments /\ second \in SUBSET third /\ first \in SUBSET second
             /\ Mirrored(second)
             /\ quiet /\ ask.step \in {"methods", "days", "done"} => Within(first) = Selected
             /\ Read(first, second, third)
      BY Tables
    <2>2. /\ ask'.step = "days" /\ Mirrored(payments) /\ payments' = payments /\ quiet' = quiet
          /\ Selected' = Selected /\ (\A S : Within(S)' = Within(S))
          /\ Within(payments) = Selected
      BY <1>3, <1>4, Moved, Paid DEF Moves
    <2>3. total = Sums(Within(first)) /\ (quiet => Within(first) = Selected)
      BY <1>3, <2>1 DEF Read
    <2>4. Read(first, payments, payments)'
      BY <1>1, <1>3, <2>2, <2>3 DEF Read
    <2>5. first \in SUBSET payments
      BY <2>1
    <2>. QED
      BY <2>2, <2>3, <2>4, <2>5 DEF PartsRead
  <1>7. TotalFits'
    BY <1>3 DEF SalesInv, TotalFits, Fits
  <1>. QED
    BY <1>3, <1>4, <1>5, <1>6, <1>7, Moved DEF SalesInv

LEMMA ByDayStep ==
    ASSUME SalesInv, ByDay
    PROVE  SalesInv'
  <1>1. PICK sums : sums = [d \in Days |-> [m \in Methods |-> Sums(Of(On(Selected, d), m))]]
    OBVIOUS
  <1>2. sums \in [Days -> [Methods -> Bucket]]
    <2>1. ASSUME NEW d \in Days, NEW m \in Methods
          PROVE  Sums(Of(On(Selected, d), m)) \in Bucket
      <3>1. Of(On(Selected, d), m) \in SUBSET Selected
        BY DEF Of, On
      <3>2. /\ Of(On(Selected, d), m) \in SUBSET Payment
            /\ IsFiniteSet(Of(On(Selected, d), m))
        BY <3>1, Paid, FS_Subset
      <3>. QED
        BY <3>2, SumsAre
    <2>. QED
      BY <1>1, <2>1
  <1>3. /\ ask.step = "days" /\ Moves("done") /\ byDay' = sums
        /\ UNCHANGED <<total, byMethod>>
    BY <1>1 DEF ByDay, Moves
  <1>4. "done" \in Steps
    BY DEF Steps
  <1>5. SalesTypeOK'
    BY <1>2, <1>3, <1>4, Moved DEF SalesInv, SalesTypeOK, Moves
  <1>6. PartsRead'
    <2>1. PICK first, second, third :
             /\ third \in SUBSET payments /\ second \in SUBSET third /\ first \in SUBSET second
             /\ Mirrored(second)
             /\ quiet /\ ask.step \in {"methods", "days", "done"} => Within(first) = Selected
             /\ Read(first, second, third)
      BY Tables
    <2>2. /\ ask'.step = "done" /\ payments' = payments /\ quiet' = quiet
          /\ Selected' = Selected /\ (\A S : Within(S)' = Within(S))
          /\ Within(payments) = Selected
      BY <1>3, <1>4, Moved, Paid DEF Moves
    <2>3. /\ total = Sums(Within(first)) /\ (quiet => Within(first) = Selected)
          /\ byMethod = [m \in Methods |-> Sums(Of(Within(second), m))]
      BY <1>3, <2>1 DEF Read
    <2>4. Read(first, second, payments)'
      BY <1>1, <1>3, <2>2, <2>3 DEF Read
    <2>5. first \in SUBSET second /\ second \in SUBSET payments
      BY <2>1
    <2>. QED
      BY <2>1, <2>2, <2>3, <2>4, <2>5 DEF PartsRead
  <1>7. TotalFits'
    BY <1>3 DEF SalesInv, TotalFits, Fits
  <1>. QED
    BY <1>3, <1>4, <1>5, <1>6, <1>7, Moved DEF SalesInv

LEMMA SalesInductive == SalesSpec => []SalesInv
  <1>1. SalesInv /\ [SalesNext]_salesVars => SalesInv'
    <2> SUFFICES ASSUME SalesInv, [SalesNext]_salesVars PROVE SalesInv'
      OBVIOUS
    <2>1. CASE UNCHANGED salesVars
      <3>1. today' \in Days /\ UNCHANGED <<payments, askVars, quiet>>
        BY <2>1 DEF salesVars, SalesInv, SalesTypeOK
      <3>. QED
        BY <3>1, MidnightStep
    <2>2. CASE Midnight
      <3>1. today' \in Days /\ UNCHANGED <<payments, askVars, quiet>>
        BY <2>2 DEF Midnight
      <3>. QED
        BY <3>1, MidnightStep
    <2>3. ASSUME NEW m \in Memberships, Grant(m) \/ Refund(m) PROVE SalesInv'
      BY <2>3, GrantStep, RefundStep
    <2>4. CASE Request \/ Totals \/ ByMethod \/ ByDay \/ Fail
      BY <2>4, RequestStep, TotalsStep, ByMethodStep, ByDayStep, FailStep
    <2>. QED
      BY <2>1, <2>2, <2>3, <2>4 DEF SalesNext
  <1>. QED
    BY <1>1, SalesInitially, PTL DEF SalesSpec

-----------------------------------------------------------------------------
(* The theorems about the summary                                            *)

\* The state keeps its type: the sums of an answer are buckets for every method.
THEOREM SalesTypeCorrect == SalesSpec => []SalesTypeOK
  <1>1. SalesInv => SalesTypeOK
    BY DEF SalesInv
  <1>. QED
    BY <1>1, SalesInductive, PTL

\* What does fit has no part that does not: gross and refund of a part are no more
\* than those of the whole.
LEMMA PartFits ==
    ASSUME NEW T \in SUBSET Payment, IsFiniteSet(T), Fits(Sums(T)), NEW S \in SUBSET T
    PROVE  Fits(Sums(S))
  <1>1. S \in SUBSET Payment /\ IsFiniteSet(S)
    BY FS_Subset
  <1>2. Sums(S) \in Bucket /\ Sums(S).net = Sums(S).gross - Sums(S).refund /\ Sums(T) \in Bucket
    BY <1>1, SumsAre
  <1>3. Sums(S).gross <= Sums(T).gross /\ Sums(S).refund <= Sums(T).refund
    BY SumsGrow
  <1>4. /\ Sums(S).gross \in Nat /\ Sums(S).refund \in Nat
        /\ Sums(T).gross \in Nat /\ Sums(T).refund \in Nat
    BY <1>2 DEF Bucket
  <1>. QED
    BY <1>2, <1>3, <1>4, SalesConsts DEF Fits

\* Once the totals of a range were answered, no later statement is refused for the
\* size of its sums, unless the range was added to.
THEOREM QuietRangesFit == SalesSpec => []QuietRangeFits
  <1>1. ASSUME SalesInv, quiet, ask.step \in {"methods", "days"}, NEW m \in Methods
        PROVE  /\ Fits(Sums(Of(Selected, m)))
               /\ \A d \in Days : Fits(Sums(Of(On(Selected, d), m)))
    <2>1. PICK first, second, third :
             /\ third \in SUBSET payments /\ second \in SUBSET third /\ first \in SUBSET second
             /\ Mirrored(second)
             /\ quiet /\ ask.step \in {"methods", "days", "done"} => Within(first) = Selected
             /\ Read(first, second, third)
      BY <1>1, Tables
    <2>2. total = Sums(Selected) /\ Fits(total)
      BY <1>1, <2>1 DEF Read, SalesInv, TotalFits
    <2>3. Selected \in SUBSET Payment /\ IsFiniteSet(Selected) /\ Fits(Sums(Selected))
      BY <1>1, <2>2, Paid
    <2>4. Of(Selected, m) \in SUBSET Selected
          /\ \A d \in Days : Of(On(Selected, d), m) \in SUBSET Selected
      BY DEF Of, On
    <2>. QED
      BY <2>3, <2>4, PartFits
  <1>2. SalesInv => QuietRangeFits
    BY <1>1 DEF QuietRangeFits
  <1>. QED
    BY <1>2, SalesInductive, PTL

\* The parts of a complete answer, by the tables they were read in.
LEMMA AnswerIs ==
    ASSUME SalesInv, ask.step = "done"
    PROVE  \E first, second, third :
              /\ third \in SUBSET payments /\ second \in SUBSET third /\ first \in SUBSET second
              /\ Mirrored(second)
              /\ quiet => Within(first) = Selected
              /\ \A field \in Fields :
                    /\ total[field] = Sums(Within(first))[field]
                    /\ OverMethods(field) = Sums(Within(second))[field]
                    /\ \A m \in Methods :
                          /\ byMethod[m] = Sums(Of(Within(second), m))
                          /\ OverDays(m, field) = Sums(Of(Within(third), m))[field]
  <1>1. PICK first, second, third :
           /\ third \in SUBSET payments /\ second \in SUBSET third /\ first \in SUBSET second
           /\ Mirrored(second)
           /\ quiet /\ ask.step \in {"methods", "days", "done"} => Within(first) = Selected
           /\ Read(first, second, third)
    BY Tables
  <1>2. /\ total = Sums(Within(first))
        /\ byMethod = [m \in Methods |-> Sums(Of(Within(second), m))]
        /\ byDay = [d \in Days |-> [m \in Methods |-> Sums(Of(On(Within(third), d), m))]]
    BY <1>1 DEF Read
  <1>3. second \in SUBSET payments
    BY <1>1
  <1>4. /\ Within(second) \in SUBSET Payment /\ IsFiniteSet(Within(second))
        /\ Within(third) \in SUBSET Payment /\ IsFiniteSet(Within(third))
    BY <1>1, <1>3, Paid
  <1>5. ASSUME NEW field \in Fields
        PROVE  OverMethods(field) = Sums(Within(second))[field]
    BY <1>2, <1>4, OverMethodsIs
  <1>6. ASSUME NEW field \in Fields, NEW m \in Methods
        PROVE  OverDays(m, field) = Sums(Of(Within(third), m))[field]
    BY <1>2, <1>4, OverDaysIs
  <1>7. \A m \in Methods : byMethod[m] = Sums(Of(Within(second), m))
    BY <1>2
  <1>8. \A field \in Fields : total[field] = Sums(Within(first))[field]
    BY <1>2
  <1>. QED
    BY <1>1, <1>5, <1>6, <1>7, <1>8

\* No later part of an answer is short of a payment that an earlier part counts.
THEOREM PartsOnlyGrow == SalesSpec => []PartsGrow
  <1>1. ASSUME SalesInv, ask.step = "done", NEW field \in {"gross", "refund"}
        PROVE  /\ total[field] <= OverMethods(field)
               /\ \A m \in Methods : byMethod[m][field] <= OverDays(m, field)
    <2>1. PICK first, second, third :
             /\ third \in SUBSET payments /\ second \in SUBSET third /\ first \in SUBSET second
             /\ \A f \in Fields :
                   /\ total[f] = Sums(Within(first))[f]
                   /\ OverMethods(f) = Sums(Within(second))[f]
                   /\ \A m \in Methods :
                         /\ byMethod[m] = Sums(Of(Within(second), m))
                         /\ OverDays(m, f) = Sums(Of(Within(third), m))[f]
      BY <1>1, AnswerIs
    <2>2. second \in SUBSET payments /\ field \in Fields
      BY <1>1, <2>1 DEF Fields
    <2>3. /\ Within(second) \in SUBSET Payment /\ IsFiniteSet(Within(second))
          /\ Within(third) \in SUBSET Payment /\ IsFiniteSet(Within(third))
      BY <1>1, <2>1, <2>2, Paid
    <2>4. Within(first) \in SUBSET Within(second) /\ Within(second) \in SUBSET Within(third)
      BY <2>1 DEF Within
    <2>5. ASSUME NEW S, NEW T \in SUBSET Payment, IsFiniteSet(T), S \in SUBSET T
          PROVE  Sums(S)[field] <= Sums(T)[field]
      BY <1>1, <2>5, SumsGrow
    <2>6. Sums(Within(first))[field] <= Sums(Within(second))[field]
      BY <2>3, <2>4, <2>5
    <2>7. ASSUME NEW m \in Methods
          PROVE  Sums(Of(Within(second), m))[field] <= Sums(Of(Within(third), m))[field]
      <3>1. /\ Of(Within(third), m) \in SUBSET Within(third)
            /\ Of(Within(second), m) \in SUBSET Of(Within(third), m)
        BY <2>4 DEF Of
      <3>2. Of(Within(third), m) \in SUBSET Payment /\ IsFiniteSet(Of(Within(third), m))
        BY <2>3, <3>1, FS_Subset
      <3>. QED
        BY <2>5, <3>1, <3>2
    <2>. QED
      BY <2>1, <2>2, <2>6, <2>7
  <1>2. SalesInv => PartsGrow
    BY <1>1 DEF PartsGrow
  <1>. QED
    BY <1>2, SalesInductive, PTL

\* When nothing was committed in the range between its statements, an answer adds up.
THEOREM QuietPartsAddUp == SalesSpec => []QuietPartsAgree
  <1>1. ASSUME SalesInv, ask.step = "done", quiet, NEW field \in Fields
        PROVE  /\ total[field] = OverMethods(field)
               /\ \A m \in Methods : byMethod[m][field] = OverDays(m, field)
    <2>1. PICK first, second, third :
             /\ third \in SUBSET payments /\ second \in SUBSET third /\ first \in SUBSET second
             /\ Within(first) = Selected
             /\ \A f \in Fields :
                   /\ total[f] = Sums(Within(first))[f]
                   /\ OverMethods(f) = Sums(Within(second))[f]
                   /\ \A m \in Methods :
                         /\ byMethod[m] = Sums(Of(Within(second), m))
                         /\ OverDays(m, f) = Sums(Of(Within(third), m))[f]
      BY <1>1, AnswerIs
    <2>2. /\ Within(first) \subseteq Within(second) /\ Within(second) \subseteq Within(third)
          /\ Within(third) \subseteq Selected
      BY <2>1 DEF Within, Selected
    <2>3. Within(first) = Within(second) /\ Within(second) = Within(third)
      BY <2>1, <2>2
    <2>. QED
      BY <2>1, <2>3
  <1>2. SalesInv => QuietPartsAgree
    BY <1>1 DEF QuietPartsAgree, Fields
  <1>. QED
    BY <1>2, SalesInductive, PTL

LEMMA OneAtMost ==
    ASSUME NEW S, IsFiniteSet(S), Cardinality(S) <= 1, NEW x \in S, NEW y \in S
    PROVE  x = y
  <1> SUFFICES ASSUME x # y PROVE FALSE
    OBVIOUS
  <1>1. IsFiniteSet(S \ {x}) /\ Cardinality(S \ {x}) = Cardinality(S) - 1
    BY FS_RemoveElement
  <1>2. Cardinality(S \ {x}) \in Nat /\ Cardinality(S) \in Nat
    BY <1>1, FS_CardinalityType
  <1>3. Cardinality(S \ {x}) = 0
    BY <1>1, <1>2
  <1>4. S \ {x} = {}
    BY <1>1, <1>3, FS_EmptySet
  <1>. QED
    BY <1>4

\* Unless a membership was refunded twice, the refunds of a method come out of what
\* it took in.
THEOREM RefundsAreMirrored == SalesSpec => []RefundsMirrorGrants
  <1>1. ASSUME SalesInv, ask.step = "done", FirstDay,
               \A n \in Memberships : Cardinality(RefundsOf(n)) <= 1,
               NEW m \in Methods
        PROVE  byMethod[m].refund <= byMethod[m].gross
    <2>1. PICK second : /\ second \in SUBSET payments /\ Mirrored(second)
                        /\ byMethod[m] = Sums(Of(Within(second), m))
      <3>1. "net" \in Fields
        BY DEF Fields
      <3>2. PICK first, second, third :
               /\ third \in SUBSET payments /\ second \in SUBSET third /\ Mirrored(second)
               /\ \A f \in Fields : \A n \in Methods : byMethod[n] = Sums(Of(Within(second), n))
        BY <1>1, AnswerIs
      <3>3. second \in SUBSET payments /\ byMethod[m] = Sums(Of(Within(second), m))
        BY <3>1, <3>2
      <3>. QED
        BY <3>2, <3>3
    <2>2. PICK T : T = Of(Within(second), m)
      OBVIOUS
    <2>3. T \in SUBSET Within(second) /\ T \in SUBSET second
      BY <2>2 DEF Of, Within
    <2>4. T \in SUBSET Payment /\ IsFiniteSet(T)
      BY <1>1, <2>1, <2>3, Paid, FS_Subset
    <2>5. PICK S : S = {p \in T : p.amount < 0}
      OBVIOUS
    <2>6. S \in SUBSET T /\ S \in SUBSET Payment /\ IsFiniteSet(S)
      BY <2>4, <2>5, FS_Subset
    <2>7. \A p \in S : \E q \in T : q.membership = p.membership /\ q.amount = -p.amount
      <3> SUFFICES ASSUME NEW p \in S
                   PROVE  \E q \in T : q.membership = p.membership /\ q.amount = -p.amount
        OBVIOUS
      <3>1. p \in second /\ p.amount < 0 /\ p.method = m /\ ask.from <= p.day /\ p.day <= ask.to
        BY <2>2, <2>3, <2>5 DEF Of, Within, InRange
      <3>2. PICK q \in second : /\ q.membership = p.membership /\ q.method = p.method
                                /\ q.amount = -p.amount /\ q.day <= p.day
        BY <2>1, <3>1 DEF Mirrored
      <3>3. q.day \in Days /\ p.day \in Days /\ q \in payments
        BY <1>1, <2>1, <3>1, <3>2, Paid DEF Payment
      <3>4. ask.from \in Nat /\ ask.to \in Nat /\ q.day \in Nat /\ p.day \in Nat
        BY <1>1, <3>3, SalesConsts DEF SalesInv, SalesTypeOK
      <3>5. ask.from <= q.day /\ q.day <= ask.to
        BY <1>1, <3>1, <3>2, <3>3, <3>4 DEF FirstDay
      <3>6. q \in T
        BY <2>2, <3>1, <3>2, <3>5 DEF Of, Within, InRange
      <3>. QED
        BY <3>2, <3>6
    <2>8. PICK match :
             match = [p \in S |-> CHOOSE q \in T : q.membership = p.membership
                                                   /\ q.amount = -p.amount]
      OBVIOUS
    <2>9. \A p \in S : /\ match[p] \in T /\ match[p].membership = p.membership
                       /\ match[p].amount = -p.amount
      BY <2>7, <2>8
    <2>10. \A p, q \in S : match[p] = match[q] => p = q
      <3> SUFFICES ASSUME NEW p \in S, NEW q \in S, match[p] = match[q] PROVE p = q
        OBVIOUS
      <3>1. p.membership = q.membership /\ p.membership \in Memberships
        BY <2>6, <2>9 DEF Payment
      <3>2. p \in RefundsOf(p.membership) /\ q \in RefundsOf(p.membership)
        BY <2>1, <2>3, <2>5, <3>1 DEF RefundsOf
      <3>3. IsFiniteSet(RefundsOf(p.membership))
        <4>1. RefundsOf(p.membership) \in SUBSET payments
          BY DEF RefundsOf
        <4>. QED
          BY <1>1, <4>1, Paid
      <3>. QED
        BY <1>1, <3>1, <3>2, <3>3, OneAtMost
    <2>11. \A p \in S : Given[p] \in Int /\ Given[p] <= Taken[match[p]]
      <3> SUFFICES ASSUME NEW p \in S PROVE Given[p] \in Int /\ Given[p] <= Taken[match[p]]
        OBVIOUS
      <3>1. p \in Payment /\ match[p] \in Payment /\ p.amount \in Int /\ p.amount < 0
        BY <2>4, <2>5, <2>6, <2>9 DEF Payment
      <3>2. match[p].amount = -p.amount
        BY <2>9
      <3>3. Given[p] = -p.amount
        BY <3>1 DEF Given
      <3>4. Taken[match[p]] = -p.amount
        BY <3>1, <3>2 DEF Taken
      <3>. QED
        BY <3>1, <3>3, <3>4
    <2>12. \A q \in T : Taken[q] \in Nat /\ Given[q] \in Int
      BY <2>4, PartType
    <2>13. Total(Given, S) <= Total(Taken, T)
      <3>1. \A p \in S : match[p] \in T
        BY <2>9
      <3>2. \A q \in T : Taken[q] \in Nat
        BY <2>12
      <3>. QED
        BY <2>4, <2>6, <2>10, <2>11, <3>1, <3>2, TotalMatched
    <2>14. Total(Given, S) = Total(Given, T)
      <3>1. \A p \in T \ S : Given[p] = 0
        <4> SUFFICES ASSUME NEW p \in T \ S PROVE Given[p] = 0
          OBVIOUS
        <4>1. p \in Payment /\ ~(p.amount < 0)
          BY <2>4, <2>5
        <4>. QED
          BY <4>1 DEF Given
      <3>2. \A p \in T : Given[p] \in Int
        BY <2>12
      <3>. QED
        BY <2>4, <2>6, <3>1, <3>2, TotalPart
    <2>15. Sums(T).refund <= Sums(T).gross
      BY <2>4, <2>13, <2>14, SumsAre
    <2>. QED
      BY <2>1, <2>2, <2>15
  <1>2. SalesInv => RefundsMirrorGrants
    BY <1>1 DEF RefundsMirrorGrants
  <1>. QED
    BY <1>2, SalesInductive, PTL
================================================================================
