----------------------------- MODULE CursorPaging -----------------------------
(***************************************************************************)
(* A client walks a list page by page (members, or raw check-ins), newest  *)
(* first, each page a statement of its own, while transactions add rows    *)
(* and members are soft-deleted.  A row is stamped with the start of its   *)
(* transaction and numbered when it is inserted, and is seen when the      *)
(* transaction commits: rows may appear in another order than they sort.   *)
(***************************************************************************)
EXTENDS Integers, FiniteSets

CONSTANTS
    Writers,     \* transactions open at a time
    Limit,       \* rows of a page
    Deletable,   \* rows can be soft-deleted (members; check-ins cannot)
    Null,
    MaxStamp,    \* bound of the clock
    MaxRows      \* bound on the rows inserted

ASSUME PagingAssumption ==
    /\ Limit \in Nat \ {0} /\ {MaxStamp, MaxRows} \subseteq Nat
    /\ Deletable \in BOOLEAN
    /\ Null \notin [at : Nat, id : Nat, late : BOOLEAN]
    /\ Null \notin [at : Nat, id : Nat]

VARIABLES
    stamp,       \* the clock
    lastId,      \* the sequence of ids
    open,        \* the transaction of each writer, Null when it has none
    rows,        \* rows committed and not deleted
    phase,       \* "idle", "walking" or "done"
    cursor,      \* next_cursor of the last answer
    page,        \* rows of the last answer
    seen,        \* rows of the answers before it
    there        \* rows that were there when the walk began

writerVars == <<stamp, lastId, open>>
walkVars   == <<phase, cursor, page, seen, there>>
listVars   == <<writerVars, rows, walkVars>>

\* id 0: not inserted yet.  late: its transaction began after the first page.
Row == [at : Nat, id : Nat, late : BOOLEAN]

ListTypeOK ==
    /\ stamp \in Nat /\ lastId \in Nat
    /\ open \in [Writers -> Row \cup {Null}]
    /\ rows \subseteq {r \in Row : r.id > 0}
    /\ phase \in {"idle", "walking", "done"}
    /\ cursor \in [at : Nat, id : Nat] \cup {Null}
    /\ page \subseteq Row /\ seen \subseteq Row /\ there \subseteq Row

ListInit ==
    /\ stamp = 0 /\ lastId = 0
    /\ open = [w \in Writers |-> Null]
    /\ rows = {}
    /\ phase = "idle" /\ cursor = Null
    /\ page = {} /\ seen = {} /\ there = {}

-----------------------------------------------------------------------------
(* Transactions that add a row, and the deletion of a member                  *)

Tick ==
    /\ stamp < MaxStamp
    /\ stamp' = stamp + 1
    /\ UNCHANGED <<lastId, open, rows, walkVars>>

\* now() is the start of the transaction, for created_at and checked_in_at.
Begin(w) ==
    /\ open[w] = Null
    /\ open' = [open EXCEPT ![w] = [at |-> stamp, id |-> 0, late |-> phase # "idle"]]
    /\ UNCHANGED <<stamp, lastId, rows, walkVars>>

Insert(w) ==
    /\ open[w] # Null /\ open[w].id = 0 /\ lastId < MaxRows
    /\ lastId' = lastId + 1
    /\ open' = [open EXCEPT ![w].id = lastId + 1]
    /\ UNCHANGED <<stamp, rows, walkVars>>

Commit(w) ==
    /\ open[w] # Null /\ open[w].id # 0
    /\ rows' = rows \cup {open[w]}
    /\ open' = [open EXCEPT ![w] = Null]
    /\ UNCHANGED <<stamp, lastId, walkVars>>

Rollback(w) ==
    /\ open[w] # Null
    /\ open' = [open EXCEPT ![w] = Null]
    /\ UNCHANGED <<stamp, lastId, rows, walkVars>>

Delete(r) ==
    /\ Deletable
    /\ rows' = rows \ {r}
    /\ UNCHANGED <<writerVars, walkVars>>

-----------------------------------------------------------------------------
(* The statement of a page                                                   *)

\* The id is compared the wrong way round.
WrongBefore(k, l) == k.at < l.at \/ (k.at = l.at /\ k.id > l.id)

\* (t, id) < (t, id), as Postgres compares rows.
Before(k, l) == k.at < l.at \/ (k.at = l.at /\ k.id < l.id)

\* The condition of the cursor lets its own row in.
WrongAfterCursor(c) == {r \in rows : c = Null \/ ~Before(c, r)}

AfterCursor(c) == {r \in rows : c = Null \/ Before(r, c)}

\* order by t desc, id desc limit n: the rows fewer than n come before.
Newest(S, n) == {r \in S : Cardinality({s \in S : Before(r, s)}) < n}

\* The cursor is the row that was read to see whether there is a next page.
WrongNextCursor(found, c) ==
    IF Cardinality(found) <= Limit
    THEN c = Null
    ELSE \E last \in Newest(found, Limit + 1) :
            /\ \A r \in Newest(found, Limit + 1) : r = last \/ Before(last, r)
            /\ c = [at |-> last.at, id |-> last.id]

\* limit + 1 rows are read; if that many are found, the last one of the page is
\* the cursor, and otherwise there is none.
NextCursor(found, c) ==
    IF Cardinality(found) <= Limit
    THEN c = Null
    ELSE \E last \in Newest(found, Limit) :
            /\ \A r \in Newest(found, Limit) : r = last \/ Before(last, r)
            /\ c = [at |-> last.at, id |-> last.id]

Answer(found) ==
    /\ page' = Newest(found, Limit)
    /\ NextCursor(found, cursor')
    /\ phase' = IF cursor' = Null THEN "done" ELSE "walking"
    /\ UNCHANGED <<writerVars, rows>>

FirstPage ==
    /\ phase = "idle"
    /\ Answer(AfterCursor(Null))
    /\ there' = rows
    /\ UNCHANGED seen

NextPage ==
    /\ phase = "walking"
    /\ Answer(AfterCursor(cursor))
    /\ seen' = seen \cup page
    /\ UNCHANGED there

ListNext ==
    \/ Tick \/ FirstPage \/ NextPage
    \/ \E w \in Writers : Begin(w) \/ Insert(w) \/ Commit(w) \/ Rollback(w)
    \/ \E r \in rows : Delete(r)

ListSpec == ListInit /\ [][ListNext]_listVars

-----------------------------------------------------------------------------

\* No row is on two pages, whatever is added or deleted between them.
NoRowTwice == page \cap seen = {}

\* A walk that has come to its end has shown every row that was there when it
\* began and was not deleted: nothing slips between two pages.
NoRowSkipped == phase = "done" => there \cap rows \subseteq seen \cup page

\* A row whose transaction began after the first page is on no later one, as the
\* comment of Cursor has it; one that had begun before and commits in between may
\* well be.
LaterRowsStayOut == \A r \in seen \cup page : ~r.late
================================================================================
