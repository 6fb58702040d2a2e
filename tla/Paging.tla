-------------------------------- MODULE Paging --------------------------------
(***************************************************************************)
(* Lists by page (relational/query-memory.ts, relational/cursor.ts and     *)
(* SqliteRepository.list): a page is what comes after a cursor, the sort   *)
(* value and id of the last row before it, in the order of the sort values *)
(* and of the ids among equals.  A row may have no sort value.             *)
(*                                                                         *)
(* A state is one question: a table, a direction and a page size.          *)
(***************************************************************************)
EXTENDS Integers, FiniteSets, SequencesExt

CONSTANTS
  Rows,      \* ids, numbers that compare as ids do
  Values,    \* sort values, positive numbers
  Sizes      \* page sizes

VARIABLE question

\* No sort value: null compares below everything.
Null == 0

Questions ==
  [table : UNION {[ids -> Values \cup {Null}] : ids \in SUBSET Rows},
   desc : BOOLEAN, limit : Sizes]

NoQuestion == [table |-> << >>, desc |-> FALSE, limit |-> 1]

Init == question = NoQuestion
Ask == question = NoQuestion /\ question' \in Questions
Next == Ask
Spec == Init /\ [][Next]_question

-------------------------------------------------------------------------------

\* compareValues on the sort value and then on the id, turned around for desc.
Comes(q, v, id, w, jd) ==
  IF q.desc THEN v > w \/ (v = w /\ id > jd) ELSE v < w \/ (v = w /\ id < jd)

InOrder(q, ids) ==
  SetToSortSeq(ids, LAMBDA i, j : Comes(q, q.table[i], i, q.table[j], j))

\* Mutant: the cursor is the id alone.
AfterInMemoryById(q, cursor) ==
  {i \in DOMAIN q.table : IF q.desc THEN i < cursor.id ELSE i > cursor.id}

\* applyListQuery: the rows after the cursor.
AfterInMemory(q, cursor) ==
  {i \in DOMAIN q.table : Comes(q, cursor.value, cursor.id, q.table[i], i)}

\* SqliteRepository.list: a comparison with NULL is never true, so null has
\* conditions of its own.
AfterInSqlite(q, cursor) ==
  {i \in DOMAIN q.table :
     LET v == q.table[i]
     IN CASE cursor.value = Null /\ q.desc -> FALSE
          [] cursor.value = Null /\ ~q.desc -> v # Null \/ i > cursor.id
          [] OTHER -> /\ v # Null
                      /\ \/ IF q.desc THEN v < cursor.value ELSE v > cursor.value
                         \/ v = cursor.value /\ IF q.desc THEN i < cursor.id ELSE i > cursor.id}

\* A page and the cursor to the next one, if there is more.
ListPage(q, rows) ==
  LET sorted == InOrder(q, rows)
      more == Len(sorted) > q.limit
      items == IF more THEN SubSeq(sorted, 1, q.limit) ELSE sorted
  IN [items |-> items, more |-> more,
      next |-> IF more THEN [value |-> q.table[Last(items)], id |-> Last(items)]
               ELSE [value |-> Null, id |-> 0]]

\* Every page, one after the other, as a caller that follows the cursors gets them.
Walk(q, After(_, _)) ==
  LET page[n \in 0 .. Cardinality(DOMAIN q.table)] ==
        IF n = 0 THEN ListPage(q, DOMAIN q.table)
        ELSE IF page[n - 1].more THEN ListPage(q, After(q, page[n - 1].next))
        ELSE [page[n - 1] EXCEPT !.items = << >>]
  IN FlattenSeq([n \in 1 .. Cardinality(DOMAIN q.table) + 1 |-> page[n - 1].items])

-------------------------------------------------------------------------------

TypeOK == question \in Questions \cup {NoQuestion}

\* Following the cursors gives every row once and in order, from both adapters,
\* unless SQLite goes down a column that some rows have nothing in.
PagesAlike ==
  LET q == question
  IN /\ Walk(q, AfterInMemory) = InOrder(q, DOMAIN q.table)
     /\ (~q.desc \/ \A i \in DOMAIN q.table : q.table[i] # Null) =>
           Walk(q, AfterInSqlite) = InOrder(q, DOMAIN q.table)
===============================================================================
