------------------------------- MODULE Documents -------------------------------
(***************************************************************************)
(* Trays (storage/src/documents/documents.ts): a document is a row that    *)
(* says where its body is and a body in the blob store; a copy on another  *)
(* desk is a second row that names the same body.  Filing, removing,       *)
(* listing a tray page by page and carrying what a tray holds to another   *)
(* desk each take several awaited calls, and the calls of different        *)
(* requests interleave.                                                    *)
(*                                                                         *)
(* A document's id is drawn at random, so any free number may come; its    *)
(* body is named after it.  A document the office refuses writes nothing   *)
(* and has no action.                                                      *)
(***************************************************************************)
EXTENDS Naturals, FiniteSets, SequencesExt

CONSTANTS
  DocumentIds,     \* numbers, compared as ids are
  Trays,           \* a desk each, and one of its two trays
  Handlers,        \* requests the server works on at once
  Page,            \* how many rows a page of a tray has
  Arrivals,        \* the instants at which documents arrive, first to last
  NoRow,           \* stands for no row under an id
  MaxFilingStops   \* bound: how often the server stops

VARIABLES
  rows,         \* [DocumentIds -> a row or NoRow]
  bodies,       \* the bodies in the blob store, each named after the document filed
  drawn,        \* ids given out
  filing,       \* [Handlers -> what each is in the middle of]
  filingStops,  \* how often the server stopped
  late          \* history: copies written when their source had gone, and copies of those

documentVars == <<rows, bodies, drawn, filing, filingStops, late>>

Row == [tray : Trays, ref : DocumentIds, at : ToSet(Arrivals)]

\* What the constants have to be: every document arrives at some instant.
DocumentConstants ==
  /\ DocumentIds \subseteq Nat /\ IsFiniteSet(DocumentIds)
  /\ Arrivals \in Seq(Nat) /\ Cardinality(DocumentIds) <= Len(Arrivals)
  /\ Page \in Nat \ {0}
  /\ NoRow \notin Row
  /\ MaxFilingStops \in Nat

Free == [op |-> "nothing"]

\* The last row of a page, by its moment and its id, or the beginning.
Cursor == {<< >>} \cup (ToSet(Arrivals) \X DocumentIds)

\* What a request may be in the middle of.
Filings == [op : {"file"}, id : DocumentIds, row : Row]
Removals == [op : {"remove", "count", "body"}, id : DocumentIds, ref : DocumentIds]
Listings ==
  [ op : {"list", "listed"}, tray : Trays, to : Trays, cursor : Cursor,
    found : Seq(DocumentIds), due : SUBSET DocumentIds ]
Carryings == [op : {"copy"}, to : Trays, todo : Seq(DocumentIds)]
Pastes ==
  [op : {"paste"}, to : Trays, todo : Seq(DocumentIds), from : DocumentIds, ref : DocumentIds]

Handling == {Free} \cup Filings \cup Removals \cup Listings \cup Carryings \cup Pastes

Held == {id \in DocumentIds : rows[id] # NoRow}
InTray(d) == {id \in Held : rows[id].tray = d}
RowsNaming(ref) == {id \in Held : rows[id].ref = ref}

DocumentsTypeOK ==
  /\ rows \in [DocumentIds -> Row \cup {NoRow}]
  /\ bodies \subseteq drawn /\ Held \subseteq drawn /\ drawn \subseteq DocumentIds
  /\ filing \in [Handlers -> Handling]
  /\ filingStops \in 0 .. MaxFilingStops
  /\ late \subseteq drawn

DocumentsInit ==
  /\ rows = [id \in DocumentIds |-> NoRow]
  /\ bodies = {} /\ drawn = {} /\ late = {}
  /\ filing = [r \in Handlers |-> Free]
  /\ filingStops = 0

Now == Arrivals[Cardinality(drawn) + 1]

Proceeds(r, what) == filing' = [filing EXCEPT ![r] = what]

\* The body first: the row names it.
FileBody(r, tray) ==
  /\ filing[r] = Free
  /\ \E id \in DocumentIds \ drawn :
       /\ drawn' = drawn \cup {id}
       /\ bodies' = bodies \cup {id}
       /\ Proceeds(r, [op |-> "file", id |-> id, row |-> [tray |-> tray, ref |-> id, at |-> Now]])
  /\ UNCHANGED <<rows, filingStops, late>>

FileRow(r) ==
  /\ filing[r].op = "file"
  /\ rows' = [rows EXCEPT ![filing[r].id] = filing[r].row]
  /\ Proceeds(r, Free)
  /\ UNCHANGED <<bodies, drawn, filingStops, late>>

RemoveRead(r, id) ==
  /\ filing[r] = Free
  /\ id \in Held
  /\ Proceeds(r, [op |-> "remove", id |-> id, ref |-> rows[id].ref])
  /\ UNCHANGED <<rows, bodies, drawn, filingStops, late>>

RemoveRow(r) ==
  /\ filing[r].op = "remove"
  /\ Proceeds(r, IF filing[r].id \in Held THEN [filing[r] EXCEPT !.op = "count"] ELSE Free)
  /\ rows' = [rows EXCEPT ![filing[r].id] = NoRow]
  /\ UNCHANGED <<bodies, drawn, filingStops, late>>

\* Mutant: the body goes with the document it was filed as, and no other.
RemoveCountOriginal(r) ==
  /\ filing[r].op = "count"
  /\ Proceeds(r, IF RowsNaming(filing[r].ref) = {} /\ filing[r].id = filing[r].ref
               THEN [filing[r] EXCEPT !.op = "body"] ELSE Free)
  /\ UNCHANGED <<rows, bodies, drawn, filingStops, late>>

\* Mutant: the body goes with the document, copies or not.
RemoveCountNothing(r) ==
  /\ filing[r].op = "count"
  /\ Proceeds(r, [filing[r] EXCEPT !.op = "body"])
  /\ UNCHANGED <<rows, bodies, drawn, filingStops, late>>

RemoveCount(r) ==
  /\ filing[r].op = "count"
  /\ Proceeds(r, IF RowsNaming(filing[r].ref) = {} THEN [filing[r] EXCEPT !.op = "body"] ELSE Free)
  /\ UNCHANGED <<rows, bodies, drawn, filingStops, late>>

RemoveBody(r) ==
  /\ filing[r].op = "body"
  /\ bodies' = bodies \ {filing[r].ref}
  /\ Proceeds(r, Free)
  /\ UNCHANGED <<rows, drawn, filingStops, late>>

\* Oldest first, and by id within one instant.
Precedes(a, b) == rows[a].at < rows[b].at \/ (rows[a].at = rows[b].at /\ a < b)

\* Mutant: the cursor is the moment alone.
BehindInstant(tray, cursor) == {id \in InTray(tray) : cursor = << >> \/ rows[id].at > cursor[1]}

\* The rows of a tray behind a cursor, which is the last row's moment and id.
Behind(tray, cursor) ==
  {id \in InTray(tray) : cursor = << >> \/ rows[id].at > cursor[1]
                           \/ (rows[id].at = cursor[1] /\ id > cursor[2])}

\* Listing a tray, and carrying what it holds to another desk: the same pages.
ListStart(r, tray, to) ==
  /\ filing[r] = Free
  /\ Proceeds(r, [op |-> "list", tray |-> tray, to |-> to, cursor |-> << >>, found |-> << >>,
              due |-> InTray(tray)])
  /\ UNCHANGED <<rows, bodies, drawn, filingStops, late>>

\* A page of them: the first in order, and as many as a page has while there are more.
FirstPage(rest, page, size) ==
  LET more == rest \ ToSet(page)
  IN  /\ \A i, j \in 1 .. size : i < j => Precedes(page[i], page[j])
      /\ \A i \in 1 .. size, id \in more : Precedes(page[i], id)
      /\ more # {} => size = Page

ListPage(r) ==
  /\ filing[r].op = "list"
  /\ LET rest == Behind(filing[r].tray, filing[r].cursor)
     IN \E size \in 0 .. Page : \E page \in [1 .. size -> rest] :
          /\ FirstPage(rest, page, size)
          /\ LET found == filing[r].found \o page
             IN Proceeds(r, IF rest \ ToSet(page) # {}
                            THEN [filing[r] EXCEPT !.found = found,
                                                   !.cursor = <<rows[page[size]].at, page[size]>>]
                            ELSE [filing[r] EXCEPT !.found = found, !.op = "listed"])
  /\ UNCHANGED <<rows, bodies, drawn, filingStops, late>>

ListEnd(r) ==
  /\ filing[r].op = "listed"
  /\ Proceeds(r, IF filing[r].to = filing[r].tray THEN Free
             ELSE [op |-> "copy", to |-> filing[r].to, todo |-> filing[r].found])
  /\ UNCHANGED <<rows, bodies, drawn, filingStops, late>>

\* One document after the other; one that is no longer there is passed over.
CopyRead(r) ==
  /\ filing[r].op = "copy"
  /\ IF filing[r].todo = << >> THEN Proceeds(r, Free)
     ELSE LET id   == Head(filing[r].todo)
              todo == Tail(filing[r].todo)
          IN Proceeds(r, IF id \in Held
                         THEN [op |-> "paste", to |-> filing[r].to, todo |-> todo, from |-> id,
                               ref |-> rows[id].ref]
                         ELSE [op |-> "copy", to |-> filing[r].to, todo |-> todo])
  /\ UNCHANGED <<rows, bodies, drawn, filingStops, late>>

CopyWrite(r) ==
  /\ filing[r].op = "paste"
  /\ \E id \in DocumentIds \ drawn :
       /\ drawn' = drawn \cup {id}
       /\ rows' = [rows EXCEPT ![id] = [tray |-> filing[r].to, ref |-> filing[r].ref, at |-> Now]]
       /\ late' = IF filing[r].from \in Held \ late THEN late ELSE late \cup {id}
  /\ Proceeds(r, [op |-> "copy", to |-> filing[r].to, todo |-> filing[r].todo])
  /\ UNCHANGED <<bodies, filingStops>>

Stop ==
  /\ filingStops < MaxFilingStops
  /\ filingStops' = filingStops + 1
  /\ filing' = [r \in Handlers |-> Free]
  /\ UNCHANGED <<rows, bodies, drawn, late>>

DocumentsNext ==
  \/ Stop
  \/ \E r \in Handlers :
       \/ FileRow(r) \/ RemoveRow(r) \/ RemoveCount(r) \/ RemoveBody(r)
       \/ ListPage(r) \/ ListEnd(r) \/ CopyRead(r) \/ CopyWrite(r)
       \/ \E tray \in Trays : FileBody(r, tray)
       \/ \E id \in DocumentIds : RemoveRead(r, id)
       \/ \E tray, to \in Trays : ListStart(r, tray, to)

DocumentsSpec == DocumentsInit /\ [][DocumentsNext]_documentVars

-------------------------------------------------------------------------------
(* Safety.                                                                     *)

\* However filing, copying and removing interleave, and wherever the server
\* stops, a document can only be broken when it is a copy whose source was taken
\* off its desk between the read of the source and the write of the copy (or a
\* copy of such a copy).
BrokenOnlyInFlight == \A id \in Held \ late : rows[id].ref \in bodies

\* While the server has not stopped, a body nobody names is on its way: being
\* filed, or being removed by the one who took the last row away.
NothingWasted ==
  filingStops = 0 =>
    \A ref \in bodies :
      \/ RowsNaming(ref) # {}
      \/ \E r \in Handlers : \/ filing[r].op = "file" /\ filing[r].id = ref
                             \/ filing[r].op \in {"count", "body"} /\ filing[r].ref = ref

\* A document that lies in a tray from the beginning of a listing to its end is
\* listed, and none is listed twice, whatever comes and goes between the pages.
ListedOnce ==
  \A r \in Handlers :
    filing[r].op = "listed" =>
      /\ filing[r].due \cap Held \subseteq ToSet(filing[r].found)
      /\ IsInjective(filing[r].found)

\* No document is listed twice or lost with its body, whatever is filed, copied,
\* removed and stopped halfway; a body without a row is wasted only while
\* something is under way (documents.ts).
ListsHold == DocumentsTypeOK /\ BrokenOnlyInFlight /\ NothingWasted /\ ListedOnce
===============================================================================
