----------------------------- MODULE DocumentIR -----------------------------
(***************************************************************************)
(* The canonical IR of a parsed PDF: elements in reading order, tables as  *)
(* cells on a grid, and the checks a parsed document has to pass.  Texts   *)
(* are those of Sentences with more roles: a replacement character (bad),  *)
(* a NUL (nul), and the mark a bullet, a caption or a formula begins with. *)
(*                                                                         *)
(* A span is a page and a box, or a page and None; a box is a tuple of the *)
(* left, upper, right and lower edge.  Rows and columns are counted from 1.*)
(***************************************************************************)
EXTENDS Sentences

CONSTANTS
  Width, Height  \* of every page

-----------------------------------------------------------------------------
(* Texts *)

\* normalize_for_retrieval: NULs go, line breaks become blanks.
Normalized(t) == Strip(Each(SelectSeq(t, LAMBDA c : c.role # "nul"), OnOneLine))
Says(t) == [i \in DOMAIN t |-> t[i].role]
Shows(t) == Normalized(t) # <<>>
StartsAs(t, role) == t # <<>> /\ t[1].role = role
Begins(t, role) == StartsAs(Normalized(t), role)
Numeric(t) == Begins(t, "digit")
BadIn(t) == Cardinality(Places(Normalized(t), "bad"))
Marked(place, roles) == [i \in DOMAIN roles |-> Char(Append(place, i), roles[i])]
Joined(texts, role) ==
  FlattenSeq([i \in DOMAIN texts |-> IF i = 1 THEN texts[i] ELSE PutIn(role) \o texts[i]])

-----------------------------------------------------------------------------
(* Tables *)

IsHeader(cell) == cell.colHead \/ cell.rowHead
Covers(cell, r, c) ==
  /\ r \in cell.row..(cell.row + cell.height - 1)
  /\ c \in cell.col..(cell.col + cell.width - 1)

\* The cells of a set from the upper left to the lower right.
CellOrder(cells) ==
  LET place(cell) == <<cell.row, cell.col>>
  IN  Sorted(FoldSet(LAMBDA cell, list : Append(list, cell), <<>>, cells), place)

\* render_table_grid: a header is repeated wherever it covers, a value stands at its origin.
TextAt(cell, r, c) ==
  IF IsHeader(cell) /\ ~Shows(cell.text) THEN PutIn("column")
  ELSE IF IsHeader(cell) \/ <<cell.row, cell.col>> = <<r, c>> THEN Normalized(cell.text) ELSE <<>>
FirstText(cells, r, c) == IF cells = <<>> THEN <<>> ELSE TextAt(cells[1], r, c)
GridText(table, r, c) ==
  FirstText(CellOrder({cell \in table.cells : Covers(cell, r, c)}), r, c)
RowText(table, r) ==
  PutIn("bar") \o FlattenSeq([c \in 1..table.cols |-> GridText(table, r, c) \o PutIn("bar")])
Markdown(table) == Joined([r \in 1..table.rows |-> RowText(table, r)], "newline")

\* count_orphan_numeric_cells: a merged header counts for its first column only.
NumericCells(table) == {c \in table.cells : ~IsHeader(c) /\ Numeric(c.text)}
HeaderColumns(table) == {c.col : c \in {d \in table.cells : d.colHead /\ Shows(d.text)}}
RowIsLabelled(table, r) ==
  \E label \in table.cells : /\ label.row = r /\ label.col = 1 /\ ~label.colHead
                             /\ Shows(label.text) /\ ~Numeric(label.text)
Orphans(table) ==
  {c \in NumericCells(table) :
     c.col \notin HeaderColumns(table) \/ table.headers = {} \/ ~RowIsLabelled(table, c.row)}

SumOver(S, f(_)) == FoldSet(LAMBDA x, n : f(x) + n, 0, S)
\* Mutant: one orphan for each twenty numbers begun.
MoreThanRounded(tables) ==
  SumOver(tables, LAMBDA t : Cardinality(Orphans(t)))
    > (SumOver(tables, LAMBDA t : Cardinality(NumericCells(t))) + 19) \div 20
\* More than one in twenty numbers of the tables together has no path of headers.
TooManyOrphans(tables) ==
  20 * SumOver(tables, LAMBDA t : Cardinality(Orphans(t)))
    > SumOver(tables, LAMBDA t : Cardinality(NumericCells(t)))

-----------------------------------------------------------------------------
(* Documents *)

Element(kind, text, path, spans) ==
  [kind |-> kind, text |-> text, path |-> path, spans |-> spans, table |-> None, clip |-> <<>>]
TableElement(table, path, spans, clip) ==
  [kind |-> "table", text |-> Markdown(table), path |-> path, spans |-> spans,
   table |-> table, clip |-> clip]
TablesOf(elements) == {e.table : e \in {x \in ToSet(elements) : x.kind = "table"}}

\* A parsed document with its metrics; a document without elements has failed.  Malformed tables
\* and the trust in the reading order count only for PyMuPDF, which sets them.
Document(parser, pinned, pages, elements) ==
  [parser |-> parser, pinned |-> pinned, pages |-> pages, elements |-> elements,
   bad |-> FoldLeft(LAMBDA n, e : n + BadIn(e.text), 0, elements),
   orphaned |-> TooManyOrphans(TablesOf(elements)),
   malformed |-> FALSE, trusted |-> TRUE, failed |-> elements = <<>>]

Overlapping(table) ==
  \E a, b \in table.cells : a # b /\ \E r \in 1..table.rows, c \in 1..table.cols :
                                       Covers(a, r, c) /\ Covers(b, r, c)
OutsideGrid(table) ==
  \E a \in table.cells :
    a.row + a.height - 1 > table.rows \/ a.col + a.width - 1 > table.cols
OutsidePage(box) == box[1] < 0 \/ box[2] < 0 \/ box[3] > Width \/ box[4] > Height
HasNul(e) ==
  \/ Places(e.text, "nul") # {}
  \/ e.kind = "table" /\ \E c \in e.table.cells : Places(c.text, "nul") # {}

\* validate_document_ir: the codes of what is wrong.
Issues(ir) ==
  LET all == ToSet(ir.elements)
      tables == TablesOf(ir.elements)
      boxed == {s \in UNION {ToSet(e.spans) : e \in all} : s.page \in ir.pages /\ s.box # None}
      broken ==
        [PAGE_SEQUENCE            |-> ir.pages # 1..Cardinality(ir.pages),
         PROVENANCE_MISSING       |-> \E e \in all : e.spans = <<>>,
         BBOX_OUT_OF_BOUNDS       |-> \E s \in boxed : OutsidePage(s.box),
         TABLE_HEADER_ROW_INVALID |-> \E t \in tables : ~ t.headers \subseteq 1..t.rows,
         TABLE_CELL_OUT_OF_BOUNDS |-> \E t \in tables : OutsideGrid(t),
         TABLE_OVERLAP            |-> \E t \in tables : Overlapping(t),
         TEXT_NUL                 |-> \E e \in all : HasNul(e),
         REVISION_UNKNOWN         |-> ~ir.pinned,
         HARD_FAILURES_PRESENT    |-> ir.failed]
  IN  {code \in DOMAIN broken : broken[code]}
=============================================================================
