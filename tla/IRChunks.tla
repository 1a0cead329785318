------------------------------ MODULE IRChunks ------------------------------
(***************************************************************************)
(* chunk_document_ir and chunk_table_element: the chunks of one element of *)
(* a document.  A table makes a parent chunk with its headers, a chunk of  *)
(* the text inside its box when the parser gives one, a chunk for each row *)
(* with a value, and one for each group of a row's values.                 *)
(***************************************************************************)
EXTENDS DocumentIR

PageRange(spans) ==
  LET pages == {spans[k].page : k \in DOMAIN spans} IN Min(pages)..Max(pages)

-----------------------------------------------------------------------------
(* Text *)

Unindexed == {"header", "footer", "figure"}
ElementTextChunks(e) ==
  LET whole == PageRange(e.spans)
      chunk(kind, text, pages) ==
        [kind |-> kind, path |-> e.path, text |-> text, pages |-> pages, parent |-> None]
      kind == IF e.kind \in {"title", "heading"} THEN "title" ELSE "text"
  IN  IF e.kind = "code" THEN <<chunk("code", e.text, {Min(whole)})>>
      ELSE Each(TextPieces(e.text), LAMBDA text : chunk(kind, text, whole))

-----------------------------------------------------------------------------
(* Tables *)

\* _header_path: the names above a column, from the top, or a name made of its number.
HeaderPath(table, col) ==
  LET heads(r) == CellOrder({c \in table.cells : c.colHead /\ Covers(c, r, col)})
      all == FlattenSeq([k \in 1..Cardinality(table.headers) |->
                           heads(Ascending(table.headers)[k])])
      add(path, cell) ==
        LET name == Says(Normalized(cell.text))
        IN  IF name = <<>> \/ (path # <<>> /\ Last(path) = name) THEN path ELSE Append(path, name)
      named(path) == IF path = <<>> THEN <<[k \in 1..col |-> "column"]>> ELSE path
  IN  named(FoldLeft(add, <<>>, all))

CellsFrom(table, r) == {c \in table.cells : c.row = r}
\* _row_headers: the cells marked so, else the first cell of the row.
RowHeads(table, r) ==
  LET marked == {c \in CellsFrom(table, r) : c.rowHead}
  IN  IF marked # {} THEN marked ELSE {c \in CellsFrom(table, r) :
                                         \A d \in CellsFrom(table, r) : c.col <= d.col}
RowValues(table, r) == {c \in CellsFrom(table, r) \ RowHeads(table, r) : Shows(c.text)}
ValuedRows(table) == {r \in 1..table.rows \ table.headers : RowValues(table, r) # {}}

GroupNames(table) == [col \in 1..table.cols |-> HeaderPath(table, col)[1]]
CellsText(cells) == Joined(Each(CellOrder(cells), LAMBDA c : c.text), "bar")
RowNeedsGroups(table, r) ==
  LET values == RowValues(table, r)
  IN  \/ Cardinality(table.headers) > 1
      \/ Len(CellsText(RowHeads(table, r) \cup values)) > MaxChars
      \/ Cardinality({GroupNames(table)[c.col] : c \in values}) < Cardinality(values)
      \/ Cardinality(RowHeads(table, r)) > 1

\* Mutant: a group for each value, with all values of its name.
GroupPerValue(values, name) ==
  Each(CellOrder(values), LAMBDA c : {d \in values : name[d.col] = name[c.col]})

\* The groups of a row's values in the order of their first values.
RowGroups(values, name) ==
  LET named(c) == {d \in values : name[d.col] = name[c.col]}
  IN  Each(CellOrder({c \in values : \A d \in named(c) : c.col <= d.col}), named)

TableElementChunks(e, i, parent) ==
  LET t == e.table
      chunk(part, text, row, heads, values) ==
        [kind |-> "table", path |-> e.path, text |-> text, pages |-> PageRange(e.spans),
         parent |-> IF part = "parent" THEN None ELSE parent,
         part |-> part, element |-> i, row |-> row, heads |-> heads, values |-> values]
      of(part, r, values) ==
        chunk(part, PutIn("bar") \o CellsText(RowHeads(t, r) \cup values), r, RowHeads(t, r), values)
      top == chunk("parent", Joined([k \in 1..Cardinality(t.headers) |->
                                       RowText(t, Ascending(t.headers)[k])], "newline")
                               \o PutIn("bar"), 0, {}, {})
      clip == IF Strip(e.clip) = <<>> THEN <<>> ELSE <<chunk("raw", Strip(e.clip), 0, {}, {})>>
      row(r) == <<of("row", r, RowValues(t, r))>> \o
                  (IF ~RowNeedsGroups(t, r) THEN <<>>
                   ELSE Each(RowGroups(RowValues(t, r), GroupNames(t)),
                             LAMBDA values : of("group", r, values)))
  IN  <<top>> \o clip \o FlattenSeq(Each(Ascending(ValuedRows(t)), row))

\* The chunks of element i when made of them come after `made` others.
ElementChunks(e, i, made) ==
  IF e.kind \in Unindexed THEN <<>>
  ELSE IF e.kind = "table" THEN TableElementChunks(e, i, made + 1)
  ELSE ElementTextChunks(e)
=============================================================================
