------------------------------- MODULE Docling -------------------------------
(***************************************************************************)
(* The Docling parser: build_document_ir_from_docling over the exported    *)
(* tree, one node at a time, and the merge of PyMuPDF's tables.            *)
(*                                                                         *)
(* An export has the pages with a size, the nodes (texts, tables, pictures *)
(* and groups), and the references below furniture and body.  A reference  *)
(* is the number of a node; any other number dangles.                      *)
(***************************************************************************)
EXTENDS DocumentIR

LabelKinds ==
  [title |-> "title", section_header |-> "heading", subtitle |-> "heading",
   list_item |-> "list", caption |-> "caption", code |-> "code", formula |-> "formula",
   page_header |-> "header", page_footer |-> "footer"]

\* _map_kind
NodeKind(node) ==
  LET kind == IF node.label \in DOMAIN LabelKinds THEN LabelKinds[node.label] ELSE "paragraph"
  IN  IF node.coll = "pictures" THEN "figure"
      ELSE IF node.layer = "furniture" /\ kind \notin {"header", "footer"} THEN "header"
      ELSE kind

\* normalize_text drops NULs.
WithoutNul(t) == SelectSeq(t, LAMBDA c : c.role # "nul")

\* _provenance_spans; boxes are clamped to the page.
NodeSpans(export, node) ==
  IF node.page \notin export.pages THEN <<>>
  ELSE <<[page |-> node.page,
          box |-> IF node.box = None THEN None
                  ELSE <<Max({node.box[1], 0}), Max({node.box[2], 0}),
                         Min({node.box[3], Width}), Min({node.box[4], Height})>>]>>

-----------------------------------------------------------------------------
(* Tables *)

GridRow(node, r) == {c \in node.cells : r \in c.row..(c.row + c.height - 1) /\ c.text # <<>>}
\* _table_header_rows: the leading rows of column headers, else the first row.
LeadingHeaders(node) ==
  {r \in 1..node.rows :
     \A q \in 1..r : GridRow(node, q) # {} /\ \A c \in GridRow(node, q) : c.colHead}
HeaderRows(node) == IF LeadingHeaders(node) = {} THEN {1} ELSE LeadingHeaders(node)

\* build_table_from_docling
TableOfNode(n, node) ==
  LET heads == HeaderRows(node)
  IN  [rows |-> node.rows, cols |-> node.cols, headers |-> heads,
       cells |-> {[cell EXCEPT
                     !.text = WithoutNul(Marked(<<n, cell.row, cell.col, 0>>, @)),
                     !.colHead = @ \/ cell.row \in heads,
                     !.rowHead = @ \/ (cell.col = 1 /\ cell.row \notin heads)] :
                    cell \in node.cells}]

-----------------------------------------------------------------------------
(* Walking the tree *)

Refs(refs, above) == [k \in DOMAIN refs |-> [ref |-> refs[k], above |-> above]]
IsDangling(export, visit) == visit.ref \notin DOMAIN export.nodes \/ visit.ref \in visit.above
HasChildren(export, visit) == ~IsDangling(export, visit) /\ export.nodes[visit.ref].children # <<>>
ChildRefs(export, visit) ==
  Refs(export.nodes[visit.ref].children, visit.above \cup {visit.ref})

PathOfHeads(heads) == [k \in DOMAIN heads |-> heads[k].text]

\* The headings above the next element once this one was read; levels grow along them.
HeadsAfter(node, text, heads) ==
  LET level == IF node.level > 0 THEN node.level ELSE Len(heads) + 1
  IN  IF NodeKind(node) # "heading" THEN heads
      ELSE Append(SelectSeq(heads, LAMBDA h : h.level < level),
                  [level |-> level, text |-> Says(Normalized(text))])

\* emit_item and emit_table: no element for a table whose grid does not fit its shape, nor for
\* a group.
Emitted(export, n, heads) ==
  LET node == export.nodes[n]
      text == WithoutNul(Marked(<<n>>, node.text))
      kind == NodeKind(node)
      path == IF kind \in {"title", "header", "footer"} THEN <<>>
              ELSE IF kind = "heading" THEN Front(PathOfHeads(HeadsAfter(node, text, heads)))
              ELSE PathOfHeads(heads)
  IN  IF node.coll = "groups" \/ (node.coll = "tables" /\ ~node.fits)
      THEN [elements |-> <<>>, heads |-> heads]
      ELSE IF node.coll = "tables"
      THEN [elements |-> <<TableElement(TableOfNode(n, node), PathOfHeads(heads),
                                        NodeSpans(export, node), <<>>)>>,
            heads |-> heads]
      ELSE [elements |-> <<Element(kind, text, path, NodeSpans(export, node))>>,
            heads |-> HeadsAfter(node, text, heads)]

-----------------------------------------------------------------------------
(* merge_pymupdf_table_fallback *)

SpanPages(e) == {e.spans[k].page : k \in DOMAIN e.spans}
TablePages(elements) == UNION {SpanPages(e) : e \in {x \in ToSet(elements) : x.kind = "table"}}

\* Elements with their reading order.
Numbered(elements) == [k \in DOMAIN elements |-> [element |-> elements[k], order |-> k]]

\* Mutant: the page of a table is not looked at.
AllTables(primary, fallback) == SelectSeq(Numbered(fallback), LAMBDA x : x.element.kind = "table")

\* Tables of pages for which Docling has none.
AddedTables(primary, fallback) ==
  SelectSeq(Numbered(fallback),
            LAMBDA x : /\ x.element.kind = "table" /\ x.element.spans # <<>>
                       /\ SpanPages(x.element) \cap TablePages(primary) = {})
\* Everything is sorted again by page, upper edge and the order it was read in; what has no
\* page or edge comes last.
PlaceInFile(x) ==
  LET tops == {s.box[2] : s \in {y \in ToSet(x.element.spans) : y.box # None}}
      end == 1000 + Height
  IN  <<Min(SpanPages(x.element) \cup {end}), Min(tops \cup {end}), x.order>>
WithElements(ir, elements) ==
  [ir EXCEPT !.elements = elements, !.orphaned = TooManyOrphans(TablesOf(elements))]
WithTables(ir, added) ==
  IF added = <<>> THEN ir
  ELSE WithElements(ir, Each(Sorted(Numbered(ir.elements) \o added, PlaceInFile),
                             LAMBDA x : x.element))
Merged(ir, fallback) == WithTables(ir, AddedTables(ir.elements, fallback.elements))
=============================================================================
