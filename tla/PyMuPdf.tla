------------------------------- MODULE PyMuPdf -------------------------------
(***************************************************************************)
(* The PyMuPDF parser: build_document_ir over what the library reads from  *)
(* a file.  A scan is a sequence of pages; a page has its text blocks, each *)
(* a box and its lines (a box, a font size and a text), and the tables that *)
(* were found, each a box, a number of columns and rows of cells, a cell   *)
(* being the sequence of its lines.                                        *)
(***************************************************************************)
EXTENDS DocumentIR

CONSTANTS
  Band,       \* height of the bands where headers and footers stand
  LineGap,    \* the largest gap between two lines of a paragraph
  OcrTextMin  \* characters below which a mostly empty file is refused

BlockText(b) == Joined([l \in DOMAIN b.lines |-> b.lines[l].text], "newline")

\* The texts of a file, each character with page, block (or table, row, column) and line.
Scan(pages) ==
  [p \in DOMAIN pages |->
     [blocks |-> [b \in DOMAIN pages[p].blocks |->
        [pages[p].blocks[b] EXCEPT !.lines =
           [l \in DOMAIN @ |-> [@[l] EXCEPT !.text = Marked(<<p, b, l>>, @)]]]],
      tables |-> [t \in DOMAIN pages[p].tables |->
        [pages[p].tables[t] EXCEPT !.rows =
           [r \in DOMAIN @ |-> [c \in DOMAIN @[r] |-> [l \in DOMAIN @[r][c] |->
              Marked(<<p, t, r, c, l>>, @[r][c][l])]]]]]]]

PageLines(page) == FlattenSeq([b \in DOMAIN page.blocks |-> page.blocks[b].lines])
ScanLines(scan) == FlattenSeq([p \in DOMAIN scan |-> PageLines(scan[p])])

-----------------------------------------------------------------------------
(* Columns *)

CrossingBlocks(page) ==
  {b \in DOMAIN page.blocks : /\ 2 * page.blocks[b].box[1] < Width
                              /\ 2 * page.blocks[b].box[3] > Width}
\* detect_columns: two columns when hardly a block crosses the middle of the page.
TwoColumns(page) ==
  LET n == Len(page.blocks)
      beside == DOMAIN page.blocks \ CrossingBlocks(page)
      left == {b \in beside : 2 * page.blocks[b].box[3] <= Width}
  IN  /\ n >= 4 /\ 100 * Cardinality(CrossingBlocks(page)) <= 15 * n
      /\ Cardinality(left) >= 2 /\ Cardinality(beside \ left) >= 2
ColumnOf(page, box) == IF TwoColumns(page) /\ box[1] + box[3] >= Width THEN 1 ELSE 0
\* 0.98 less the share of crossing blocks is at least 0.95.
ReadingOrderTrusted(page) ==
  TwoColumns(page) => 100 * Cardinality(CrossingBlocks(page)) <= 3 * Len(page.blocks)

-----------------------------------------------------------------------------
(* Headers and footers *)

InBand(b) == b.box[4] <= Band \/ b.box[2] >= Height - Band
Key(b) == Says(Normalized(BlockText(b)))
\* Blocks of a page whose text stands in its bands.
BandHits(page, key) ==
  {b \in DOMAIN page.blocks : InBand(page.blocks[b]) /\ Key(page.blocks[b]) = key}
\* find_repeated_band_texts: a text in the bands of two pages and of three in five; every block
\* of such a page with that text goes.
IsFurniture(scan, p, b) ==
  LET key == Key(scan[p].blocks[b])
      hits == {q \in DOMAIN scan : BandHits(scan[q], key) # {}}
  IN  key # <<>> /\ p \in hits /\ Cardinality(hits) >= Max({2, (6 * Len(scan)) \div 10})
FurnitureKind(page, b) ==
  LET first == Min(BandHits(page, Key(page.blocks[b])))
  IN  IF page.blocks[first].box[4] <= Band THEN "header" ELSE "footer"

-----------------------------------------------------------------------------
(* Paragraphs *)

\* compute_body_size: four times the first quartile of the line sizes (statistics.quantiles).
BodySize4(lines) ==
  LET size(l) == <<l.size>>
      s == Sorted(lines, size)
      n == Len(s)
      j == Max({1, Min({n - 1, (n + 1) \div 4})})
      d == n + 1 - 4 * j
  IN  IF n = 0 THEN 40 ELSE IF n = 1 THEN 4 * s[1].size
      ELSE s[j].size * (4 - d) + s[j + 1].size * d
IsLarge(line, body4) == 400 * line.size >= 115 * body4

\* classify_line_kind
LineKind(line, body4) ==
  IF Begins(line.text, "formula") THEN "formula"
  ELSE IF Begins(line.text, "bullet") THEN "list"
  ELSE IF IsLarge(line, body4) THEN "heading"
  ELSE IF Begins(line.text, "caption") THEN "caption" ELSE "paragraph"

\* merge_lines_into_paragraphs
Continues(page, a, b, body4) ==
  /\ ColumnOf(page, a.box) = ColumnOf(page, b.box)
  /\ b.box[2] - a.box[4] \in 0..LineGap
  /\ 5 * Max({a.size - b.size, b.size - a.size}) <= Max({a.size, b.size})
  /\ ~IsLarge(a, body4) /\ ~Begins(a.text, "caption") /\ ~Begins(b.text, "bullet")

\* Mutant: from the top of the page, across the columns.
LinesAcross(scan, p) ==
  LET body == SelectSeq([b \in DOMAIN scan[p].blocks |-> b],
                        LAMBDA b : ~IsFurniture(scan, p, b))
      place(l) == <<l.box[2], l.box[1]>>
  IN  Sorted(FlattenSeq([k \in DOMAIN body |-> scan[p].blocks[body[k]].lines]), place)

\* The lines of a page without its furniture, column by column from the top.
ReadLines(scan, p) ==
  LET body == SelectSeq([b \in DOMAIN scan[p].blocks |-> b],
                        LAMBDA b : ~IsFurniture(scan, p, b))
      place(l) == <<ColumnOf(scan[p], l.box), l.box[2], l.box[1]>>
  IN  Sorted(FlattenSeq([k \in DOMAIN body |-> scan[p].blocks[body[k]].lines]), place)
Paragraphs(scan, p, body4) ==
  FoldLeft(LAMBDA groups, line :
             IF groups # <<>> /\ Continues(scan[p], Last(Last(groups)), line, body4)
             THEN [groups EXCEPT ![Len(groups)] = Append(@, line)]
             ELSE Append(groups, <<line>>),
           <<>>, ReadLines(scan, p))

Spans(p, boxes) == [k \in DOMAIN boxes |-> [page |-> p, box |-> boxes[k]]]

-----------------------------------------------------------------------------
(* Tables *)

\* repair_extracted_table_rows: lines of cells that have equally many become rows; else every
\* cell keeps its first line only.  A number cut before its decimal point is joined again.
Stitched(row) ==
  LET whole(t) == Shows(t) /\ \A k \in DOMAIN Strip(t) : Strip(t)[k].role = "digit"
      fraction(t) == Len(Strip(t)) > 1 /\ Begins(t, "period") /\ Strip(t)[2].role = "digit"
  IN  FoldLeft(LAMBDA r, c :
                 IF whole(r[c - 1]) /\ fraction(r[c])
                 THEN [r EXCEPT ![c] = Strip(r[c - 1]) \o Strip(r[c]), ![c - 1] = <<>>] ELSE r,
               row, [k \in 1..(Len(row) - 1) |-> k + 1])
RepairedRow(row) ==
  LET many == {c \in DOMAIN row : Len(row[c]) > 1}
      counts == {Len(row[c]) : c \in many}
      aligned == Cardinality(many) >= 2 /\ Cardinality(counts) = 1
      line(c, l) == IF l \in DOMAIN row[c] THEN row[c][l] ELSE <<>>
  IN  [l \in 1..(IF aligned THEN Max(counts) ELSE 1) |->
         Stitched([c \in DOMAIN row |-> line(c, l)])]
RepairedRows(rows) == FlattenSeq([r \in DOMAIN rows |-> RepairedRow(rows[r])])

\* header_row_count: the rows before the first number.
HeaderRowCount(rows) ==
  LET numeric == {r \in DOMAIN rows : \E c \in DOMAIN rows[r] : Numeric(rows[r][c])}
  IN  IF numeric # {} THEN Min(numeric) - 1 ELSE IF rows = <<>> THEN 0 ELSE 1

\* build_table_data_from_primitive, of the repaired rows
IsMalformed(cols, rows) ==
  cols < 1 \/ rows = <<>> \/ \E r \in DOMAIN rows : Len(rows[r]) # cols
TableFrom(cols, rows, heads) ==
  [rows |-> Len(rows), cols |-> cols, headers |-> heads,
   cells |-> {[row |-> r, col |-> c, height |-> 1, width |-> 1, text |-> rows[r][c],
               colHead |-> r \in heads, rowHead |-> FALSE] : r \in DOMAIN rows, c \in 1..cols}]

\* The text inside the box of a table.
ClipText(t) == Joined(FlattenSeq(FlattenSeq(t.rows)), "newline")

-----------------------------------------------------------------------------
(* The document *)

\* Elements of a page after those before it; a heading is below the smallest larger size that
\* has had one, and sizes are never forgotten.
Furniture(scan, p) ==
  Each(SelectSeq([b \in DOMAIN scan[p].blocks |-> b], LAMBDA b : IsFurniture(scan, p, b)),
       LAMBDA b : Element(FurnitureKind(scan[p], b), BlockText(scan[p].blocks[b]), <<>>,
                          Spans(p, <<scan[p].blocks[b].box>>)))
PathUnder(a, size, text) ==
  LET larger == {s \in DOMAIN a.levels : s > size}
  IN  Append(IF larger = {} THEN <<>> ELSE a.levels[Min(larger)], Says(Normalized(text)))
AddText(a, kind, size, text, spans) ==
  IF kind # "heading"
  THEN [a EXCEPT !.elements = Append(@, Element(kind, text, a.path, spans))]
  ELSE LET path == PathUnder(a, size, text)
       IN  [elements |-> Append(a.elements, Element(kind, text, path, spans)), path |-> path,
            levels |-> (size :> path) @@ a.levels]
AddParagraph(a, p, group, body4) ==
  AddText(a, LineKind(group[1], body4), group[1].size,
          Joined([k \in DOMAIN group |-> group[k].text], "newline"),
          Spans(p, [k \in DOMAIN group |-> group[k].box]))
AddRows(a, p, t, rows) ==
  IF IsMalformed(t.cols, rows) THEN a
  ELSE [a EXCEPT !.elements =
          Append(@, TableElement(TableFrom(t.cols, rows, 1..HeaderRowCount(rows)), a.path,
                                 Spans(p, <<t.box>>), ClipText(t)))]
AddTable(a, p, t) == AddRows(a, p, t, RepairedRows(t.rows))
ElementsOf(scan) ==
  LET body4 == BodySize4(ScanLines(scan))
      page(a, p) ==
        LET text == FoldLeft(LAMBDA x, g : AddParagraph(x, p, g, body4),
                             [a EXCEPT !.elements = @ \o Furniture(scan, p)],
                             Paragraphs(scan, p, body4))
        IN  FoldLeft(LAMBDA x, t : AddTable(x, p, t), text, scan[p].tables)
  IN  FoldLeft(page, [elements |-> <<>>, path |-> <<>>, levels |-> <<>>],
               [p \in DOMAIN scan |-> p]).elements

\* check_ocr_required
NeedsOcr(scan) ==
  LET empty == {p \in DOMAIN scan : scan[p].blocks = <<>> /\ scan[p].tables = <<>>}
      size == FoldLeft(LAMBDA n, l : n + Len(l.text), 0, ScanLines(scan))
  IN  scan = <<>> \/ (5 * Cardinality(empty) > 4 * Len(scan) /\ size < OcrTextMin)

Audited(doc) == [doc EXCEPT !.failed = @ \/ doc.bad > 0 \/ doc.orphaned]
PyMuPdfIR(scan) ==
  Audited([Document("pymupdf", TRUE, DOMAIN scan, ElementsOf(scan)) EXCEPT
             !.malformed = \E p \in DOMAIN scan : \E t \in ToSet(scan[p].tables) :
                             IsMalformed(t.cols, RepairedRows(t.rows)),
             !.trusted = \A p \in DOMAIN scan : ReadingOrderTrusted(scan[p])])

\* fast_path_acceptable
FastPathAcceptable(ir) ==
  ~ir.malformed /\ ir.trusted /\ ir.bad = 0 /\ ~ir.orphaned /\ ~ir.failed
=============================================================================
