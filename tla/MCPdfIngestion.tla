--------------------------- MODULE MCPdfIngestion ---------------------------
(* Papers on pages of 8 by 20, and the files of MCChunking. *)
EXTENDS PdfIngestion, MCChunking

-----------------------------------------------------------------------------
(* What PyMuPDF reads *)

Line(x0, x1, y, size, roles) == [box |-> <<x0, y, x1, y + 1>>, size |-> size, text |-> roles]
OneLine(x0, x1, y, size, roles) ==
  [box |-> <<x0, y, x1, y + 1>>, lines |-> <<Line(x0, x1, y, size, roles)>>]
Running == OneLine(1, 7, 0, 10, <<w, d>>)
Stack(y, lines) ==
  [box |-> <<1, y, 7, y + Len(lines)>>,
   lines |-> [k \in DOMAIN lines |-> Line(1, 7, y + k - 1, lines[k][1], lines[k][2])]]

Prose == <<Running, Stack(4, <<<<12, <<w>>>>, <<10, <<w, w>>>>, <<10, <<w, "period", w, w, w>>>>>>)>>
Mixed == <<Running, Stack(4, <<<<10, <<"caption", w>>>>, <<10, <<w>>>>, <<10, <<"bullet", w>>>>>>),
           OneLine(1, 7, 12, 14, <<w, w>>), OneLine(1, 7, 14, 10, <<"formula", w>>)>>
Columns == <<OneLine(1, 3, 4, 10, <<w>>), OneLine(5, 7, 4, 14, <<w, w>>),
             OneLine(1, 3, 6, 12, <<w>>), OneLine(5, 7, 6, 10, <<w>>)>>
Spanned == <<OneLine(1, 7, 3, 12, <<w>>)>> \o Columns
             \o <<OneLine(1, 3, 8, 10, <<w>>), OneLine(5, 7, 8, 10, <<w>>)>>
Damaged(role) == <<OneLine(1, 7, 4, 10, <<w, role>>)>>
Outside == <<OneLine(1, 9, 4, 10, <<w>>)>>
MCPages == {Prose, Mixed, Columns, Spanned, Damaged("bad"), Damaged("nul"), Outside, <<>>}

\* Cells of one line unless they are given as lines.
Rows(rows) == [r \in DOMAIN rows |-> [c \in DOMAIN rows[r] |-> <<rows[r][c]>>]]
Found(cols, rows) == [box |-> <<1, 10, 7, 12>>, cols |-> cols, rows |-> rows]
Clean == Found(2, Rows(<<<<<<w>>, <<w, w>>>>, <<<<w>>, <<d>>>>>>))
MCTables ==
  {Clean,
   Found(2, Rows(<<<<<<w>>, <<w, w>>>>, <<<<d>>, <<d>>>>>>)),
   Found(2, Rows(<<<<<<w>>, <<d>>>>, <<<<w>>, <<d>>>>>>)),
   Found(3, Rows(<<<<<<w>>, <<>>, <<w, w>>>>, <<<<w>>, <<d>>, <<"period", d, d>>>>>>)),
   Found(2, <<<<<<<<w>>>>, <<<<w, w>>>>>>, <<<<<<w>>, <<w, w>>>>, <<<<d>>, <<d, d>>>>>>>>),
   Found(2, <<<<<<<<w>>>>, <<<<w, w>>>>>>, <<<<<<w>>, <<w, w>>>>, <<<<d>>>>>>>>),
   Found(2, Rows(<<<<<<w>>, <<w>>>>, <<<<w>>>>>>)),
   Found(2, Rows(<<<<<<w>>, <<w>>>>, <<<<w>>, <<>>>>, <<<<w, "bad">>, <<w>>>>>>)),
   Found(3, Rows(<<<<<<w>>, <<w, w>>, <<w, w>>>>, <<<<w>>, <<d>>, <<d>>>>>>)),
   Found(2, <<>>)}

\* A row of n numbers, the last of them with or without a name for its column; a number that
\* has no named column; and a damaged line below the one that a cell keeps.
Wide(n, named) ==
  Found(n + 1, Rows(<<[c \in 1..(n + 1) |-> IF c <= n \/ named THEN <<w>> ELSE <<>>],
                      [c \in 1..(n + 1) |-> IF c = 1 THEN <<w>> ELSE <<d>>]>>))
Unnamed == Found(2, Rows(<<<<<<w>>, <<>>>>, <<<<w>>, <<d>>>>>>))
HiddenDamage == Found(2, <<<<<<<<w>>>>, <<<<w, w>>>>>>, <<<<<<w>>>>, <<<<d>>, <<"bad">>>>>>>>)
TablesAtTheLimit ==
  {<<Wide(19, FALSE)>>, <<Wide(20, FALSE)>>, <<Wide(19, TRUE), Unnamed>>,
   <<Wide(18, TRUE), Unnamed>>, <<HiddenDamage>>}

Page(blocks, tables) == [blocks |-> blocks, tables |-> tables]
Scans ==
  {<<>>}
  \cup {<<Page(p, ts)>> : p \in MCPages, ts \in {<<>>} \cup {<<t>> : t \in MCTables}}
  \cup {<<Page(p, <<>>), Page(q, ts)>> : p, q \in MCPages, ts \in {<<>>, <<Clean>>}}
  \cup {<<Page(Prose, ts)>> : ts \in TablesAtTheLimit}
TableScans == {<<Page(Damaged("bad"), <<Clean>>), Page(<<>>, ts)>> : ts \in {<<>>, <<Clean>>}}

-----------------------------------------------------------------------------
(* What Docling exports *)

Node(coll, label, page) ==
  [coll |-> coll, label |-> label, layer |-> "body", level |-> 0, text |-> <<w, d>>,
   page |-> page, box |-> IF page = 2 THEN <<-1, 4, 7, 5>> ELSE None, children |-> <<>>,
   fits |-> TRUE, rows |-> 0, cols |-> 0, cells |-> {}]
Cell(r, c, height, width, roles, head) ==
  [row |-> r, col |-> c, height |-> height, width |-> width, text |-> roles, colHead |-> head,
   rowHead |-> FALSE]
Grid(page, rows, cols, cells) ==
  [Node("tables", "table", page) EXCEPT !.rows = rows, !.cols = cols, !.cells = cells]
Plain == Grid(1, 2, 2, {Cell(1, 1, 1, 1, <<w>>, FALSE), Cell(1, 2, 1, 1, <<w, w>>, FALSE),
                        Cell(2, 1, 1, 1, <<w>>, FALSE), Cell(2, 2, 1, 1, <<d>>, FALSE)})
TwoLevels ==
  Grid(2, 3, 3, {Cell(1, 1, 2, 1, <<w>>, TRUE), Cell(1, 2, 1, 2, <<w, w>>, TRUE),
                 Cell(2, 2, 1, 1, <<d>>, TRUE), Cell(2, 3, 1, 1, <<w>>, TRUE),
                 Cell(3, 1, 1, 1, <<>>, FALSE), Cell(3, 2, 1, 1, <<d>>, FALSE),
                 Cell(3, 3, 1, 1, <<d, d>>, FALSE)})
TallLabel ==
  Grid(1, 3, 2, {Cell(1, 1, 1, 1, <<w>>, FALSE), Cell(1, 2, 1, 1, <<w, w>>, FALSE),
                 Cell(2, 1, 2, 1, <<w>>, FALSE), Cell(2, 2, 1, 1, <<d>>, FALSE),
                 Cell(3, 2, 1, 1, <<d>>, FALSE)})
Overlap == [Plain EXCEPT !.cells = @ \cup {Cell(2, 1, 1, 2, <<d>>, FALSE)}]

Leaves ==
  {Node("texts", "text", 1), [Node("texts", "section_header", 2) EXCEPT !.level = 1],
   Node("texts", "subtitle", 1), Node("texts", "title", 1), Node("texts", "code", 2),
   [Node("texts", "text", 2) EXCEPT !.layer = "furniture"], Node("pictures", "picture", 1),
   Node("texts", "text", 3), Plain, TwoLevels, TallLabel, Overlap, [Plain EXCEPT !.fits = FALSE],
   Node("groups", "list", 0)}
Parents ==
  {[n EXCEPT !.children = refs] : n \in {Node("groups", "list", 0), Plain, Node("texts", "text", 1)},
                                  refs \in {<<2, 3>>, <<3, 1>>, <<2, 7>>}}
EmptyCode == [Node("texts", "code", 2) EXCEPT !.text = <<>>]
Exports ==
  [nodes : {<<n, m, k>> : n \in Leaves \cup Parents, m \in Leaves,
                          k \in {Node("texts", "text", 2), Plain}},
   pages : {{1, 2}}, furniture : {<<>>}, body : {<<1, 2>>}]
  \cup [nodes : {<<n, Plain, Node("texts", "page_header", 2)>> : n \in Leaves \cup Parents \cup {EmptyCode}},
        pages : {{2}, 1..3}, furniture : {<<3>>}, body : {<<1>>, <<1, 3>>, <<2, 8>>, <<>>}]
  \cup [nodes : {<<>>, <<Node("groups", "list", 0)>>}, pages : {{1}}, furniture : {<<>>}, body : {<<1>>}]
OneExport == [nodes |-> <<Node("texts", "text", 1)>>, pages |-> {1, 2}, furniture |-> <<>>, body |-> <<1>>]

-----------------------------------------------------------------------------
(* What MinerU lists *)

Item(type, level, page, roles, rows) ==
  [type |-> type, level |-> level, page |-> page, box |-> None, text |-> roles, rows |-> rows]
Td(roles, head, height, width) == [text |-> roles, head |-> head, height |-> height, width |-> width]
Items ==
  {Item("text", 1, 1, <<w>>, <<>>), Item("text", 2, 2, <<w, w>>, <<>>), Item("title", 0, 1, <<w>>, <<>>),
   Item("heading", 0, 1, <<>>, <<>>), Item("text", 0, 1, <<w, d>>, <<>>),
   Item("text", 0, 2, <<"blank">>, <<>>), Item("text", 0, 1, <<"nul">>, <<>>),
   Item("formula", 0, 3, <<w, "nul">>, <<>>), Item("table", 0, 1, <<>>, <<>>),
   Item("table", 0, 1, <<>>, <<<<Td(<<w>>, TRUE, 2, 1), Td(<<w, w>>, TRUE, 1, 2)>>,
                               <<Td(<<w>>, TRUE, 1, 1), Td(<<w, d>>, TRUE, 1, 1)>>,
                               <<Td(<<w>>, FALSE, 1, 1), Td(<<d>>, FALSE, 1, 1), Td(<<d, d>>, FALSE, 1, 1)>>>>),
   Item("table", 0, 2, <<>>, <<<<Td(<<w>>, FALSE, 1, 1), Td(<<w, w>>, FALSE, 1, 1)>>,
                               <<Td(<<w>>, FALSE, 1, 1), Td(<<d>>, FALSE, 1, 1)>>>>),
   Item("table", 0, 1, <<>>, <<<<Td(<<w>>, FALSE, 1, 1), Td(<<w>>, FALSE, 2, 1)>>,
                               <<Td(<<d>>, FALSE, 1, 2)>>>>)}
Lists == [items : UpTo(2, Items), pages : {{}, {1, 2}}]

-----------------------------------------------------------------------------

Paper(parsers, fallbacks, pins, scans, exports, lists) ==
  [format : {"paper"}, parser : parsers, fallback : fallbacks, pinned : pins, scan : scans,
   export : exports, list : lists]
NoList == [items |-> <<>>, pages |-> {}]
MCPapers ==
  Paper({"auto", "pymupdf"}, {FALSE}, {TRUE}, Scans, {OneExport}, {NoList})
  \cup Paper({"docling"}, BOOLEAN, {TRUE}, TableScans, Exports, {NoList})
  \cup Paper({"docling"}, {TRUE}, BOOLEAN, {<<>>}, {OneExport}, {NoList})
  \cup Paper({"mineru"}, {FALSE}, {TRUE}, {<<>>}, {OneExport}, Lists)
  \cup Paper({"mineru"}, {FALSE}, {FALSE}, {<<>>}, {OneExport}, {NoList})
\* A table with a label that spans two rows.
TallLabelPapers ==
  Paper({"docling"}, {TRUE}, {TRUE}, {<<>>}, [nodes : {<<n, m, k>> : n, m, k \in Leaves},
        pages : {{1, 2}}, furniture : {<<>>}, body : {<<1>>}], {NoList})
=============================================================================
