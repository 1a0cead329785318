------------------------------- MODULE MinerU -------------------------------
(***************************************************************************)
(* convert_mineru_payload: the content list of the MinerU command as a     *)
(* document.  A list has the pages whose size is known and items: a type,  *)
(* a heading level (0 for none), a page, a box, a text, and for a table    *)
(* rows of cells with their spans.                                         *)
(***************************************************************************)
EXTENDS DocumentIR

ItemPages(list) ==
  IF list.pages # {} THEN list.pages
  ELSE 1..Max({1} \cup {list.items[i].page : i \in DOMAIN list.items})
ItemIsHeading(item) == item.type \in {"title", "heading"} \/ item.level > 0
ItemText(i, item) == Marked(<<i>>, item.text)

\* A heading without text, or a text of nothing but NULs, cannot be normalised.
BreaksNormalizer(i, item) ==
  IF ItemIsHeading(item) THEN ~Shows(ItemText(i, item))
  ELSE item.type # "table" /\ Strip(ItemText(i, item)) # <<>> /\ ~Shows(ItemText(i, item))

\* A cell goes to the first column of its row, from where the last one ended, that no earlier
\* cell reaches.
PlaceCell(a, r, i, cell) ==
  LET col == CHOOSE c \in a.next..(a.next + Cardinality(a.taken)) :
               /\ <<r, c>> \notin a.taken
               /\ \A b \in a.next..(c - 1) : <<r, b>> \in a.taken
  IN  [cells |-> a.cells \cup
         {[row |-> r, col |-> col, height |-> cell.height, width |-> cell.width,
           text |-> Marked(<<i, r, col, 0>>, cell.text), colHead |-> cell.head \/ r = 1,
           rowHead |-> col = 1 /\ r > 1]},
       taken |-> a.taken \cup
         ((r..(r + cell.height - 1)) \X (col..(col + cell.width - 1))),
       next |-> col + cell.width]
TableOfCells(rows, cells) ==
  [rows |-> Max({rows} \cup {c.row + c.height - 1 : c \in cells}),
   cols |-> Max({c.col + c.width - 1 : c \in cells}),
   headers |-> {c.row : c \in {d \in cells : d.colHead}}, cells |-> cells]
TableOfItem(i, item) ==
  LET row(a, r) == FoldLeft(LAMBDA x, cell : PlaceCell(x, r, i, cell), [a EXCEPT !.next = 1],
                            item.rows[r])
  IN  TableOfCells(Len(item.rows),
                   FoldLeft(row, [cells |-> {}, taken |-> {}, next |-> 1],
                            [r \in DOMAIN item.rows |-> r]).cells)

\* An item adds an element, at the end of the path of the headings before it.
AddItem(a, i, item) ==
  LET text == ItemText(i, item)
      above == SubSeq(a.path, 1, Min({Len(a.path), Max({item.level, 1}) - 1}))
      spans == <<[page |-> item.page, box |-> item.box]>>
      kind == IF item.type = "formula" THEN "formula" ELSE "paragraph"
      add(e) == [a EXCEPT !.elements = Append(@, e)]
  IN  IF ItemIsHeading(item)
      THEN [add(Element(IF item.type = "title" THEN "title" ELSE "heading", text, above, spans))
              EXCEPT !.path = Append(above, Says(Normalized(text)))]
      ELSE IF item.type = "table" /\ item.rows # <<>>
      THEN add(TableElement(TableOfItem(i, item), a.path, spans, <<>>))
      ELSE IF item.type # "table" /\ Strip(text) # <<>> THEN add(Element(kind, text, a.path, spans))
      ELSE a

\* Items on a page that has no size are left out.
MinerUItems(list) ==
  SelectSeq([i \in DOMAIN list.items |-> i], LAMBDA i : list.items[i].page \in ItemPages(list))
ListElements(list) ==
  FoldLeft(LAMBDA a, i : AddItem(a, i, list.items[i]),
           [elements |-> <<>>, path |-> <<>>], MinerUItems(list)).elements
Rejected(doc) == [doc EXCEPT !.failed = @ \/ doc.orphaned]
MinerUIR(list) == Rejected(Document("mineru", TRUE, ItemPages(list), ListElements(list)))
=============================================================================
