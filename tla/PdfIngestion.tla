---------------------------- MODULE PdfIngestion ----------------------------
(***************************************************************************)
(* The parsing and chunking of every upload: files that a loader reads     *)
(* (Chunking) and papers, PDF files that V2PDFDocumentParser reads with    *)
(* the parser of the settings.  A paper is what the three tools make of    *)
(* one file: PyMuPDF's scan, Docling's export and MinerU's list.           *)
(***************************************************************************)
EXTENDS Chunking, PyMuPdf, Docling, MinerU, IRChunks

CONSTANTS
  Papers  \* papers with the settings they are read with

ASSUME PapersAssumption ==
  \A f \in Papers :
    /\ f.format = "paper" /\ f.parser \in {"auto", "pymupdf", "docling", "mineru"}
    /\ f.fallback \in BOOLEAN /\ f.pinned \in BOOLEAN

VARIABLES
  todo,      \* references of Docling's tree that are still to be read
  heads,     \* the headings above the next node
  ir,        \* the parsed document; while the tree is walked, its elements
  leftover   \* MinerU's output directory of this document exists

pdfVars == <<todo, heads, ir, leftover>>
allVars == <<vars, pdfVars>>

ScanOf(f) == Scan(f.scan)

\* An indexing before this one may have left MinerU's output directory, which is never removed.
PdfInit ==
  /\ \/ Init
     \/ /\ file \in Papers
        /\ paras = <<>> /\ next = 1 /\ run = <<>> /\ chunks = <<>>
        /\ state = "parsing"
  /\ todo = <<>> /\ heads = <<>> /\ ir = None
  /\ leftover \in (IF state = "parsing" /\ file.parser = "mineru" THEN BOOLEAN ELSE {FALSE})

\* The job goes on with a document, or ends with the code of an error.
Parsed(doc) == ir' = doc /\ state' = "parsed"
Fail(code) == ir' = None /\ state' = code
Go(s) == state' = s /\ UNCHANGED ir

-----------------------------------------------------------------------------
(* PyMuPDF and the router *)

Routed(doc) ==
  IF file.parser = "auto" /\ ~FastPathAcceptable(doc) THEN Go("layout") ELSE Parsed(doc)

ParseFast ==
  LET scan == ScanOf(file) IN
  /\ state = "parsing" /\ file.parser \in {"auto", "pymupdf"}
  /\ IF NeedsOcr(scan) THEN Fail("OCR_REQUIRED")
     ELSE Routed(PyMuPdfIR(scan))
  /\ UNCHANGED <<file, paras, next, run, chunks, todo, heads, leftover>>

-----------------------------------------------------------------------------
(* Docling *)

UsesDocling == state = "layout" \/ (state = "parsing" /\ file.parser = "docling")

\* External: the library is missing, fails, or runs out of memory.
ExportFails ==
  /\ UsesDocling
  /\ \E code \in {"PDF_PARSER_UNAVAILABLE", "PDF_PARSE_FAILED", "PDF_PARSER_OOM"} : Fail(code)
  /\ UNCHANGED <<file, paras, next, run, chunks, todo, heads, leftover>>

Export ==
  LET nodes == file.export.nodes IN
  /\ UsesDocling
  /\ IF \A n \in DOMAIN nodes : nodes[n].coll = "groups"
     THEN Fail("OCR_REQUIRED") /\ UNCHANGED todo
     ELSE /\ ir' = <<>> /\ state' = "walking"
          /\ todo' = Refs(file.export.furniture, {}) \o Refs(file.export.body, {})
  /\ heads' = <<>>
  /\ UNCHANGED <<file, paras, next, run, chunks, leftover>>

Walking == state = "walking" /\ todo # <<>>

SkipReference ==
  /\ Walking /\ IsDangling(file.export, Head(todo))
  /\ todo' = Tail(todo)
  /\ UNCHANGED <<vars, heads, ir, leftover>>

\* A node with children is only a way to them.
EnterNode ==
  /\ Walking /\ HasChildren(file.export, Head(todo))
  /\ todo' = ChildRefs(file.export, Head(todo)) \o Tail(todo)
  /\ UNCHANGED <<vars, heads, ir, leftover>>

EmitNode ==
  /\ Walking /\ ~IsDangling(file.export, Head(todo)) /\ ~HasChildren(file.export, Head(todo))
  /\ LET emitted == Emitted(file.export, Head(todo).ref, heads)
     IN  ir' = ir \o emitted.elements /\ heads' = emitted.heads
  /\ todo' = Tail(todo)
  /\ UNCHANGED <<vars, leftover>>

\* The fallback is without effect when PyMuPDF refuses the file.
EndOfTree ==
  LET doc == Document("docling", file.pinned, file.export.pages, ir) IN
  /\ state = "walking" /\ todo = <<>>
  /\ Parsed(IF file.fallback /\ ~NeedsOcr(ScanOf(file))
            THEN Merged(doc, PyMuPdfIR(ScanOf(file))) ELSE doc)
  /\ UNCHANGED <<file, paras, next, run, chunks, todo, heads, leftover>>

-----------------------------------------------------------------------------
(* MinerU *)

RefuseMinerU ==
  /\ state = "parsing" /\ file.parser = "mineru"
  /\ ~file.pinned \/ leftover
  /\ Fail(IF ~file.pinned THEN "PDF_PARSER_UNAVAILABLE" ELSE "PDF_PARSE_FAILED")
  /\ UNCHANGED <<file, paras, next, run, chunks, todo, heads, leftover>>

StartsMinerU == state = "parsing" /\ file.parser = "mineru" /\ file.pinned /\ ~leftover

\* External: the command is missing, is stopped by the timeout, fails, or leaves no content list.
MinerUFails ==
  /\ StartsMinerU
  /\ \/ Fail("PDF_PARSER_UNAVAILABLE") /\ UNCHANGED leftover
     \/ Fail("PDF_PARSE_FAILED") /\ leftover' \in BOOLEAN
  /\ UNCHANGED <<file, paras, next, run, chunks, todo, heads>>

Checked(doc) == IF Issues(doc) # {} THEN Fail("PDF_LAYOUT_INVALID") ELSE Parsed(doc)

RunMinerU ==
  /\ StartsMinerU
  /\ leftover' = TRUE
  /\ IF \E k \in DOMAIN MinerUItems(file.list) :
          BreaksNormalizer(MinerUItems(file.list)[k], file.list.items[MinerUItems(file.list)[k]])
     THEN Fail("INTERNAL_ERROR")
     ELSE Checked(MinerUIR(file.list))
  /\ UNCHANGED <<file, paras, next, run, chunks, todo, heads>>

-----------------------------------------------------------------------------
(* From the document to the chunks *)

Validate ==
  /\ state = "parsed"
  /\ IF Issues(ir) # {} THEN Fail("PDF_LAYOUT_INVALID")
     ELSE IF \A k \in DOMAIN ir.elements : ir.elements[k].text = <<>> THEN Fail("EMPTY_DOCUMENT")
     ELSE Go("valid")
  /\ UNCHANGED <<file, paras, next, run, chunks, todo, heads, leftover>>

ChunkElement ==
  /\ state = "valid" /\ next <= Len(ir.elements)
  /\ chunks' = chunks \o ElementChunks(ir.elements[next], next, Len(chunks))
  /\ next' = next + 1
  /\ UNCHANGED <<file, paras, run, state, pdfVars>>

EndOfElements ==
  /\ state = "valid" /\ next > Len(ir.elements)
  /\ state' = "chunked"
  /\ UNCHANGED <<file, paras, next, run, chunks, pdfVars>>

PdfNext ==
  \/ ParseFast \/ ExportFails \/ Export \/ SkipReference \/ EnterNode \/ EmitNode \/ EndOfTree
  \/ RefuseMinerU \/ MinerUFails \/ RunMinerU
  \/ Validate \/ ChunkElement \/ EndOfElements
  \/ (Next /\ UNCHANGED pdfVars)

PdfSpec == PdfInit /\ [][PdfNext]_allVars

-----------------------------------------------------------------------------
(* Properties *)

ParseErrors ==
  {"OCR_REQUIRED", "EMPTY_DOCUMENT", "PDF_PARSER_UNAVAILABLE", "PDF_PARSE_FAILED",
   "PDF_PARSER_OOM", "PDF_LAYOUT_INVALID", "INTERNAL_ERROR"}

\* Types; a chunk that has a parent is below an earlier title or table chunk with its path, so
\* that neither a file nor a paper ends with CHUNK_PARENT_INVALID (RealChunker.chunk).
DocumentsTypeOK ==
  /\ state \in {"loading", "loaded", "content", "parsing", "layout", "walking", "parsed", "valid",
                "chunked", "stored", "EMPTY_PDF"} \cup ParseErrors
  /\ file.format = "paper" => paras = <<>>
  /\ \A k \in DOMAIN todo : todo[k].above \subseteq DOMAIN file.export.nodes
  /\ \A k, h \in DOMAIN heads : k < h => heads[k].level < heads[h].level
  /\ ParentsMade

PaperStored == file.format = "paper" /\ state = "stored"
StoredText == FlattenSeq([k \in DOMAIN chunks |->
                IF chunks[k].kind = "table" THEN <<>> ELSE WordsOf(chunks[k].text)])
Times(c, t) == Cardinality({i \in DOMAIN t : t[i] = c})

\* A block whose text stands in the bands of another page too.
IsRepeated(scan, p, b) ==
  /\ BandHits(scan[p], Key(scan[p].blocks[b])) # {}
  /\ \E q \in DOMAIN scan \ {p} : BandHits(scan[q], Key(scan[p].blocks[b])) # {}
\* Where a word of a scan stands: page, column and upper edge.
PlaceOnPage(scan, c) ==
  LET box == scan[c.at[1]].blocks[c.at[2]].lines[c.at[3]].box
  IN  <<c.at[1], ColumnOf(scan[c.at[1]], box), box[2]>>
\* Nodes that the references from the top of an export lead to.
Reached(export) ==
  FoldLeft(LAMBDA S, k : S \cup UNION {ToSet(export.nodes[n].children) : n \in S \cap DOMAIN export.nodes},
           ToSet(export.furniture) \cup ToSet(export.body), export.nodes)
IsTextLeaf(node) ==
  node.coll = "texts" /\ node.children = <<>> /\ NodeKind(node) \notin Unindexed

\* The text of a stored paper is all there: with PyMuPDF every word outside repeated headers
\* and footers is in exactly one chunk, page by page, the left column before the right and
\* each from the top (build_document_ir, chunk_document_ir); with Docling the words of every
\* text without children that the tree leads to are in a chunk, whatever else in the tree
\* dangles, has no place or is a table that does not fit (visit).
PageTextKept ==
  PaperStored =>
    LET scan == ScanOf(file)
        words(b) == ToSet(WordsOf(BlockText(b)))
    IN  /\ ir.parser = "pymupdf" =>
             /\ \A p \in DOMAIN scan : \A b \in DOMAIN scan[p].blocks :
                  ~IsRepeated(scan, p, b) =>
                    \A c \in words(scan[p].blocks[b]) : Times(c, StoredText) = 1
             /\ \A j \in DOMAIN StoredText : \A i \in 1..(j - 1) :
                  ~Precedes(PlaceOnPage(scan, StoredText[j]), PlaceOnPage(scan, StoredText[i]))
        /\ ir.parser = "docling" =>
             \A n \in Reached(file.export) \cap DOMAIN file.export.nodes :
               IsTextLeaf(file.export.nodes[n]) =>
                 ToSet(WordsOf(Marked(<<n>>, file.export.nodes[n].text))) \subseteq ToSet(StoredText)

ChunksOf(i, part) == {k \in DOMAIN chunks : chunks[k].kind = "table" /\ chunks[k].element = i
                                             /\ chunks[k].part = part}
Holding(i, part, cell) == {k \in ChunksOf(i, part) : cell \in chunks[k].values}

\* A value of a stored table, in a row with a first cell of its own, is in exactly one row
\* chunk, with the cells that label its row, and in exactly one of the row's group chunks when
\* there are any; all are below the one parent chunk of the table (chunk_table_element).
TableValuesOnce ==
  PaperStored =>
    \A i \in DOMAIN ir.elements : ir.elements[i].kind = "table" =>
      LET table == ir.elements[i].table IN
      /\ Cardinality(ChunksOf(i, "parent")) = 1
      /\ \A cell \in table.cells :
           (/\ cell.row \notin table.headers /\ cell.col > 1 /\ ~cell.rowHead /\ Shows(cell.text)
            /\ \E first \in table.cells : first.row = cell.row /\ first.col = 1) =>
             /\ Cardinality(Holding(i, "row", cell)) = 1
             /\ \A k \in Holding(i, "row", cell) :
                  /\ chunks[k].parent \in ChunksOf(i, "parent")
                  /\ {c \in table.cells : c.row = cell.row /\ c.col = 1} \subseteq chunks[k].heads
             /\ Cardinality(Holding(i, "group", cell)) =
                  IF \E k \in ChunksOf(i, "group") : chunks[k].row = cell.row THEN 1 ELSE 0

\* No page of a stored paper has tables of two parsers (merge_pymupdf_table_fallback); only
\* tables of PyMuPDF carry the text inside their box.
OneTableSourcePerPage ==
  PaperStored =>
    \A k, h \in DOMAIN chunks :
      (/\ chunks[k].kind = "table" /\ chunks[h].kind = "table"
       /\ chunks[k].pages \cap chunks[h].pages # {}) =>
        (ChunksOf(chunks[k].element, "raw") = {} <=> ChunksOf(chunks[h].element, "raw") = {})

\* A paper that auto takes from PyMuPDF is within the limits of fast_path_acceptable as it is
\* stored: no chunk has a replacement character, but for the text inside the box of a table,
\* which nobody counts; and of the numbers in its row chunks at most one in twenty, over all its
\* tables, lacks a named column or a label that is not itself a number.
FastPathClean ==
  PaperStored /\ file.parser = "auto" /\ ir.parser = "pymupdf" =>
    LET inTable == {k \in DOMAIN chunks : chunks[k].kind = "table"}
        raw == {k \in inTable : chunks[k].part = "raw"}
        rows == {k \in inTable : chunks[k].part = "row"}
        numbers == {n \in rows \X UNION {chunks[k].values : k \in rows} :
                      n[2] \in chunks[n[1]].values /\ Numeric(n[2].text)}
        named(k, cell) == \E c \in ir.elements[chunks[k].element].table.cells :
                            c.colHead /\ c.col = cell.col /\ Shows(c.text)
        labelled(k) == \E c \in chunks[k].heads : Shows(c.text) /\ ~Numeric(c.text)
    IN  /\ \A k \in DOMAIN chunks \ raw : Places(chunks[k].text, "bad") = {}
        /\ 20 * Cardinality({n \in numbers : ~(named(n[1], n[2]) /\ labelled(n[1]))})
             <= Cardinality(numbers)

\* docs/pdf-ingestion-v2-spec.md says that every data row of a table makes a row chunk.
DataRowsStored ==
  PaperStored =>
    \A i \in DOMAIN ir.elements : ir.elements[i].kind = "table" =>
      \A cell \in NumericCells(ir.elements[i].table) :
        cell.row \notin ir.elements[i].table.headers =>
          \E k \in ChunksOf(i, "row") : chunks[k].row = cell.row
=============================================================================
