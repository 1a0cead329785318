------------------------------ MODULE Chunking ------------------------------
(***************************************************************************)
(* From an uploaded file to the chunk rows of its version: the loader of   *)
(* its format lists the paragraphs, chunk_document cuts them into chunks   *)
(* section by section, and RealChunker makes rows of them with the options *)
(* of ChunkConfig.default().                                               *)
(*                                                                         *)
(* A file is a sequence of blocks in the order they are stored.  A block   *)
(* has a kind, a heading level (0 for none), a place on a page (page, row  *)
(* and column; page 0 where the format has none) and its cells: rows of    *)
(* texts for a table, one text for any other kind.                         *)
(***************************************************************************)
EXTENDS Sentences

CONSTANTS
  Files,       \* the files: a format and blocks whose texts are sequences of roles
  SmallLimit,  \* small_document_char_threshold
  OcrMinimum   \* characters below which a mostly empty PDF is refused

Blocks ==
  {b \in [kind : {"heading", "text", "code", "table"}, level : Nat, place : Nat \X Nat \X Nat,
          cells : Seq(Seq(Seq(Roles)))] :
     /\ b.kind = "heading" => b.level > 0
     /\ b.kind # "table" => Len(b.cells) = 1 /\ Len(b.cells[1]) = 1}
ASSUME FilesAssumption ==
  /\ SmallLimit \in Nat /\ OcrMinimum \in Nat
  /\ \A f \in Files :
       f.format \in {"md", "docx", "pdf"} /\ f.pages \in Nat /\ f.blocks \in Seq(Blocks)

VARIABLES
  file,    \* the file at work
  paras,   \* paragraphs the loader listed
  next,    \* the paragraph that is read next
  run,     \* consecutive text paragraphs of a section not yet cut
  chunks,  \* the chunks made so far, in the order of their indexes
  state    \* loading, loaded, content, chunked, stored, or the code of the error that ended the job

vars == <<file, paras, next, run, chunks, state>>

-----------------------------------------------------------------------------
(* The characters of a file *)

\* Where a character comes from: block, row, cell and position.
CellText(b, r, c) ==
  LET text == file.blocks[b].cells[r][c]
  IN  [i \in DOMAIN text |-> Char(<<b, r, c, i>>, text[i])]
Separated(texts, sep) ==
  FlattenSeq([i \in DOMAIN texts |-> IF i = 1 THEN texts[i] ELSE sep \o texts[i]])
RowCells(b, r) == [c \in DOMAIN file.blocks[b].cells[r] |-> Strip(CellText(b, r, c))]
BlockCells(b) == FlattenSeq([r \in DOMAIN file.blocks[b].cells |-> RowCells(b, r)])

IsWord(c) == c.role \in {"word", "digit"} /\ c.at # <<>>
WordsOf(t) == Those(t, IsWord)
Lines(t) ==
  LET e == Ascending(Places(t, "newline") \cup {Len(t) + 1})
  IN  [k \in DOMAIN e |-> SubSeq(t, IF k = 1 THEN 1 ELSE e[k - 1] + 1, e[k] - 1)]

-----------------------------------------------------------------------------
(* Loaders *)

\* Markdown: each cell of a table is a line of its own.
MarkdownTable(b) == Separated(BlockCells(b), PutIn("newline"))

\* DOCX: a line for each row, with a line of dashes below the first.
Bar == Char(<<>>, "word")
Unbroken(t) == Each(t, OnOneLine)
DocxLine(b, r) == <<Bar>> \o Separated(Each(RowCells(b, r), Unbroken), <<Bar>>) \o <<Bar>>
DocxLines(b, r) ==
  IF r = 1 THEN <<DocxLine(b, r), <<Bar, Bar, Bar>>>> ELSE <<DocxLine(b, r)>>
DocxTable(b) ==
  Separated(FlattenSeq([r \in DOMAIN file.blocks[b].cells |-> DocxLines(b, r)]), PutIn("newline"))

\* PDF: text blocks only, page by page, from top to bottom and from left to right in a band.
PlaceOf(b) == file.blocks[b].place
ReadingOrder ==
  LET stored == [i \in DOMAIN file.blocks |-> i]
  IN  IF file.format = "pdf" THEN Sorted(stored, PlaceOf) ELSE stored

Paragraph(b) ==
  [block |-> b, kind |-> file.blocks[b].kind, page |-> file.blocks[b].place[1],
   level |-> IF file.blocks[b].kind = "heading" THEN file.blocks[b].level ELSE 0,
   text |-> Strip(IF file.blocks[b].kind # "table" THEN CellText(b, 1, 1)
                  ELSE IF file.format = "md" THEN MarkdownTable(b) ELSE DocxTable(b))]

SaysSomething(p) == p.text # <<>>
LoadedParagraphs == Those(Each(ReadingOrder, Paragraph), SaysSomething)
Size(ps) == Len(FlattenSeq([i \in DOMAIN ps |-> ps[i].text]))

-----------------------------------------------------------------------------
(* Heading tree *)

IsHeading(i) == paras[i].level > 0
Headings == {i \in DOMAIN paras : IsHeading(i)}

\* A heading is below the nearest heading before it of a smaller level; 0 is the virtual root.
ParentOf(h) == Max({0} \cup {g \in Headings : g < h /\ paras[g].level < paras[h].level})
\* The section of a paragraph is the last heading before it.
SectionOf(i) == Max({0} \cup {h \in Headings : h <= i})

\* Titles from the top down; headings with the same words are the same title.
TitleOf(h) == [k \in DOMAIN paras[h].text |-> paras[h].text[k].role]
PathOf(section) ==
  LET path[h \in 0..Len(paras)] ==
        IF h \in Headings THEN Append(path[ParentOf(h)], TitleOf(h)) ELSE <<>>
  IN  path[section]

\* Sections with content, in the order of the file.
TitledSections ==
  Ascending({h \in Headings : \E i \in DOMAIN paras \ Headings : SectionOf(i) = h})

-----------------------------------------------------------------------------
(* Chunks *)

Chunk(kind, section, text, pages, parent) ==
  [kind |-> kind, path |-> PathOf(section), text |-> text, pages |-> pages, parent |-> parent]

TitleChunk(h) == Chunk("title", h, paras[h].text, {}, None)
TitleChunks == Each(TitledSections, TitleChunk)

\* Mutant: the last title chunk, whatever its section.
LastTitle(section) == IF TitledSections = <<>> THEN None ELSE Len(TitledSections)

\* title_indices: by path, so that of two sections with one path the last counts.
TitleIndex(section) ==
  LET same == {k \in DOMAIN TitledSections : PathOf(TitledSections[k]) = PathOf(section)}
  IN  IF same = {} THEN None ELSE Max(same)

TextChunks(section, text, page) ==
  Each(TextPieces(text), LAMBDA t : Chunk("text", section, t, {page}, TitleIndex(section)))

\* The text paragraphs of a run are cut together, as paragraphs of the page of the first.
Flushed ==
  IF run = <<>> THEN <<>>
  ELSE TextChunks(SectionOf(run[1]),
                  Separated([k \in DOMAIN run |-> paras[run[k]].text], PutIn("newline")),
                  paras[run[1]].page)

\* A table that is too long is cut between lines; each part repeats the first two.
TopLines(lines) == SubSeq(lines, 1, 2)
TopSize(lines) == Len(lines[1]) + Len(lines[2]) + 2
NoParts(lines) == [parts |-> <<>>, part |-> <<>>, size |-> TopSize(lines)]
AddLine(a, line, lines) ==
  IF a.size + Len(line) + 1 > MaxChars /\ a.part # <<>>
  THEN [parts |-> Append(a.parts, a.part), part |-> <<line>>,
        size |-> TopSize(lines) + Len(line) + 1]
  ELSE [parts |-> a.parts, part |-> Append(a.part, line), size |-> a.size + Len(line) + 1]
PartLines(lines) ==
  LET after[k \in 0..(Len(lines) - 2)] ==
        IF k = 0 THEN NoParts(lines) ELSE AddLine(after[k - 1], lines[k + 2], lines)
      end == after[Len(lines) - 2]
  IN  IF end.part = <<>> THEN end.parts ELSE Append(end.parts, end.part)
TableParts(lines) ==
  [k \in DOMAIN PartLines(lines) |->
     Separated(TopLines(lines) \o PartLines(lines)[k], PutIn("newline"))]

TableChunksOf(i, lines) ==
  IF Len(lines) < 2 THEN TextChunks(SectionOf(i), paras[i].text, paras[i].page)
  ELSE Each(IF Len(paras[i].text) <= MaxChars THEN <<paras[i].text>> ELSE TableParts(lines),
            LAMBDA text : Chunk("table", SectionOf(i), text, {paras[i].page},
                                TitleIndex(SectionOf(i))))
TableChunks(i) == TableChunksOf(i, Lines(paras[i].text))

CodeChunk(i) ==
  Chunk("code", SectionOf(i), paras[i].text, {paras[i].page}, TitleIndex(SectionOf(i)))

-----------------------------------------------------------------------------
(* Steps of the job *)

Init ==
  /\ file \in Files
  /\ paras = <<>> /\ next = 1 /\ run = <<>> /\ chunks = <<>>
  /\ state = "loading"

\* More than four of five pages without text.
MostlyEmpty(ps) ==
  LET empty == {n \in 1..file.pages : \A i \in DOMAIN ps : ps[i].page # n}
  IN  5 * Cardinality(empty) > 4 * file.pages

Load ==
  LET ps == LoadedParagraphs IN
  /\ state = "loading"
  /\ state' = IF file.format = "pdf" /\ file.pages = 0 THEN "EMPTY_PDF"
              ELSE IF file.format = "pdf" /\ MostlyEmpty(ps) /\ Size(ps) < OcrMinimum
              THEN "OCR_REQUIRED"
              ELSE IF Size(ps) = 0 THEN "EMPTY_DOCUMENT" ELSE "loaded"
  /\ paras' = IF state' = "loaded" THEN ps ELSE <<>>
  /\ UNCHANGED <<file, next, run, chunks>>

\* A small document is one chunk, in the section of its first heading.
KeepWhole ==
  /\ state = "loaded" /\ Size(paras) <= SmallLimit
  /\ chunks' = <<[kind |-> "text",
                  path |-> IF Headings = {} THEN <<>> ELSE <<TitleOf(Min(Headings))>>,
                  text |-> Separated([i \in DOMAIN paras |-> paras[i].text],
                                     PutIn("newline") \o PutIn("newline")),
                  pages |-> {paras[i].page : i \in DOMAIN paras}, parent |-> None]>>
  /\ state' = "chunked"
  /\ UNCHANGED <<file, paras, next, run>>

MakeTitles ==
  /\ state = "loaded" /\ Size(paras) > SmallLimit
  /\ chunks' = TitleChunks
  /\ state' = "content"
  /\ UNCHANGED <<file, paras, next, run>>

Reading(kinds) == state = "content" /\ next <= Len(paras) /\ paras[next].kind \in kinds

EnterSection ==
  /\ Reading({"heading"})
  /\ chunks' = chunks \o Flushed /\ run' = <<>>
  /\ next' = next + 1
  /\ UNCHANGED <<file, paras, state>>

\* Mutant: text runs on over the end of a page.
TakeTextOn ==
  /\ Reading({"text"})
  /\ run' = Append(run, next) /\ next' = next + 1
  /\ UNCHANGED <<file, paras, chunks, state>>

TakeText ==
  /\ Reading({"text"})
  /\ IF run # <<>> /\ paras[next].page # paras[Last(run)].page
     THEN chunks' = chunks \o Flushed /\ run' = <<next>>
     ELSE run' = Append(run, next) /\ UNCHANGED chunks
  /\ next' = next + 1
  /\ UNCHANGED <<file, paras, state>>

TakeTable ==
  /\ Reading({"table"})
  /\ chunks' = chunks \o Flushed \o TableChunks(next) /\ run' = <<>>
  /\ next' = next + 1
  /\ UNCHANGED <<file, paras, state>>

TakeCode ==
  /\ Reading({"code"})
  /\ chunks' = Append(chunks \o Flushed, CodeChunk(next)) /\ run' = <<>>
  /\ next' = next + 1
  /\ UNCHANGED <<file, paras, state>>

EndOfDocument ==
  /\ state = "content" /\ next > Len(paras)
  /\ chunks' = chunks \o Flushed /\ run' = <<>>
  /\ state' = "chunked"
  /\ UNCHANGED <<file, paras, next>>

\* Rows get their indexes; a parent that was not made ends the job.
Store ==
  /\ state = "chunked"
  /\ state' = IF \A k \in DOMAIN chunks : chunks[k].parent \in DOMAIN chunks \cup {None}
              THEN "stored" ELSE "CHUNK_PARENT_INVALID"
  /\ UNCHANGED <<file, paras, next, run, chunks>>

Next ==
  Load \/ KeepWhole \/ MakeTitles \/ EnterSection \/ TakeText \/ TakeTable \/ TakeCode
  \/ EndOfDocument \/ Store

Spec == Init /\ [][Next]_vars

-----------------------------------------------------------------------------
(* Properties *)

ChunkKinds == {"text", "title", "table", "code"}

\* A chunk that has a parent is below an earlier title or table chunk of the same section
\* path (chunk_document, chunk_table_element), so RealChunker finds the parent it binds.
\* Only code may be empty (_add_code_chunk).
ParentsMade ==
  \A k \in DOMAIN chunks :
    LET c == chunks[k] IN
    /\ c.kind \in ChunkKinds /\ (c.text = <<>> => c.kind = "code")
    /\ c.parent # None =>
         /\ c.parent \in 1..(k - 1)
         /\ chunks[c.parent].kind \in {"title", "table"} /\ chunks[c.parent].path = c.path

\* The words of a text at their places, without what earlier texts held.
Content(kinds) == FlattenSeq([k \in DOMAIN chunks |->
                    IF chunks[k].kind \in kinds THEN WordsOf(chunks[k].text) ELSE <<>>])
FirstUses(t) ==
  FlattenSeq([i \in DOMAIN t |-> IF \A j \in 1..(i - 1) : t[j] # t[i] THEN <<t[i]>> ELSE <<>>])

\* An overlong table without a line below its first two makes no chunk.
HeadOnly(i) == /\ paras[i].kind = "table" /\ Len(paras[i].text) > MaxChars
               /\ Len(Lines(paras[i].text)) = 2

\* Cutting loses no word, repeats none but those of a table's first lines and keeps their
\* order: the words of the stored chunks, title chunks aside, are those of the paragraphs.
WordsKept ==
  state = "stored" /\ Size(paras) > SmallLimit =>
    LET words == FlattenSeq([i \in DOMAIN paras |->
                   IF IsHeading(i) \/ HeadOnly(i) THEN <<>> ELSE WordsOf(paras[i].text)])
    IN  /\ FirstUses(Content({"text", "table", "code"})) = words
        /\ \A i, j \in DOMAIN Content({"text", "code"}) :
             i # j => Content({"text", "code"})[i] # Content({"text", "code"})[j]

\* A text chunk of a larger document exceeds max_chunk_chars by at most the blank that joins
\* two sentences, and a part of a table only when it is a single line (_add_text_chunks,
\* _add_table_chunk).
ChunksFit ==
  Size(paras) > SmallLimit =>
    \A k \in DOMAIN chunks :
      /\ chunks[k].kind = "text" => Len(chunks[k].text) <= MaxChars + 1
      /\ chunks[k].kind = "table" /\ Len(chunks[k].text) > MaxChars =>
           Len(Lines(chunks[k].text)) = 3

\* The pages a chunk is cited with are those its words are on: text is not merged across
\* pages (_chunk_content).
PagesAreOfTheWords ==
  \A k \in {i \in DOMAIN chunks : paras # <<>>} :
    chunks[k].kind # "title" =>
      {file.blocks[c.at[1]].place[1] : c \in ToSet(WordsOf(chunks[k].text))}
        \subseteq chunks[k].pages
=============================================================================
