----------------------------- MODULE MCChunking -----------------------------
(* Files of every format with up to three of these blocks. *)
EXTENDS Chunking

Text(place, roles) == [kind |-> "text", level |-> 0, place |-> place, cells |-> <<<<roles>>>>]
Block(kind, level, cells) == [kind |-> kind, level |-> level, place |-> <<0, 0, 0>>, cells |-> cells]
NoPage == <<0, 0, 0>>

w == "word"
d == "digit"
Short == <<w, "period", "blank", d, "period", d>>
Long == <<w, w, "comma", w, "semi", "blank", w, w, w, w, w, w, w, w, "newline", w, "stop", "period", w>>

MCBlocks ==
  {Block("heading", 1, <<<<<<w>>>>>>), Block("heading", 2, <<<<<<w>>>>>>),
   Text(NoPage, Short), Text(NoPage, Long),
   Block("code", 0, <<<<<<w, "newline", w, w, w, w, w>>>>>>),
   Block("table", 0, <<<<<<w>>, <<d>>>>, <<<<w>>, <<d, "period", d>>>>, <<<<w>>, <<d>>>>>>),
   Block("table", 0, <<<<<<w, w, w>>, <<w, w, w>>>>>>),
   Block("table", 0, <<<<<<w, d>>>>>>)}
PdfBlocks ==
  {Text(<<page, row, col>>, roles) :
     page \in 1..2, row \in 1..2, col \in {1}, roles \in {<<w>>, Short, <<w, w, w>>, <<"blank">>}}
  \cup {Text(<<1, 1, 2>>, <<w, w, "comma", w>>)}

UpTo(n, S) == UNION {[1..k -> S] : k \in 0..n}
MCFiles ==
  [format : {"md", "docx"}, pages : {0}, blocks : UpTo(3, MCBlocks)]
  \cup [format : {"pdf"}, pages : {2, 6}, blocks : UpTo(2, PdfBlocks)]
  \cup [format : {"pdf"}, pages : {0}, blocks : {<<>>}]
=============================================================================
