---------------------------- MODULE ChunkingProofs ----------------------------
(***************************************************************************)
(* Theorems about Chunking, within PdfIngestion, for any files and limits: *)
(* the chunks of a file have all its words, in order, in pieces that fit   *)
(* and that cite the pages their words are on.                             *)
(*                                                                         *)
(* The inductive invariant UploadInv says that the chunks made so far tell *)
(* the words before the run that is not yet cut, each at its first use.    *)
(* It can be extended by a paragraph because no two paragraphs have a word *)
(* in common: a word is at a place of a block, and a loader lists a block  *)
(* once.  ParentsInv adds that the title chunks come first and that every  *)
(* other chunk is under one with its path, or under none.                  *)
(***************************************************************************)
EXTENDS PdfIngestion, TextProofs

-----------------------------------------------------------------------------
(* Paragraphs of a file *)

\* The words of a text are characters of it; they differ when its characters do.
LEMMA WordsAreCharacters ==
  ASSUME NEW t \in Texts
  PROVE  /\ \A c \in ToSet(WordsOf(t)) : \E k \in 1..Len(t) : c = t[k] /\ IsWord(c)
         /\ Distinct(t) => Distinct(WordsOf(t))
<1> DEFINE N == Len(t)
           p == [k \in DOMAIN t |-> IF IsWord(t[k]) THEN <<t[k]>> ELSE <<>>]
<1>1. N \in Nat /\ DOMAIN t = 1..N /\ \A k \in 1..N : t[k] \in Characters
  BY LenProperties, ElementOfSeq DEF Texts
<1>2. WordsOf(t) = FlattenSeq(p)
  BY DEF WordsOf, Those
<1>3. \A k \in 1..N : /\ p[k] \in Seq(Characters) /\ Distinct(p[k])
                      /\ \A c \in ToSet(p[k]) : c = t[k] /\ IsWord(c)
  <2> TAKE k \in 1..N
  <2>1. CASE IsWord(t[k])
    <3>1. p[k] = <<t[k]>>
      BY <1>1, <2>1
    <3> HIDE DEF p
    <3>2. <<t[k]>> \in Seq(Characters)
      BY <1>1
    <3> QED BY <2>1, <3>1, <3>2, FewMembers
  <2>2. CASE ~IsWord(t[k])
    <3>1. p[k] = <<>>
      BY <1>1, <2>2
    <3> HIDE DEF p
    <3>2. <<>> \in Seq(Characters)
      OBVIOUS
    <3> QED BY <3>1, <3>2, FewMembers
  <2> QED BY <2>1, <2>2
<1>4. p \in Seq(Seq(Characters)) /\ Len(p) = N
  <2>1. p = [k \in 1..N |-> p[k]]
    BY <1>1
  <2> HIDE DEF p
  <2>2. p \in [1..N -> Seq(Characters)]
    BY <1>3, <2>1
  <2> QED BY <1>1, <2>2
<1> HIDE DEF p, N
<1>5. /\ ToSet(FlattenSeq(p)) = UNION {ToSet(p[k]) : k \in 1..N}
      /\ (/\ \A k \in 1..N : Distinct(p[k])
          /\ \A j, k \in 1..N : j < k => ToSet(p[j]) \cap ToSet(p[k]) = {})
         => Distinct(FlattenSeq(p))
  BY <1>4, FlattenMembers
<1>6. ASSUME NEW c \in ToSet(WordsOf(t)) PROVE \E k \in 1..N : c = t[k] /\ IsWord(c)
  <2>1. PICK k \in 1..N : c \in ToSet(p[k])
    BY <1>2, <1>5
  <2> QED BY <1>3, <2>1
<1>7. ASSUME Distinct(t) PROVE Distinct(WordsOf(t))
  <2>1. \A j, k \in 1..N : j < k => t[j] # t[k]
    <3>1. \A j, k \in 1..N : j < k => j # k
      BY <1>1
    <3> QED BY <1>1, <1>7, <3>1 DEF Distinct
  <2>2. \A j, k \in 1..N : j < k => ToSet(p[j]) \cap ToSet(p[k]) = {}
    <3> TAKE j, k \in 1..N
    <3> HAVE j < k
    <3>1. t[j] # t[k]
      BY <2>1
    <3> QED BY <1>3, <3>1
  <2> QED BY <1>2, <1>3, <1>5, <2>2
<1> QED BY <1>6, <1>7 DEF N

\* The same for the words of several texts that share none.
LEMMA WordsOfSeveral ==
  ASSUME NEW s \in Seq(Texts)
  PROVE  /\ \A c \in ToSet(WordsIn(s)) : \E k \in 1..Len(s) : c \in ToSet(WordsOf(s[k]))
         /\ \A k \in 1..Len(s) : ToSet(WordsOf(s[k])) \subseteq ToSet(WordsIn(s))
         /\ (/\ \A k \in 1..Len(s) : Distinct(WordsOf(s[k]))
             /\ \A j, k \in 1..Len(s) : j < k => ToSet(WordsOf(s[j])) \cap ToSet(WordsOf(s[k])) = {})
            => Distinct(WordsIn(s))
<1> DEFINE N == Len(s)
           p == [k \in DOMAIN s |-> WordsOf(s[k])]
<1>1. N \in Nat /\ DOMAIN s = 1..N /\ \A k \in 1..N : s[k] \in Texts
  BY LenProperties, ElementOfSeq
<1>2. WordsIn(s) = FlattenSeq(p)
  BY DEF WordsIn
<1>3. \A k \in 1..N : p[k] = WordsOf(s[k]) /\ p[k] \in Texts
  BY <1>1, WordsOfText
<1>4. p \in Seq(Seq(Characters)) /\ Len(p) = N
  <2>1. p = [k \in 1..N |-> p[k]]
    BY <1>1
  <2> HIDE DEF p
  <2>2. p \in [1..N -> Seq(Characters)]
    BY <1>3, <2>1 DEF Texts
  <2> QED BY <1>1, <2>2
<1> HIDE DEF p
<1>5. /\ ToSet(FlattenSeq(p)) = UNION {ToSet(p[k]) : k \in 1..N}
      /\ (/\ \A k \in 1..N : Distinct(p[k])
          /\ \A j, k \in 1..N : j < k => ToSet(p[j]) \cap ToSet(p[k]) = {})
         => Distinct(FlattenSeq(p))
  BY <1>4, FlattenMembers
<1>6. \A k \in 1..N : ToSet(p[k]) = ToSet(WordsOf(s[k]))
  BY <1>3
<1> DEFINE w == WordsIn(s)
<1>7. ToSet(w) = UNION {ToSet(p[k]) : k \in 1..N}
  BY <1>2, <1>5
<1> HIDE DEF w, N
<1>8. \A c \in ToSet(w) : \E k \in 1..N : c \in ToSet(WordsOf(s[k]))
  BY <1>6, <1>7
<1>9. \A k \in 1..N : ToSet(WordsOf(s[k])) \subseteq ToSet(w)
  BY <1>6, <1>7
<1>10. ASSUME /\ \A k \in 1..N : Distinct(WordsOf(s[k]))
              /\ \A j, k \in 1..N : j < k => ToSet(WordsOf(s[j])) \cap ToSet(WordsOf(s[k])) = {}
       PROVE  Distinct(w)
  BY <1>2, <1>3, <1>5, <1>6, <1>10 DEF w
<1> QED BY <1>8, <1>9, <1>10 DEF w, N

\* A place in a table of the file at work.
IsCell(b, r, c) ==
  /\ b \in 1..Len(file.blocks) /\ r \in 1..Len(file.blocks[b].cells)
  /\ c \in 1..Len(file.blocks[b].cells[r])

\* Types of a block of a file.
LEMMA BlockOfFile ==
  ASSUME file \in Files, NEW b \in 1..Len(file.blocks)
  PROVE  /\ file.blocks \in Seq(Blocks) /\ Len(file.blocks) \in Nat
         /\ file.blocks[b] \in Blocks
         /\ DOMAIN file.blocks = 1..Len(file.blocks)
         /\ file.blocks[b].cells \in Seq(Seq(Seq(Roles)))
         /\ file.blocks[b].place \in Nat \X Nat \X Nat
<1>1. file.blocks \in Seq(Blocks)
  BY FilesAssumption
<1>2. /\ Len(file.blocks) \in Nat
      /\ DOMAIN file.blocks = 1..Len(file.blocks)
      /\ file.blocks[b] \in Blocks
  BY <1>1, LenProperties, ElementOfSeq
<1> DEFINE x == file.blocks[b]
<1>3. x \in Blocks
  BY <1>2
<1> HIDE DEF x
<1>4. x.cells \in Seq(Seq(Seq(Roles))) /\ x.place \in Nat \X Nat \X Nat
  BY <1>3 DEF Blocks
<1> QED BY <1>1, <1>2, <1>4 DEF x

\* The characters of a cell are at distinct places of its block.
LEMMA CellTextPlaces ==
  ASSUME file \in Files, NEW b, NEW r, NEW c, IsCell(b, r, c)
  PROVE  /\ CellText(b, r, c) \in Texts /\ Distinct(CellText(b, r, c))
         /\ \A k \in 1..Len(CellText(b, r, c)) : CellText(b, r, c)[k].at = <<b, r, c, k>>
<1> DEFINE text == file.blocks[b].cells[r][c]
           t == CellText(b, r, c)
           N == Len(text)
<1>1. text \in Seq(Roles) /\ b \in Nat /\ r \in Nat /\ c \in Nat
  <2>1. b \in 1..Len(file.blocks) /\ r \in 1..Len(file.blocks[b].cells)
        /\ c \in 1..Len(file.blocks[b].cells[r])
    BY DEF IsCell
  <2>2. file.blocks[b].cells \in Seq(Seq(Seq(Roles)))
    BY <2>1, BlockOfFile
  <2>3. file.blocks[b].cells[r] \in Seq(Seq(Roles))
    BY <2>1, <2>2, ElementOfSeq
  <2>4. text \in Seq(Roles)
    BY <2>1, <2>3, ElementOfSeq
  <2> QED BY <2>1, <2>4
<1>2. t = [k \in DOMAIN text |-> Char(<<b, r, c, k>>, text[k])]
  BY DEF CellText
<1> HIDE DEF text, t
<1>3. N \in Nat /\ DOMAIN text = 1..N /\ \A k \in 1..N : text[k] \in Roles
  BY <1>1, LenProperties, ElementOfSeq
<1>4. t = [k \in 1..N |-> Char(<<b, r, c, k>>, text[k])]
  BY <1>2, <1>3
<1>5. ASSUME NEW k \in 1..N PROVE t[k] \in Characters /\ t[k].at = <<b, r, c, k>>
  <2>1. t[k] = [at |-> <<b, r, c, k>>, role |-> text[k]]
    BY <1>4 DEF Char
  <2>2. <<b, r, c, k>> \in Seq(Nat)
    BY <1>1, <1>3
  <2>3. text[k] \in AnyRole
    BY <1>3 DEF AnyRole
  <2> QED BY <2>1, <2>2, <2>3 DEF Characters
<1>6. t \in Texts /\ Len(t) = N
  <2>1. t \in [1..N -> Characters]
    BY <1>4, <1>5
  <2> QED BY <1>3, <2>1 DEF Texts
<1>7. Distinct(t)
  <2> SUFFICES ASSUME NEW i \in 1..N, NEW j \in 1..N, i # j PROVE t[i] # t[j]
    BY <1>4 DEF Distinct
  <2>1. <<b, r, c, i>> # <<b, r, c, j>>
    <3>1. <<b, r, c, i>>[4] = i /\ <<b, r, c, j>>[4] = j
      OBVIOUS
    <3> QED BY <3>1
  <2> QED BY <1>5, <2>1
<1> QED BY <1>5, <1>6, <1>7 DEF t

\* The words of a row and of a table.
LEMMA RowWords ==
  ASSUME file \in Files, NEW b \in 1..Len(file.blocks), NEW r \in 1..Len(file.blocks[b].cells)
  PROVE  /\ RowCells(b, r) \in Seq(Texts)
         /\ Distinct(WordsIn(RowCells(b, r)))
         /\ \A x \in ToSet(WordsIn(RowCells(b, r))) : x.at[1] = b /\ x.at[2] = r
<1> DEFINE s == RowCells(b, r)
           N == Len(file.blocks[b].cells[r])
<1>1. N \in Nat /\ DOMAIN file.blocks[b].cells[r] = 1..N
  <2>1. file.blocks[b].cells \in Seq(Seq(Seq(Roles)))
    BY BlockOfFile
  <2>2. file.blocks[b].cells[r] \in Seq(Seq(Roles))
    BY <2>1, ElementOfSeq
  <2> QED BY <2>2, LenProperties
<1>2. s = [c \in 1..N |-> Strip(CellText(b, r, c))]
  BY <1>1 DEF RowCells
<1>3. \A c \in 1..N : IsCell(b, r, c)
  BY DEF IsCell
<1> HIDE DEF N, s
<1>4. ASSUME NEW c \in 1..N
      PROVE  /\ s[c] \in Texts /\ Distinct(WordsOf(s[c]))
             /\ \A x \in ToSet(WordsOf(s[c])) : x.at[1] = b /\ x.at[2] = r /\ x.at[3] = c
  <2> DEFINE t == CellText(b, r, c)
  <2>1. t \in Texts /\ Distinct(t) /\ \A k \in 1..Len(t) : t[k].at = <<b, r, c, k>>
    BY <1>3, CellTextPlaces
  <2>2. s[c] = Strip(t)
    BY <1>2
  <2> HIDE DEF t
  <2>3. Strip(t) \in Texts /\ WordsOf(Strip(t)) = WordsOf(t)
    BY <2>1, StripKeepsWords
  <2>4. Distinct(WordsOf(t)) /\ \A x \in ToSet(WordsOf(t)) : \E k \in 1..Len(t) : x = t[k]
    BY <2>1, WordsAreCharacters
  <2>5. \A k : <<b, r, c, k>>[1] = b /\ <<b, r, c, k>>[2] = r /\ <<b, r, c, k>>[3] = c
    OBVIOUS
  <2>6. \A x \in ToSet(WordsOf(t)) : x.at[1] = b /\ x.at[2] = r /\ x.at[3] = c
    BY <2>1, <2>4, <2>5
  <2> QED BY <2>2, <2>3, <2>4, <2>6
<1>5. s \in Seq(Texts) /\ Len(s) = N
  <2>1. s \in [1..N -> Texts]
    BY <1>2, <1>4
  <2> QED BY <1>1, <2>1 DEF N
<1>6. Distinct(WordsIn(s))
  <2>1. \A c \in 1..Len(s) : Distinct(WordsOf(s[c]))
    BY <1>4, <1>5
  <2>2. \A c, d \in 1..Len(s) : c < d => ToSet(WordsOf(s[c])) \cap ToSet(WordsOf(s[d])) = {}
    <3> TAKE c, d \in 1..Len(s)
    <3> HAVE c < d
    <3>1. c \in 1..N /\ d \in 1..N /\ c # d
      BY <1>1, <1>5 DEF N
    <3> QED BY <1>4, <3>1
  <2> QED BY <1>5, <2>1, <2>2, WordsOfSeveral
<1>7. \A x \in ToSet(WordsIn(s)) : x.at[1] = b /\ x.at[2] = r
  <2> TAKE x \in ToSet(WordsIn(s))
  <2>1. PICK c \in 1..Len(s) : x \in ToSet(WordsOf(s[c]))
    BY <1>5, WordsOfSeveral
  <2> QED BY <1>4, <1>5, <2>1
<1> QED BY <1>5, <1>6, <1>7 DEF s

\* Every row of cells; the words of all of them.
RowsOf(b) == [r \in 1..Len(file.blocks[b].cells) |-> RowCells(b, r)]
TableWords(b) == WordsIn(FlattenSeq(RowsOf(b)))

\* The words of the cells of a table are distinct and of its block.
LEMMA WordsOfTable ==
  ASSUME file \in Files, NEW b \in 1..Len(file.blocks)
  PROVE  /\ RowsOf(b) \in Seq(Seq(Texts)) /\ Len(RowsOf(b)) = Len(file.blocks[b].cells)
         /\ Distinct(TableWords(b)) /\ \A x \in ToSet(TableWords(b)) : x.at[1] = b
         /\ TableWords(b) \in Texts
         /\ TableWords(b) = FlattenSeq([r \in 1..Len(RowsOf(b)) |-> WordsIn(RowCells(b, r))])
<1> DEFINE N == Len(file.blocks[b].cells)
           rows == RowsOf(b)
           w == [r \in 1..N |-> WordsIn(rows[r])]
<1>1. N \in Nat
  BY BlockOfFile, LenProperties
<1>2. rows = [r \in 1..N |-> RowCells(b, r)]
  BY DEF RowsOf
<1>3. \A r \in 1..N : /\ rows[r] \in Seq(Texts) /\ rows[r] = RowCells(b, r)
                      /\ Distinct(WordsIn(rows[r]))
                      /\ \A x \in ToSet(WordsIn(rows[r])) : x.at[1] = b /\ x.at[2] = r
  BY <1>2, RowWords
<1> HIDE DEF N, rows
<1>4. rows \in Seq(Seq(Texts)) /\ Len(rows) = N
  <2>1. rows \in [1..N -> Seq(Texts)]
    BY <1>2, <1>3
  <2> QED BY <1>1, <2>1
<1>5. /\ w \in Seq(Texts) /\ WordsIn(FlattenSeq(rows)) = FlattenSeq(w)
      /\ FlattenSeq(rows) \in Seq(Texts)
  BY <1>4, WordsInFlatten
<1>6. Len(w) = N /\ \A r \in 1..N : w[r] = WordsIn(rows[r])
  BY <1>1
<1>7. w = [r \in 1..N |-> WordsIn(RowCells(b, r))]
  BY <1>3
<1> HIDE DEF w
<1>8. w \in Seq(Seq(Characters))
  BY <1>5 DEF Texts
<1>9. /\ ToSet(FlattenSeq(w)) = UNION {ToSet(w[k]) : k \in 1..N}
      /\ (/\ \A k \in 1..N : Distinct(w[k])
          /\ \A j, k \in 1..N : j < k => ToSet(w[j]) \cap ToSet(w[k]) = {})
         => Distinct(FlattenSeq(w))
  BY <1>6, <1>8, FlattenMembers
<1>10. \A j, k \in 1..N : j < k => ToSet(w[j]) \cap ToSet(w[k]) = {}
  <2> TAKE j, k \in 1..N
  <2> HAVE j < k
  <2>1. j # k
    BY <1>1 DEF N
  <2> QED BY <1>3, <1>6, <2>1
<1>11. Distinct(FlattenSeq(w)) /\ \A x \in ToSet(FlattenSeq(w)) : x.at[1] = b
  BY <1>3, <1>6, <1>9, <1>10
<1>12. WordsIn(FlattenSeq(rows)) \in Texts
  BY <1>5, WordsInTexts
<1> QED BY <1>4, <1>5, <1>7, <1>11, <1>12 DEF TableWords, rows, N

\* A line break within a cell becomes a blank: the words stay.
LEMMA UnbrokenKeepsWords ==
  ASSUME NEW t \in Texts
  PROVE  Unbroken(t) \in Texts /\ WordsOf(Unbroken(t)) = WordsOf(t)
<1> DEFINE u == Unbroken(t)
           N == Len(t)
<1>1. N \in Nat /\ DOMAIN t = 1..N /\ \A k \in 1..N : t[k] \in Characters
  BY LenProperties, ElementOfSeq DEF Texts
<1>2. u = [k \in 1..N |-> OnOneLine(t[k])]
  BY <1>1 DEF Unbroken, Each
<1>3. \A c \in Characters : OnOneLine(c) \in Characters
                            /\ (OnOneLine(c) = c \/ (~IsWord(c) /\ ~IsWord(OnOneLine(c))))
  BY DEF OnOneLine, Characters, AnyRole, Roles, IsWord
<1> HIDE DEF u, N
<1>4. \A k \in 1..N : u[k] \in Characters /\ (t[k] = u[k] \/ (~IsWord(t[k]) /\ ~IsWord(u[k])))
  BY <1>1, <1>2, <1>3
<1>5. u \in Texts /\ Len(u) = N
  <2>1. u \in [1..N -> Characters]
    BY <1>2, <1>4
  <2> QED BY <1>1, <2>1 DEF Texts
<1>6. WordsOf(t) = WordsOf(u)
  BY <1>4, <1>5, SameWords DEF N
<1> QED BY <1>5, <1>6 DEF u

\* The bars and dashes of a table in DOCX are no words.
LEMMA BarText ==
  /\ <<Bar>> \in Texts /\ WordsOf(<<Bar>>) = <<>>
  /\ <<Bar, Bar, Bar>> \in Texts /\ WordsOf(<<Bar, Bar, Bar>>) = <<>>
<1> DEFINE c == Bar
<1>1. c \in Characters /\ ~IsWord(c)
  <2>1. c = [at |-> <<>>, role |-> "word"]
    BY DEF Bar, Char
  <2>2. <<>> \in Seq(Nat) /\ "word" \in AnyRole
    BY DEF AnyRole, Roles
  <2> QED BY <2>1, <2>2 DEF Characters, IsWord
<1> HIDE DEF c
<1>2. <<c>> \in Texts /\ Len(<<c>>) = 1 /\ <<c>>[1] = c
  BY <1>1 DEF Texts
<1>3. /\ <<c, c, c>> \in Texts /\ Len(<<c, c, c>>) = 3
      /\ <<c, c, c>>[1] = c /\ <<c, c, c>>[2] = c /\ <<c, c, c>>[3] = c
  BY <1>1 DEF Texts
<1>4. WordsOf(<<c>>) = <<>>
  BY <1>1, <1>2, NoWords
<1>5. WordsOf(<<c, c, c>>) = <<>>
  <2>1. \A k \in 1..3 : <<c, c, c>>[k] = c
    BY <1>3
  <2> QED BY <1>1, <1>3, <2>1, NoWords
<1> QED BY <1>2, <1>3, <1>4, <1>5 DEF c

\* The lines of a table in DOCX have the words of its rows.
LEMMA DocxLinesKeepWords ==
  ASSUME file \in Files, NEW b \in 1..Len(file.blocks), NEW r \in 1..Len(file.blocks[b].cells)
  PROVE  DocxLines(b, r) \in Seq(Texts) /\ WordsIn(DocxLines(b, r)) = WordsIn(RowCells(b, r))
<1> DEFINE s == RowCells(b, r)
           u == Each(s, Unbroken)
           line == DocxLine(b, r)
           m == Separated(u, <<Bar>>)
           w == WordsIn(s)
           B == <<Bar>>
<1>1. s \in Seq(Texts)
  BY RowWords
<1>2. line = B \o m \o B
  BY DEF DocxLine
<1> HIDE DEF s
<1>3. Len(s) \in Nat /\ DOMAIN s = 1..Len(s) /\ \A k \in 1..Len(s) : s[k] \in Texts
  BY <1>1, LenProperties, ElementOfSeq
<1>4. u = [k \in 1..Len(s) |-> Unbroken(s[k])]
  BY <1>3 DEF Each
<1> HIDE DEF u
<1>5. \A k \in 1..Len(s) : u[k] \in Texts /\ WordsOf(s[k]) = WordsOf(u[k])
  BY <1>3, <1>4, UnbrokenKeepsWords
<1>6. u \in Seq(Texts) /\ Len(u) = Len(s)
  <2>1. u \in [1..Len(s) -> Texts]
    BY <1>4, <1>5
  <2> QED BY <1>3, <2>1
<1>7. w = WordsIn(u) /\ w \in Texts
  BY <1>1, <1>5, <1>6, SameWordsIn, WordsInTexts
<1>8. B \in Texts /\ WordsOf(B) = <<>>
  BY BarText
<1> HIDE DEF B
<1>9. m \in Texts /\ WordsOf(m) = w
  <2>1. Separated(u, B) \in Texts /\ WordsOf(Separated(u, B)) = WordsIn(u)
    BY <1>6, <1>8, SeparatedTexts
  <2> QED BY <1>7, <2>1 DEF B
<1> HIDE DEF m, w, line
<1>10. line \in Texts /\ WordsOf(line) = w
  <2>1. WordsOf(B \o m) = WordsOf(B) \o WordsOf(m)
    BY <1>8, <1>9, WordsConcat
  <2>2. B \o m \in Texts
    BY <1>8, <1>9, TextsConcat
  <2>3. WordsOf(B \o m) = w
    BY <1>7, <1>8, <1>9, <2>1, TextsConcat
  <2> DEFINE bm == B \o m
  <2>4. bm \in Texts /\ WordsOf(bm) = w /\ line = bm \o B
    BY <1>2, <2>2, <2>3
  <2> HIDE DEF bm
  <2>5. WordsOf(bm \o B) = WordsOf(bm) \o WordsOf(B)
    BY <1>8, <2>4, WordsConcat
  <2>6. bm \o B \in Texts
    BY <1>8, <2>4, TextsConcat
  <2>7. w \o <<>> = w
    BY <1>7, TextsConcat
  <2> QED BY <1>8, <2>4, <2>5, <2>6, <2>7
<1>11. <<line>> \in Seq(Texts) /\ WordsIn(<<line>>) = w
  <2>1. <<line>> = Append(<<>>, line) /\ <<>> \in Seq(Texts) /\ <<line>> \in Seq(Texts)
    BY <1>10
  <2>2. WordsIn(<<line>>) = <<>> \o w
    BY <1>10, <2>1, WordsInTexts
  <2> QED BY <1>7, <2>1, <2>2, TextsConcat
<1> DEFINE dashes == <<Bar, Bar, Bar>>
<1>12. CASE r = 1
  <2>1. DocxLines(b, r) = <<line, dashes>>
    BY <1>12 DEF DocxLines, line
  <2>2. dashes \in Texts /\ WordsOf(dashes) = <<>>
    BY BarText
  <2> HIDE DEF dashes
  <2>3. /\ <<line, dashes>> = Append(<<line>>, dashes) /\ <<line, dashes>> \in Seq(Texts)
        /\ Len(<<line, dashes>>) = 2 /\ <<line>> \in Seq(Texts)
    BY <1>10, <2>2
  <2>4. WordsIn(<<line, dashes>>) = w \o <<>>
    BY <1>11, <2>2, <2>3, WordsInTexts
  <2> QED BY <1>7, <2>1, <2>3, <2>4, TextsConcat DEF w, s
<1>13. CASE r # 1
  <2>1. DocxLines(b, r) = <<line>>
    BY <1>13 DEF DocxLines, line
  <2> QED BY <1>11, <2>1 DEF w, s
<1> QED BY <1>12, <1>13

\* What the program knows of a paragraph.
ParagraphRows ==
  [block : Nat, kind : {"heading", "text", "code", "table"}, page : Nat, level : Nat, text : Texts]
\* A paragraph with the words of its block, each of them once.
OfItsBlock(f, p) ==
  /\ p \in ParagraphRows /\ p.block \in 1..Len(f.blocks)
  /\ p.level > 0 <=> p.kind = "heading"
  /\ p.page = f.blocks[p.block].place[1]
  /\ Distinct(WordsOf(p.text)) /\ \A c \in ToSet(WordsOf(p.text)) : c.at[1] = p.block

\* A loader makes of a block a paragraph with its words, each of them once.
LEMMA ParagraphOfBlock ==
  ASSUME file \in Files, NEW b \in 1..Len(file.blocks)
  PROVE  OfItsBlock(file, Paragraph(b)) /\ Paragraph(b).block = b
<1> DEFINE x == file.blocks[b]
           nl == PutIn("newline")
           raw == IF x.kind # "table" THEN CellText(b, 1, 1)
                  ELSE IF file.format = "md" THEN MarkdownTable(b) ELSE DocxTable(b)
           p == Paragraph(b)
<1>1. x \in Blocks /\ x.cells \in Seq(Seq(Seq(Roles))) /\ x.place \in Nat \X Nat \X Nat
  BY BlockOfFile
<1>2. nl \in Texts /\ WordsOf(nl) = <<>>
  BY NewlineText
<1>3. DOMAIN x.cells = 1..Len(x.cells) /\ Len(x.cells) \in Nat
  BY <1>1, LenProperties
<1>4. ASSUME NEW t \in Texts, WordsOf(t) = TableWords(b)
      PROVE  Distinct(WordsOf(t)) /\ \A c \in ToSet(WordsOf(t)) : c.at[1] = b
  BY <1>4, WordsOfTable
<1>8. raw \in Texts /\ Distinct(WordsOf(raw)) /\ \A c \in ToSet(WordsOf(raw)) : c.at[1] = b
  <2>5. CASE x.kind # "table"
    <3>1. raw = CellText(b, 1, 1)
      BY <2>5
    <3>2. IsCell(b, 1, 1)
      <4>1. Len(x.cells) = 1 /\ Len(x.cells[1]) = 1
        <5> HIDE DEF x
        <5> QED BY <1>1, <2>5 DEF Blocks
      <4> QED BY <4>1 DEF IsCell
    <3> DEFINE t == CellText(b, 1, 1)
    <3>3. t \in Texts /\ Distinct(t) /\ \A k \in 1..Len(t) : t[k].at = <<b, 1, 1, k>>
      BY <3>2, CellTextPlaces
    <3> HIDE DEF t
    <3>4. Distinct(WordsOf(t)) /\ \A c \in ToSet(WordsOf(t)) : \E k \in 1..Len(t) : c = t[k]
      BY <3>3, WordsAreCharacters
    <3>5. \A k : <<b, 1, 1, k>>[1] = b
      OBVIOUS
    <3>6. \A c \in ToSet(WordsOf(t)) : c.at[1] = b
      BY <3>3, <3>4, <3>5
    <3>7. t \in Texts /\ Distinct(WordsOf(t)) /\ \A c \in ToSet(WordsOf(t)) : c.at[1] = b
      BY <3>3, <3>4, <3>6
    <3> QED BY <3>1, <3>7 DEF t
  <2>6. CASE x.kind = "table" /\ file.format = "md"
    <3>1. raw = Separated(FlattenSeq(RowsOf(b)), nl)
      BY <1>3, <2>6 DEF MarkdownTable, BlockCells, RowsOf
    <3> DEFINE cells == FlattenSeq(RowsOf(b))
    <3>2. cells \in Seq(Texts)
      BY WordsOfTable, WordsInFlatten
    <3> HIDE DEF cells, nl
    <3>3. Separated(cells, nl) \in Texts /\ WordsOf(Separated(cells, nl)) = WordsIn(cells)
      BY <1>2, <3>2, SeparatedTexts
    <3> QED BY <1>4, <3>1, <3>3 DEF cells, TableWords
  <2>7. CASE x.kind = "table" /\ file.format # "md"
    <3> DEFINE ls == [r \in DOMAIN x.cells |-> DocxLines(b, r)]
               lines == FlattenSeq(ls)
               N == Len(x.cells)
    <3>1. raw = Separated(lines, nl)
      BY <2>7 DEF DocxTable
    <3>2. \A r \in 1..N : /\ ls[r] \in Seq(Texts) /\ WordsIn(ls[r]) = WordsIn(RowCells(b, r))
      BY <1>3, DocxLinesKeepWords
    <3>3. ls \in Seq(Seq(Texts)) /\ Len(ls) = N
      <4>1. ls = [r \in 1..N |-> ls[r]]
        BY <1>3
      <4> HIDE DEF ls
      <4>2. ls \in [1..N -> Seq(Texts)]
        BY <3>2, <4>1
      <4> QED BY <1>3, <4>2
    <3> HIDE DEF ls
    <3>4. lines \in Seq(Texts) /\ WordsIn(lines) = FlattenSeq([r \in 1..N |-> WordsIn(ls[r])])
      BY <3>3, WordsInFlatten
    <3>5. [r \in 1..N |-> WordsIn(ls[r])] = [r \in 1..N |-> WordsIn(RowCells(b, r))]
      BY <3>2
    <3>6. TableWords(b) = FlattenSeq([r \in 1..N |-> WordsIn(RowCells(b, r))])
      BY WordsOfTable
    <3>7. WordsIn(lines) = TableWords(b)
      BY <3>4, <3>5, <3>6
    <3> HIDE DEF lines, nl
    <3>8. Separated(lines, nl) \in Texts /\ WordsOf(Separated(lines, nl)) = WordsIn(lines)
      BY <1>2, <3>4, SeparatedTexts
    <3> QED BY <1>4, <3>1, <3>7, <3>8
  <2> QED BY <2>5, <2>6, <2>7
<1>9. p = [block |-> b, kind |-> x.kind, page |-> x.place[1],
           level |-> IF x.kind = "heading" THEN x.level ELSE 0, text |-> Strip(raw)]
  BY DEF Paragraph
<1> HIDE DEF raw, p, x
<1>10. Strip(raw) \in Texts /\ WordsOf(Strip(raw)) = WordsOf(raw)
  BY <1>8, StripKeepsWords
<1>11. /\ p.block = b /\ p.kind = x.kind /\ p.page = x.place[1] /\ p.text = Strip(raw)
       /\ p.level = IF x.kind = "heading" THEN x.level ELSE 0
  BY <1>9
<1>12. /\ x.kind \in {"heading", "text", "code", "table"} /\ x.level \in Nat
       /\ x.kind = "heading" => x.level > 0
       /\ x.place[1] \in Nat
  BY <1>1 DEF Blocks
<1>13. b \in Nat
  OBVIOUS
<1>14. p \in ParagraphRows
  BY <1>9, <1>10, <1>12, <1>13 DEF ParagraphRows
<1>15. p.level > 0 <=> p.kind = "heading"
  BY <1>11, <1>12
<1>16. Distinct(WordsOf(p.text)) /\ \A c \in ToSet(WordsOf(p.text)) : c.at[1] = p.block
  BY <1>8, <1>10, <1>11
<1> QED BY <1>11, <1>14, <1>15, <1>16 DEF OfItsBlock, p, x

-----------------------------------------------------------------------------
(* The paragraphs of a file *)

\* A number appended to three.
LEMMA FourthAppended ==
  ASSUME NEW u \in Nat, NEW v \in Nat, NEW w \in Nat, NEW m \in Nat
  PROVE  Append(<<u, v, w>>, m) = <<u, v, w, m>>
<1> DEFINE s == <<u, v, w>>
           l == <<u, v, w, m>>
           g == Append(s, m)
<1>1. g[1] = u /\ g[2] = v /\ g[3] = w /\ g[4] = m
  OBVIOUS
<1>2. /\ l \in Seq(Nat) /\ Len(l) = 4
      /\ l[1] = u /\ l[2] = v /\ l[3] = w /\ l[4] = m
  OBVIOUS
<1>3. s \in Seq(Nat) /\ Len(s) = 3
  OBVIOUS
<1> HIDE DEF s, l
<1>4. g \in Seq(Nat) /\ Len(g) = 4
  <2>1. g \in Seq(Nat)
    BY <1>3, AppendProperties
  <2>2. Len(g) = Len(s) + 1
    BY <1>3, AppendProperties
  <2> HIDE DEF g
  <2> QED BY <1>3, <2>1, <2>2
<1> HIDE DEF g
<1>5. \A i \in 1..4 : g[i] = l[i]
  BY <1>1, <1>2
<1>6. g = l
  BY <1>2, <1>4, <1>5, SeqEqual
<1> QED BY <1>6 DEF g, l, s

\* Tuples of four numbers in lexicographic order.
LEMMA FourNumbers ==
  ASSUME NEW p \in Seq(Nat), NEW q \in Seq(Nat), Len(p) = 4, Len(q) = 4
  PROVE  Precedes(p, q) <=>
           \/ p[1] < q[1]
           \/ p[1] = q[1] /\ p[2] < q[2]
           \/ p[1] = q[1] /\ p[2] = q[2] /\ p[3] < q[3]
           \/ p[1] = q[1] /\ p[2] = q[2] /\ p[3] = q[3] /\ p[4] < q[4]
<1> DEFINE At(k) == p[k] < q[k] /\ \A m \in 1..(k - 1) : p[m] = q[m]
<1>1. DOMAIN p = {1, 2, 3, 4}
  OBVIOUS
<1>3. Precedes(p, q) <=> At(1) \/ At(2) \/ At(3) \/ At(4)
  <2>1. Precedes(p, q) <=> \E k \in {1, 2, 3, 4} : At(k)
    BY <1>1 DEF Precedes
  <2> HIDE DEF At
  <2> QED BY <2>1
<1>4. 1..(1 - 1) = {} /\ 1..(2 - 1) = {1} /\ 1..(3 - 1) = {1, 2} /\ 1..(4 - 1) = {1, 2, 3}
  OBVIOUS
<1>5. /\ At(1) <=> p[1] < q[1]
      /\ At(2) <=> p[2] < q[2] /\ p[1] = q[1]
      /\ At(3) <=> p[3] < q[3] /\ p[1] = q[1] /\ p[2] = q[2]
      /\ At(4) <=> p[4] < q[4] /\ p[1] = q[1] /\ p[2] = q[2] /\ p[3] = q[3]
  BY <1>4
<1> HIDE DEF At
<1> QED BY <1>3, <1>5

\* The place of a block and its number.
PlacedAt(b) == Append(PlaceOf(b), b)
Earlier == {pair \in (1..Len(file.blocks)) \X (1..Len(file.blocks)) :
              Precedes(PlacedAt(pair[1]), PlacedAt(pair[2]))}
\* The order of the blocks on the pages is a strict one.
LEMMA PlacesAreOrdered ==
  ASSUME file \in Files
  PROVE  StrictOrder(Earlier, 1..Len(file.blocks))
<1> DEFINE N == Len(file.blocks)
           x(b) == file.blocks[b].place[1]
           y(b) == file.blocks[b].place[2]
           z(b) == file.blocks[b].place[3]
           Before(a, b) == \/ x(a) < x(b)
                           \/ x(a) = x(b) /\ y(a) < y(b)
                           \/ x(a) = x(b) /\ y(a) = y(b) /\ z(a) < z(b)
                           \/ x(a) = x(b) /\ y(a) = y(b) /\ z(a) = z(b) /\ a < b
<1>1. ASSUME NEW b \in 1..N
      PROVE  /\ x(b) \in Nat /\ y(b) \in Nat /\ z(b) \in Nat /\ b \in Nat
             /\ PlacedAt(b) = <<x(b), y(b), z(b), b>>
  <2> DEFINE p == file.blocks[b].place
  <2>1. p \in Nat \X Nat \X Nat
    BY BlockOfFile
  <2>2. PlacedAt(b) = Append(p, b)
    BY DEF PlacedAt, PlaceOf
  <2> HIDE DEF p
  <2>3. p[1] \in Nat /\ p[2] \in Nat /\ p[3] \in Nat /\ p = <<p[1], p[2], p[3]>>
    BY <2>1
  <2>4. Append(p, b) = <<p[1], p[2], p[3], b>>
    <3>1. \A u, v, w, m \in Nat : Append(<<u, v, w>>, m) = <<u, v, w, m>>
      BY FourthAppended
    <3>2. Append(<<p[1], p[2], p[3]>>, b) = <<p[1], p[2], p[3], b>>
      BY <2>3, <3>1
    <3> QED BY <2>3, <3>2
  <2> QED BY <2>2, <2>3, <2>4 DEF p
<1> HIDE DEF x, y, z, N
<1>2. ASSUME NEW a \in 1..N, NEW b \in 1..N
      PROVE  <<a, b>> \in Earlier <=> Before(a, b)
  <2>1. <<a, b>> \in Earlier <=> Precedes(PlacedAt(a), PlacedAt(b))
    BY DEF Earlier, N
  <2>2. /\ x(a) \in Nat /\ y(a) \in Nat /\ z(a) \in Nat /\ a \in Nat
        /\ x(b) \in Nat /\ y(b) \in Nat /\ z(b) \in Nat /\ b \in Nat
        /\ PlacedAt(a) = <<x(a), y(a), z(a), a>> /\ PlacedAt(b) = <<x(b), y(b), z(b), b>>
    BY <1>1
  <2> HIDE DEF Before
  <2>3. Precedes(<<x(a), y(a), z(a), a>>, <<x(b), y(b), z(b), b>>) <=>
          \/ x(a) < x(b)
          \/ x(a) = x(b) /\ y(a) < y(b)
          \/ x(a) = x(b) /\ y(a) = y(b) /\ z(a) < z(b)
          \/ x(a) = x(b) /\ y(a) = y(b) /\ z(a) = z(b) /\ a < b
    <3> DEFINE p == <<x(a), y(a), z(a), a>>
               q == <<x(b), y(b), z(b), b>>
    <3>1. /\ p \in Seq(Nat) /\ Len(p) = 4 /\ q \in Seq(Nat) /\ Len(q) = 4
          /\ p[1] = x(a) /\ p[2] = y(a) /\ p[3] = z(a) /\ p[4] = a
          /\ q[1] = x(b) /\ q[2] = y(b) /\ q[3] = z(b) /\ q[4] = b
      BY <2>2
    <3> HIDE DEF p, q
    <3>2. Precedes(p, q) <=>
           \/ p[1] < q[1]
           \/ p[1] = q[1] /\ p[2] < q[2]
           \/ p[1] = q[1] /\ p[2] = q[2] /\ p[3] < q[3]
           \/ p[1] = q[1] /\ p[2] = q[2] /\ p[3] = q[3] /\ p[4] < q[4]
      BY <3>1, FourNumbers
    <3> QED BY <3>1, <3>2 DEF p, q
  <2>4. Precedes(<<x(a), y(a), z(a), a>>, <<x(b), y(b), z(b), b>>) <=> Before(a, b)
    BY <2>3 DEF Before
  <2> QED BY <2>1, <2>2, <2>4
<1>3. \A b \in 1..N : x(b) \in Nat /\ y(b) \in Nat /\ z(b) \in Nat /\ b \in Nat
  BY <1>1
<1>4. \A a \in 1..N : ~Before(a, a)
  BY <1>3
<1>5. \A a, b \in 1..N : a # b => Before(a, b) \/ Before(b, a)
  BY <1>3
<1>6. \A a, b, c \in 1..N : Before(a, b) /\ Before(b, c) => Before(a, c)
  <2> SUFFICES ASSUME NEW a \in 1..N, NEW b \in 1..N, NEW c \in 1..N, Before(a, b), Before(b, c)
               PROVE  Before(a, c)
    OBVIOUS
  <2>1. /\ x(a) \in Nat /\ y(a) \in Nat /\ z(a) \in Nat /\ a \in Nat
        /\ x(b) \in Nat /\ y(b) \in Nat /\ z(b) \in Nat /\ b \in Nat
        /\ x(c) \in Nat /\ y(c) \in Nat /\ z(c) \in Nat /\ c \in Nat
    BY <1>3
  <2> QED BY <2>1
<1> HIDE DEF Before
<1>7. StrictOrder(Earlier, 1..N)
  BY <1>2, <1>4, <1>5, <1>6 DEF StrictOrder
<1> QED BY <1>7 DEF N

\* The blocks of a file are read in some order, each of them once.
LEMMA EveryBlockOnce ==
  ASSUME file \in Files
  PROVE  /\ ReadingOrder \in Seq(1..Len(file.blocks)) /\ Distinct(ReadingOrder)
         /\ Len(ReadingOrder) = Len(file.blocks)
<1> DEFINE N == Len(file.blocks)
           stored == [i \in DOMAIN file.blocks |-> i]
           S == 1..N
           list == [k \in S |-> CHOOSE i \in S : Cardinality(Below(Earlier, S, i)) = k - 1]
<1>1. N \in Nat /\ DOMAIN file.blocks = 1..N
  BY FilesAssumption, LenProperties
<1>2. stored = [i \in S |-> i] /\ DOMAIN stored = S
  BY <1>1
<1>3. CASE file.format # "pdf"
  <2>1. ReadingOrder = [i \in S |-> i]
    BY <1>2, <1>3 DEF ReadingOrder
  <2> HIDE DEF N
  <2>2. [i \in S |-> i] \in Seq(S) /\ Len([i \in S |-> i]) = N
    BY <1>1
  <2> QED BY <2>1, <2>2 DEF Distinct, N
<1>4. CASE file.format = "pdf"
  <2>1. IsFiniteSet(S) /\ Cardinality(S) = N
    BY <1>1, FS_Interval
  <2>2. StrictOrder(Earlier, S)
    BY PlacesAreOrdered
  <2>3. ReadingOrder = [k \in DOMAIN stored |-> stored[CHOOSE i \in DOMAIN stored :
                          Cardinality({j \in DOMAIN stored : Precedes(Append(PlaceOf(stored[j]), j),
                                                          Append(PlaceOf(stored[i]), i))}) = k - 1]]
    BY <1>4, Zenon DEF ReadingOrder, Sorted
  <2>4. \A i \in S : {j \in S : Precedes(Append(PlaceOf(stored[j]), j), Append(PlaceOf(stored[i]), i))}
                       = Below(Earlier, S, i)
    BY <1>2 DEF Below, Earlier, PlacedAt
  <2> HIDE DEF stored
  <2>5. \A k \in S : \E i \in S : Cardinality(Below(Earlier, S, i)) = k - 1
    BY <2>1, <2>2, EveryRankTaken
  <2> DEFINE order == ReadingOrder
  <2>6. \A k \in S : order[k] \in S /\ Cardinality(Below(Earlier, S, order[k])) = k - 1
    <3> SUFFICES ASSUME NEW k \in S
                 PROVE  order[k] \in S /\ Cardinality(Below(Earlier, S, order[k])) = k - 1
      OBVIOUS
    <3> DEFINE P(i) == Cardinality({j \in DOMAIN stored : Precedes(Append(PlaceOf(stored[j]), j),
                                                       Append(PlaceOf(stored[i]), i))}) = k - 1
               c == CHOOSE i \in DOMAIN stored : P(i)
    <3>1. order[k] = stored[c]
      BY <1>2, <2>3
    <3>2. \A i \in S : P(i) <=> Cardinality(Below(Earlier, S, i)) = k - 1
      BY <1>2, <2>4
    <3>3. \E i \in DOMAIN stored : P(i)
      BY <1>2, <2>5, <3>2
    <3> HIDE DEF P
    <3>4. c \in DOMAIN stored /\ P(c)
      BY <3>3
    <3>6. c \in S
      BY <1>2, <3>4
    <3> HIDE DEF c
    <3>5. stored[c] = c
      BY <1>2, <3>6
    <3> QED BY <3>1, <3>2, <3>4, <3>5, <3>6
  <2>7. order \in [S -> S]
    <3>1. order = [k \in S |-> order[k]]
      BY <1>2, <2>3
    <3> HIDE DEF order
    <3> QED BY <2>6, <3>1
  <2> HIDE DEF order
  <2>8. order \in Seq(S) /\ Len(order) = N
    BY <1>1, <2>7
  <2>9. Distinct(order)
    <3> SUFFICES ASSUME NEW i \in S, NEW j \in S, i # j PROVE order[i] # order[j]
      BY <2>7 DEF Distinct
    <3>1. /\ Cardinality(Below(Earlier, S, order[i])) = i - 1
          /\ Cardinality(Below(Earlier, S, order[j])) = j - 1
      BY <2>6
    <3>2. i \in Int /\ j \in Int
      OBVIOUS
    <3> QED BY <3>1, <3>2
  <2> QED BY <2>8, <2>9 DEF order
<1> QED BY <1>3, <1>4

\* Paragraphs of a file that say something, each of a block of its own.
ParagraphsOf(f, ps) ==
  /\ ps \in Seq(ParagraphRows)
  /\ \A i \in 1..Len(ps) : OfItsBlock(f, ps[i]) /\ ps[i].text # <<>>
  /\ \A i, j \in 1..Len(ps) : i # j => ps[i].block # ps[j].block
\* A loader lists paragraphs of blocks, none empty and no block twice.
LEMMA LoadedWell ==
  ASSUME file \in Files
  PROVE  ParagraphsOf(file, LoadedParagraphs)
<1> DEFINE N == Len(file.blocks)
           all == Each(ReadingOrder, Paragraph)
           ss == [k \in DOMAIN all |-> IF SaysSomething(all[k]) THEN <<all[k]>> ELSE <<>>]
           ps == LoadedParagraphs
<1>1. ReadingOrder \in Seq(1..N) /\ Distinct(ReadingOrder) /\ Len(ReadingOrder) = N /\ N \in Nat
  BY EveryBlockOnce, FilesAssumption, LenProperties
<1>2. DOMAIN ReadingOrder = 1..N /\ \A k \in 1..N : ReadingOrder[k] \in 1..N
  BY <1>1, LenProperties, ElementOfSeq
<1>3. all = [k \in 1..N |-> Paragraph(ReadingOrder[k])]
  BY <1>2 DEF Each
<1>4. ps = FlattenSeq(ss)
  BY DEF LoadedParagraphs, Those
<1>5. ss = [k \in 1..N |-> IF all[k].text # <<>> THEN <<all[k]>> ELSE <<>>]
  BY <1>3 DEF SaysSomething
<1>6. \A k \in 1..N : /\ OfItsBlock(file, all[k]) /\ all[k].block = ReadingOrder[k]
                      /\ all[k] \in ParagraphRows
                      /\ all[k] = Paragraph(all[k].block)
  <2>1. \A k \in 1..N : all[k] = Paragraph(ReadingOrder[k])
    BY <1>3
  <2> HIDE DEF all
  <2>2. \A k \in 1..N : OfItsBlock(file, Paragraph(ReadingOrder[k])) /\ Paragraph(ReadingOrder[k]).block = ReadingOrder[k]
    BY <1>2, ParagraphOfBlock
  <2> QED BY <2>1, <2>2 DEF OfItsBlock
<1> HIDE DEF all, ss, ps
<1>7. \A k \in 1..N : ss[k] = (IF all[k].text # <<>> THEN <<all[k]>> ELSE <<>>)
  BY <1>5
<1>8. \A k \in 1..N : /\ ss[k] \in Seq(ParagraphRows) /\ Distinct(ss[k])
                      /\ ToSet(ss[k]) = IF all[k].text # <<>> THEN {all[k]} ELSE {}
  <2> SUFFICES ASSUME NEW k \in 1..N
               PROVE  /\ ss[k] \in Seq(ParagraphRows) /\ Distinct(ss[k])
                      /\ ToSet(ss[k]) = IF all[k].text # <<>> THEN {all[k]} ELSE {}
    OBVIOUS
  <2> DEFINE p == all[k]
  <2>1. p \in ParagraphRows /\ ss[k] = IF p.text # <<>> THEN <<p>> ELSE <<>>
    BY <1>6, <1>7
  <2> HIDE DEF p
  <2>2. <<p>> \in Seq(ParagraphRows) /\ <<>> \in Seq(ParagraphRows)
    BY <2>1
  <2>3. ToSet(<<p>>) = {p} /\ Distinct(<<p>>) /\ ToSet(<<>>) = {} /\ Distinct(<<>>)
    BY FewMembers
  <2>4. ToSet(ss[k]) = IF p.text # <<>> THEN {p} ELSE {}
    BY <2>1, <2>3
  <2>5. ss[k] \in Seq(ParagraphRows) /\ Distinct(ss[k])
    BY <2>1, <2>2, <2>3
  <2> QED BY <2>4, <2>5 DEF p
<1>9. ss \in Seq(Seq(ParagraphRows)) /\ Len(ss) = N
  <2>1. ss = [k \in 1..N |-> ss[k]]
    BY <1>5
  <2>2. ss \in [1..N -> Seq(ParagraphRows)]
    BY <1>8, <2>1
  <2> HIDE DEF ss, N
  <2> QED BY ONLY <1>1, <2>2
<1>10. \A j, k \in 1..N : j < k => ToSet(ss[j]) \cap ToSet(ss[k]) = {}
  <2> SUFFICES ASSUME NEW j \in 1..N, NEW k \in 1..N, j < k PROVE ToSet(ss[j]) \cap ToSet(ss[k]) = {}
    OBVIOUS
  <2>1. all[j] # all[k]
    <3> DEFINE order == ReadingOrder
    <3>2. j # k
      OBVIOUS
    <3>3. Distinct(order) /\ DOMAIN order = 1..N
      BY <1>1, <1>2
    <3> HIDE DEF order, N
    <3>4. order[j] # order[k]
      BY <3>2, <3>3 DEF Distinct
    <3>1. ReadingOrder[j] # ReadingOrder[k]
      BY <3>4 DEF order
    <3> QED BY <1>6, <3>1
  <2>2. ToSet(ss[j]) \subseteq {all[j]} /\ ToSet(ss[k]) \subseteq {all[k]}
    BY <1>8
  <2> QED BY <2>1, <2>2
<1>11. ps \in Seq(ParagraphRows) /\ Distinct(ps) /\ ToSet(ps) = UNION {ToSet(ss[k]) : k \in 1..N}
  <2>1. FlattenSeq(ss) \in Seq(ParagraphRows)
    BY <1>9, <1>1, FlattenProperties, EmptySeq
  <2>2. Distinct(FlattenSeq(ss)) /\ ToSet(FlattenSeq(ss)) = UNION {ToSet(ss[k]) : k \in 1..Len(ss)}
    BY <1>8, <1>9, <1>10, FlattenMembers
  <2> QED BY <1>4, <1>9, <2>1, <2>2
<1>12. \A p \in ToSet(ps) : OfItsBlock(file, p) /\ p.text # <<>> /\ p = Paragraph(p.block)
  <2> SUFFICES ASSUME NEW p \in ToSet(ps)
               PROVE  /\ OfItsBlock(file, p)
                      /\ p.text # <<>>
                      /\ p = Paragraph(p.block)
    OBVIOUS
  <2>1. PICK k \in 1..N : p \in ToSet(ss[k])
    BY <1>11
  <2>2. p = all[k] /\ all[k].text # <<>>
    BY <1>8, <2>1
  <2> QED BY <1>6, <2>2
<1>13. DOMAIN ps = 1..Len(ps) /\ \A i \in 1..Len(ps) : ps[i] \in ToSet(ps)
  BY <1>11, LenProperties DEF ToSet
<1>14. \A i, j \in 1..Len(ps) : i # j => ps[i].block # ps[j].block
  <2> SUFFICES ASSUME NEW i \in 1..Len(ps), NEW j \in 1..Len(ps), i # j, ps[i].block = ps[j].block
               PROVE  FALSE
    OBVIOUS
  <2>1. ps[i] = Paragraph(ps[i].block) /\ ps[j] = Paragraph(ps[j].block)
    BY <1>12, <1>13
  <2>2. ps[i] = ps[j]
    BY <2>1
  <2> QED BY <1>11, <1>13, <2>2 DEF Distinct
<1> QED BY <1>11, <1>12, <1>13, <1>14 DEF ParagraphsOf, ps

-----------------------------------------------------------------------------
(* Words told once *)

\* Two sequences without repetition together have no member in common.
LEMMA DistinctConcat ==
  ASSUME NEW S, NEW s \in Seq(S), NEW t \in Seq(S), Distinct(s \o t)
  PROVE  Distinct(s) /\ Distinct(t) /\ ToSet(s) \cap ToSet(t) = {}
<1> DEFINE u == s \o t
           m == Len(s)
           n == Len(t)
<1>1. /\ m \in Nat /\ n \in Nat /\ DOMAIN s = 1..m /\ DOMAIN t = 1..n
  BY LenProperties
<1>2. u \in Seq(S) /\ Len(u) = m + n
  BY ConcatProperties
<1>3. \A i \in 1..m : u[i] = s[i]
  BY <1>1
<1>4. \A i \in 1..n : u[m + i] = t[i]
  BY <1>1
<1> HIDE DEF u, m, n
<1>5. DOMAIN u = 1..(m + n)
  BY <1>1, <1>2, LenProperties
<1>6. \A i \in 1..m : i \in DOMAIN u
  BY <1>1, <1>5
<1>7. \A i \in 1..n : m + i \in DOMAIN u
  BY <1>1, <1>5
<1>8. \A i, j \in DOMAIN u : i # j => u[i] # u[j]
  BY DEF Distinct, u
<1>9. Distinct(s)
  BY <1>1, <1>3, <1>6, <1>8 DEF Distinct
<1>10. Distinct(t)
  <2> SUFFICES ASSUME NEW i \in 1..n, NEW j \in 1..n, i # j PROVE t[i] # t[j]
    BY <1>1 DEF Distinct
  <2>1. m + i # m + j
    BY <1>1
  <2> QED BY <1>4, <1>7, <1>8, <2>1
<1>11. \A i \in 1..m, j \in 1..n : s[i] # t[j]
  <2> SUFFICES ASSUME NEW i \in 1..m, NEW j \in 1..n PROVE s[i] # t[j]
    OBVIOUS
  <2>1. i # m + j
    BY <1>1
  <2> QED BY <1>3, <1>4, <1>6, <1>7, <1>8, <2>1
<1>12. ToSet(s) = {s[i] : i \in 1..m} /\ ToSet(t) = {t[i] : i \in 1..n}
  BY <1>1 DEF ToSet
<1> QED BY <1>9, <1>10, <1>11, <1>12

\* First uses have the characters of the text; those of two texts that share no character come
\* one after the other.
LEMMA FirstUsesMembers ==
  ASSUME NEW t \in Texts
  PROVE  ToSet(FirstUses(t)) = ToSet(t)
<1> DEFINE N == Len(t)
           first(k) == SubSeq(t, 1, k)
           Good(k) == ToSet(FirstUses(first(k))) = ToSet(first(k))
           T == {k \in 0..N : Good(k)}
<1>1. N \in Nat
  BY LenProperties DEF Texts
<1>2. 0 \in T
  <2>1. first(0) = <<>>
    OBVIOUS
  <2> HIDE DEF first
  <2>2. Good(0)
    BY <2>1, FirstUsesNothing
  <2> HIDE DEF Good
  <2> QED BY <1>1, <2>2
<1>3. ASSUME NEW k \in 1..N, k - 1 \in T PROVE k \in T
  <2> DEFINE a == first(k - 1)
             c == t[k]
  <2>1. first(k) = Append(a, c) /\ a \in Texts /\ c \in Characters
    BY PrefixStep DEF Texts
  <2>2. ToSet(FirstUses(a)) = ToSet(a)
    BY <1>3
  <2> HIDE DEF a, c, first
  <2>3. FirstUses(Append(a, c)) = (IF c \in ToSet(a) THEN FirstUses(a) ELSE Append(FirstUses(a), c))
        /\ FirstUses(a) \in Texts
    BY <2>1, FirstUsesAppend, FirstUsesConcat
  <2>4. \A s \in Texts : ToSet(Append(s, c)) = ToSet(s) \cup {c}
    <3> SUFFICES ASSUME NEW s \in Texts PROVE ToSet(Append(s, c)) = ToSet(s) \cup {c}
      OBVIOUS
    <3>1. Append(s, c) = s \o <<c>> /\ <<c>> \in Seq(Characters) /\ s \in Seq(Characters)
      BY <2>1, AppendIsConcat DEF Texts
    <3>2. ToSet(s \o <<c>>) = ToSet(s) \cup ToSet(<<c>>)
      BY <3>1, ConcatMembers
    <3> QED BY <3>1, <3>2, FewMembers
  <2>5. ToSet(FirstUses(first(k))) = ToSet(first(k))
    BY <2>1, <2>2, <2>3, <2>4
  <2>6. k \in 0..N
    BY <1>1
  <2> QED BY <2>5, <2>6
<1> HIDE DEF T
<1>4. N \in T
  <2>1. 0..N \subseteq T
    BY <1>1, <1>2, <1>3, InductionUpTo
  <2> QED BY <1>1, <2>1
<1>5. first(N) = t
  BY SubSeqFull DEF Texts
<1> QED BY <1>4, <1>5 DEF T

\* First uses of two texts that share nothing.
LEMMA FirstUsesDisjoint ==
  ASSUME NEW s \in Texts, NEW t \in Texts, ToSet(s) \cap ToSet(t) = {}
  PROVE  FirstUses(s \o t) = FirstUses(s) \o FirstUses(t)
<1> DEFINE N == Len(t)
           first(k) == SubSeq(t, 1, k)
           Good(k) == FirstUses(s \o first(k)) = FirstUses(s) \o FirstUses(first(k))
           T == {k \in 0..N : Good(k)}
<1>1. N \in Nat
  BY LenProperties DEF Texts
<1>0. FirstUses(s) \in Texts
  BY FirstUsesConcat
<1>2. 0 \in T
  <2>1. first(0) = <<>>
    OBVIOUS
  <2>2. s \o <<>> = s /\ FirstUses(s) \o <<>> = FirstUses(s)
    BY <1>0, TextsConcat
  <2> HIDE DEF first
  <2>3. Good(0)
    BY <2>1, <2>2, FirstUsesNothing
  <2> HIDE DEF Good
  <2> QED BY <1>1, <2>3
<1>3. ASSUME NEW k \in 1..N, k - 1 \in T PROVE k \in T
  <2> DEFINE a == first(k - 1)
             c == t[k]
             u == s \o a
             f == FirstUses(s)
             g == FirstUses(a)
  <2>1. first(k) = Append(a, c) /\ a \in Texts /\ c \in Characters
    BY PrefixStep DEF Texts
  <2>2. FirstUses(u) = f \o g
    BY <1>3
  <2>3. c \in ToSet(t)
    BY LenProperties DEF Texts, ToSet
  <2> HIDE DEF a, c, first
  <2>4. g \in Texts
    BY <2>1, FirstUsesConcat
  <2>5. s \o first(k) = Append(u, c) /\ u \in Texts
    BY <2>1, ConcatAppend, TextsConcat DEF Texts
  <2>6. ToSet(u) = ToSet(s) \cup ToSet(a)
    BY <2>1, ConcatMembers DEF Texts
  <2>7. c \in ToSet(u) <=> c \in ToSet(a)
    BY <2>3, <2>6
  <2>8. FirstUses(Append(u, c)) = IF c \in ToSet(u) THEN FirstUses(u) ELSE Append(FirstUses(u), c)
    BY <2>1, <2>5, FirstUsesAppend
  <2>9. FirstUses(first(k)) = IF c \in ToSet(a) THEN g ELSE Append(g, c)
    BY <2>1, FirstUsesAppend
  <2> HIDE DEF f, g, u
  <2>10. Append(f \o g, c) = f \o Append(g, c)
    <3>1. f \in Seq(Characters) /\ g \in Seq(Characters)
      BY <1>0, <2>4 DEF f, Texts
    <3>2. f \o Append(g, c) = Append(f \o g, c)
      BY <2>1, <3>1, ConcatAppend
    <3> QED BY <3>2
  <2>11. FirstUses(s \o first(k)) = f \o FirstUses(first(k))
    BY <2>2, <2>5, <2>7, <2>8, <2>9, <2>10
  <2>12. k \in 0..N
    BY <1>1
  <2> QED BY <2>11, <2>12 DEF f
<1> HIDE DEF T
<1>4. N \in T
  <2>1. 0..N \subseteq T
    BY <1>1, <1>2, <1>3, InductionUpTo
  <2> QED BY <1>1, <2>1
<1>5. first(N) = t
  BY SubSeqFull DEF Texts
<1> QED BY <1>4, <1>5 DEF T

-----------------------------------------------------------------------------
(* Chunks *)

\* A list of its own members.
IsList(s) == s \in Seq(ToSet(s))
\* Two lists one after the other.
LEMMA ListsConcat ==
  ASSUME NEW s, IsList(s), NEW t, IsList(t)
  PROVE  /\ IsList(s \o t) /\ Len(s \o t) = Len(s) + Len(t) /\ Len(s) \in Nat /\ Len(t) \in Nat
         /\ \A k \in 1..Len(s) : (s \o t)[k] = s[k]
         /\ \A k \in 1..Len(t) : (s \o t)[Len(s) + k] = t[k]
<1> DEFINE S == ToSet(s) \cup ToSet(t)
           u == s \o t
<1>1. Len(s) \in Nat /\ Len(t) \in Nat
  BY LenProperties DEF IsList
<1>2. s \in Seq(S) /\ t \in Seq(S)
  <2>1. s \in [1..Len(s) -> ToSet(s)] /\ t \in [1..Len(t) -> ToSet(t)]
    BY LenProperties DEF IsList
  <2>2. s \in [1..Len(s) -> S] /\ t \in [1..Len(t) -> S]
    BY <2>1
  <2> HIDE DEF S
  <2> QED BY <1>1, <2>2
<1>3. ToSet(u) = S
  <2> HIDE DEF S
  <2>1. ToSet(s \o t) = ToSet(s) \cup ToSet(t)
    BY <1>2, ConcatMembers
  <2> QED BY <2>1 DEF S
<1>4. u \in Seq(S) /\ Len(u) = Len(s) + Len(t)
  <2> HIDE DEF S
  <2> QED BY <1>2, ConcatProperties
<1>5. IsList(u)
  BY <1>3, <1>4 DEF IsList
<1>6. \A k \in 1..Len(s) : u[k] = s[k]
  <2> HIDE DEF S
  <2> QED BY <1>1, <1>2
<1>7. \A k \in 1..Len(t) : u[Len(s) + k] = t[k]
  <2> HIDE DEF S
  <2> QED BY <1>1, <1>2
<1> QED BY <1>1, <1>4, <1>5, <1>6, <1>7

\* A function on the first numbers is a list.
LEMMA FunctionIsList ==
  ASSUME NEW n \in Nat, NEW s, DOMAIN s = 1..n, s = [k \in 1..n |-> s[k]]
  PROVE  IsList(s) /\ Len(s) = n
<1>1. \A k \in 1..n : s[k] \in ToSet(s)
  BY DEF ToSet
<1>2. s \in [1..n -> ToSet(s)]
  BY <1>1
<1> DEFINE S == ToSet(s)
<1> HIDE DEF S
<1>3. s \in [1..n -> S]
  BY <1>2 DEF S
<1>4. s \in Seq(S) /\ Len(s) = n
  BY <1>3
<1> QED BY <1>4 DEF IsList, S

\* A list with one member more.
LEMMA ListAppend ==
  ASSUME NEW s, IsList(s), NEW c
  PROVE  Append(s, c) = s \o <<c>>
<1> DEFINE S == ToSet(s) \cup {c}
<1>1. s \in [1..Len(s) -> ToSet(s)] /\ Len(s) \in Nat
  BY LenProperties DEF IsList
<1>2. s \in [1..Len(s) -> S] /\ c \in S
  BY <1>1
<1> HIDE DEF S
<1>3. s \in Seq(S)
  BY <1>1, <1>2
<1> QED BY <1>2, <1>3, AppendIsConcat

\* The empty list at the end of a list.
LEMMA ListWithNothing ==
  ASSUME NEW s, IsList(s)
  PROVE  s = s \o <<>>
<1> DEFINE S == ToSet(s)
<1>1. s \in Seq(S)
  BY DEF IsList
<1> HIDE DEF S
<1> QED BY <1>1, ConcatEmptySeq

\* Lists of none and of one.
LEMMA ShortLists ==
  /\ IsList(<<>>) /\ Len(<<>>) = 0
  /\ \A c : IsList(<<c>>) /\ Len(<<c>>) = 1 /\ DOMAIN <<c>> = 1..1 /\ <<c>>[1] = c
<1>1. IsList(<<>>) /\ Len(<<>>) = 0
  BY DEF IsList
<1>2. ASSUME NEW c
      PROVE  IsList(<<c>>) /\ Len(<<c>>) = 1 /\ DOMAIN <<c>> = 1..1 /\ <<c>>[1] = c
  <2>1. ToSet(<<c>>) = {c}
    BY FewMembers
  <2>2. <<c>> \in Seq({c}) /\ Len(<<c>>) = 1 /\ DOMAIN <<c>> = 1..1 /\ <<c>>[1] = c
    OBVIOUS
  <2> QED BY <2>1, <2>2 DEF IsList
<1> QED BY <1>1, <1>2

\* The chunks whose words are the words of paragraphs.
BodyKinds == {"text", "table", "code"}
\* The words of the chunks of some kinds, chunk by chunk.
ContentOf(cs, kinds) ==
  FlattenSeq([k \in DOMAIN cs |-> IF cs[k].kind \in kinds THEN WordsOf(cs[k].text) ELSE <<>>])

\* Chunks that have texts.
HasTexts(cs) == IsList(cs) /\ \A k \in 1..Len(cs) : cs[k].text \in Texts

\* The words of a chunk when its kind is one of some, and those of a list of chunks.
WordsIf(c, kinds) == IF c.kind \in kinds THEN WordsOf(c.text) ELSE <<>>
\* The words of chunks are those of their texts.
LEMMA ContentOfChunks ==
  ASSUME NEW cs, HasTexts(cs), NEW kinds
  PROVE  LET ws == [k \in 1..Len(cs) |-> WordsIf(cs[k], kinds)]
         IN  /\ Len(cs) \in Nat
             /\ ws \in Seq(Texts) /\ Len(ws) = Len(cs) /\ \A k \in 1..Len(cs) : ws[k] \in Texts
             /\ ContentOf(cs, kinds) = FlattenSeq(ws) /\ ContentOf(cs, kinds) \in Texts
<1> DEFINE n == Len(cs)
           ws == [k \in 1..n |-> WordsIf(cs[k], kinds)]
<1>1. n \in Nat /\ DOMAIN cs = 1..n
  BY LenProperties DEF HasTexts, IsList
<1>2. \A k \in 1..n : WordsIf(cs[k], kinds) \in Texts
  BY WordsOfText, TextsConcat DEF WordsIf, HasTexts
<1>3. ContentOf(cs, kinds) = FlattenSeq(ws)
  <2>1. ContentOf(cs, kinds) = FlattenSeq([k \in DOMAIN cs |-> WordsIf(cs[k], kinds)])
    BY DEF ContentOf, WordsIf
  <2> QED BY <1>1, <2>1
<1> HIDE DEF n
<1>4. \A k \in 1..n : ws[k] \in Texts
  BY <1>2
<1>5. ws \in Seq(Texts) /\ Len(ws) = n
  <2>1. ws \in [1..n -> Texts]
    BY <1>2
  <2> HIDE DEF ws
  <2> QED BY <1>1, <2>1
<1> HIDE DEF ws
<1>6. FlattenSeq(ws) \in Texts
  BY <1>5, FlattenTexts
<1> QED BY <1>1, <1>3, <1>4, <1>5, <1>6 DEF n, ws

\* The words of two lists of chunks are those of the first, then of the second.
LEMMA ContentConcat ==
  ASSUME NEW cs, HasTexts(cs), NEW ns, HasTexts(ns), NEW kinds
  PROVE  /\ HasTexts(cs \o ns)
         /\ ContentOf(cs \o ns, kinds) = ContentOf(cs, kinds) \o ContentOf(ns, kinds)
<1> DEFINE all == cs \o ns
           m == Len(cs)
           n == Len(ns)
           ws(s) == [k \in 1..Len(s) |-> WordsIf(s[k], kinds)]
           u == ws(cs)
           v == ws(ns)
           w == ws(all)
<1>1. /\ IsList(all) /\ Len(all) = m + n /\ m \in Nat /\ n \in Nat
      /\ \A k \in 1..m : all[k] = cs[k]
      /\ \A k \in 1..n : all[m + k] = ns[k]
  <2>1. IsList(cs) /\ IsList(ns)
    BY DEF HasTexts
  <2>2. /\ IsList(cs \o ns) /\ Len(cs \o ns) = Len(cs) + Len(ns)
        /\ Len(cs) \in Nat /\ Len(ns) \in Nat
    BY <2>1, ListsConcat
  <2>3. \A k \in 1..Len(cs) : (cs \o ns)[k] = cs[k]
    BY <2>1, ListsConcat
  <2>4. \A k \in 1..Len(ns) : (cs \o ns)[Len(cs) + k] = ns[k]
    BY <2>1, ListsConcat
  <2> QED BY <2>2, <2>3, <2>4
<1> HIDE DEF all
<1>2. \A k \in 1..(m + n) : (k \in 1..m) \/ (\E i \in 1..n : k = m + i)
  <2> SUFFICES ASSUME NEW k \in 1..(m + n), k \notin 1..m PROVE \E i \in 1..n : k = m + i
    OBVIOUS
  <2>1. k - m \in 1..n /\ k = m + (k - m)
    BY <1>1
  <2> QED BY <2>1
<1>3. HasTexts(all)
  <2>1. /\ \A k \in 1..m : cs[k].text \in Texts
        /\ \A k \in 1..n : ns[k].text \in Texts
    BY DEF HasTexts
  <2> HIDE DEF m, n
  <2>2. \A k \in 1..(m + n) : all[k].text \in Texts
    <3> SUFFICES ASSUME NEW k \in 1..(m + n) PROVE all[k].text \in Texts
      OBVIOUS
    <3>1. CASE k \in 1..m
      BY <1>1, <2>1, <3>1
    <3>2. CASE \E i \in 1..n : k = m + i
      BY <1>1, <2>1, <3>2
    <3> QED BY <1>2, <3>1, <3>2
  <2> QED BY <1>1, <2>2 DEF HasTexts
<1>4. /\ u \in Seq(Texts) /\ Len(u) = m /\ ContentOf(cs, kinds) = FlattenSeq(u)
      /\ v \in Seq(Texts) /\ Len(v) = n /\ ContentOf(ns, kinds) = FlattenSeq(v)
      /\ w \in Seq(Texts) /\ Len(w) = m + n /\ ContentOf(all, kinds) = FlattenSeq(w)
  BY <1>1, <1>3, ContentOfChunks
<1>5. /\ \A k \in 1..m : u[k] = WordsIf(cs[k], kinds)
      /\ \A k \in 1..n : v[k] = WordsIf(ns[k], kinds)
      /\ \A k \in 1..(m + n) : w[k] = WordsIf(all[k], kinds)
  BY <1>1
<1> HIDE DEF u, v, w, m, n, ws
<1>6. \A k \in 1..m : w[k] = u[k]
  BY <1>1, <1>5
<1>7. \A k \in 1..n : w[m + k] = v[k]
  BY <1>1, <1>5
<1>8. w = u \o v
  <2>1. u \o v \in Seq(Texts) /\ Len(u \o v) = Len(u) + Len(v)
    BY <1>4, ConcatProperties
  <2>2. \A k \in 1..m : (u \o v)[k] = u[k]
    BY <1>1, <1>4
  <2>3. \A k \in 1..n : (u \o v)[m + k] = v[k]
    BY <1>1, <1>4
  <2> DEFINE x == u \o v
  <2>4. x \in Seq(Texts) /\ Len(x) = m + n
    BY <1>4, <2>1
  <2>5. \A k \in 1..m : x[k] = w[k]
    BY <1>6, <2>2
  <2>6. \A k \in 1..n : x[m + k] = w[m + k]
    BY <1>7, <2>3
  <2> HIDE DEF x
  <2>7. \A k \in 1..(m + n) : x[k] = w[k]
    BY <1>2, <2>5, <2>6
  <2>8. x = w
    BY <1>4, <2>4, <2>7, SeqEqual
  <2> QED BY <2>8 DEF x
<1>9. FlattenSeq(u \o v) = FlattenSeq(u) \o FlattenSeq(v)
  BY <1>4, FlattenConcat DEF Texts
<1> QED BY <1>3, <1>4, <1>8, <1>9 DEF all

\* More kinds of chunks have more words.
LEMMA ContentOfMore ==
  ASSUME NEW cs, HasTexts(cs), NEW some, NEW more, some \subseteq more
  PROVE  ToSet(ContentOf(cs, some)) \subseteq ToSet(ContentOf(cs, more))
<1> DEFINE n == Len(cs)
           u == [k \in 1..n |-> WordsIf(cs[k], some)]
           v == [k \in 1..n |-> WordsIf(cs[k], more)]
<1>1. /\ n \in Nat
      /\ u \in Seq(Texts) /\ Len(u) = n /\ ContentOf(cs, some) = FlattenSeq(u)
      /\ v \in Seq(Texts) /\ Len(v) = n /\ ContentOf(cs, more) = FlattenSeq(v)
  BY ContentOfChunks
<1>2. \A k \in 1..n : u[k] = WordsIf(cs[k], some) /\ v[k] = WordsIf(cs[k], more)
  OBVIOUS
<1>3. \A k \in 1..n : ToSet(u[k]) \subseteq ToSet(v[k])
  BY <1>2, FewMembers DEF WordsIf
<1> HIDE DEF u, v, n
<1>4. /\ ToSet(FlattenSeq(u)) = UNION {ToSet(u[k]) : k \in 1..n}
      /\ ToSet(FlattenSeq(v)) = UNION {ToSet(v[k]) : k \in 1..n}
  BY <1>1, FlattenMembers DEF Texts
<1> QED BY <1>1, <1>3, <1>4

\* What chunks tell: their words, but for those that were there before, and no word of a text or
\* a code chunk twice.
Tell(cs, w) ==
  /\ HasTexts(cs)
  /\ FirstUses(ContentOf(cs, BodyKinds)) = w
  /\ Distinct(ContentOf(cs, {"text", "code"}))
\* Chunks that tell some words, and then chunks that tell others, tell both.
LEMMA TellConcat ==
  ASSUME NEW cs, NEW v, Tell(cs, v), NEW ns, NEW w, Tell(ns, w), ToSet(v) \cap ToSet(w) = {}
  PROVE  Tell(cs \o ns, v \o w)
<1> DEFINE a == ContentOf(cs, BodyKinds)
           b == ContentOf(ns, BodyKinds)
           c == ContentOf(cs, {"text", "code"})
           d == ContentOf(ns, {"text", "code"})
<1>1. a \in Texts /\ b \in Texts /\ c \in Texts /\ d \in Texts
  BY ContentOfChunks DEF Tell
<1>2. /\ HasTexts(cs \o ns)
      /\ ContentOf(cs \o ns, BodyKinds) = a \o b
      /\ ContentOf(cs \o ns, {"text", "code"}) = c \o d
  BY ContentConcat DEF Tell
<1>3. FirstUses(a) = v /\ FirstUses(b) = w /\ Distinct(c) /\ Distinct(d)
  BY DEF Tell
<1>4. ToSet(c) \subseteq ToSet(a) /\ ToSet(d) \subseteq ToSet(b)
  BY ContentOfMore DEF Tell, BodyKinds
<1> HIDE DEF a, b, c, d
<1>5. ToSet(a) = ToSet(v) /\ ToSet(b) = ToSet(w)
  BY <1>1, <1>3, FirstUsesMembers
<1>6. FirstUses(a \o b) = v \o w
  BY <1>1, <1>3, <1>5, FirstUsesDisjoint
<1>7. Distinct(c \o d)
  <2>1. ToSet(c) \cap ToSet(d) = {}
    BY <1>4, <1>5
  <2> QED BY <1>1, <1>3, <2>1, ConcatMembers DEF Texts
<1> QED BY <1>2, <1>6, <1>7 DEF Tell

\* No chunks tell nothing.
LEMMA NoChunks == Tell(<<>>, <<>>)
<1>1. IsList(<<>>) /\ HasTexts(<<>>)
  <2>1. <<>> \in Seq(ToSet(<<>>)) /\ Len(<<>>) = 0
    OBVIOUS
  <2> QED BY <2>1 DEF IsList, HasTexts
<1>2. \A kinds : ContentOf(<<>>, kinds) = <<>>
  <2> SUFFICES ASSUME NEW kinds PROVE ContentOf(<<>>, kinds) = <<>>
    OBVIOUS
  <2>1. ContentOf(<<>>, kinds) = FlattenSeq(<<>>)
    BY DEF ContentOf
  <2> QED BY <2>1, FlattenNothing
<1>3. FirstUses(<<>>) = <<>> /\ Distinct(<<>>)
  BY FirstUsesNothing, FewMembers
<1> QED BY <1>1, <1>2, <1>3 DEF Tell

\* Chunks of one kind made of texts.
MadeOf(cs, kind, texts) ==
  /\ texts \in Seq(Texts) /\ cs = [k \in 1..Len(texts) |-> cs[k]]
  /\ \A k \in 1..Len(texts) : cs[k].kind = kind /\ cs[k].text = texts[k]
\* Chunks of one kind made of texts have the words of the texts.
LEMMA ChunksOfTexts ==
  ASSUME NEW kind, NEW texts, NEW cs, MadeOf(cs, kind, texts)
  PROVE  /\ HasTexts(cs) /\ Len(cs) = Len(texts) /\ Len(texts) \in Nat
         /\ \A kinds : ContentOf(cs, kinds) = IF kind \in kinds THEN WordsIn(texts) ELSE <<>>
<1> DEFINE n == Len(texts)
<1>0. /\ texts \in Seq(Texts) /\ cs = [k \in 1..n |-> cs[k]]
      /\ \A k \in 1..n : cs[k].kind = kind /\ cs[k].text = texts[k]
  BY DEF MadeOf
<1>1. n \in Nat /\ DOMAIN texts = 1..n /\ \A k \in 1..n : texts[k] \in Texts
  BY <1>0, LenProperties, ElementOfSeq
<1>2. DOMAIN cs = 1..n
  <2>1. DOMAIN [k \in 1..n |-> cs[k]] = 1..n
    OBVIOUS
  <2> QED BY <1>0, <2>1
<1>3. IsList(cs) /\ Len(cs) = n
  BY <1>0, <1>1, <1>2, FunctionIsList
<1>4. HasTexts(cs)
  BY <1>0, <1>1, <1>3 DEF HasTexts
<1>5. ASSUME NEW kinds PROVE ContentOf(cs, kinds) = IF kind \in kinds THEN WordsIn(texts) ELSE <<>>
  <2> DEFINE u == [k \in 1..n |-> WordsIf(cs[k], kinds)]
  <2>1. ContentOf(cs, kinds) = FlattenSeq(u)
    BY <1>3, <1>4, ContentOfChunks
  <2>2. CASE kind \in kinds
    <3>1. u = [k \in 1..n |-> WordsOf(texts[k])]
      BY <1>0, <2>2 DEF WordsIf
    <3>2. WordsIn(texts) = FlattenSeq([k \in 1..n |-> WordsOf(texts[k])])
      BY <1>1 DEF WordsIn
    <3> QED BY <2>1, <2>2, <3>1, <3>2
  <2>3. CASE kind \notin kinds
    <3>1. u = [k \in 1..n |-> <<>>]
      BY <1>0, <2>3 DEF WordsIf
    <3> DEFINE e == [k \in 1..n |-> <<>>]
    <3>2. e \in Seq(Texts) /\ Len(e) = n
      <4>1. <<>> \in Texts
        BY TextsConcat
      <4>2. e \in [1..n -> Texts]
        BY <4>1
      <4> HIDE DEF e, n
      <4> QED BY <1>1, <4>2
    <3>3. FlattenSeq(e) = WordsIn(e)
      <4>1. WordsIn(e) = FlattenSeq([k \in DOMAIN e |-> WordsOf(e[k])])
        BY DEF WordsIn
      <4>2. [k \in DOMAIN e |-> WordsOf(e[k])] = e
        BY WordsOfText
      <4> QED BY <4>1, <4>2
    <3>4. FlattenSeq(e) = <<>>
      <4>1. \A k \in 1..n : e[k] = <<>>
        OBVIOUS
      <4> HIDE DEF e, n
      <4>2. ToSet(FlattenSeq(e)) = UNION {ToSet(e[k]) : k \in 1..n}
        BY <3>2, FlattenMembers DEF Texts
      <4>3. ToSet(FlattenSeq(e)) = {}
        BY <4>1, <4>2, FewMembers
      <4>4. FlattenSeq(e) \in Texts
        BY <3>2, FlattenTexts
      <4> DEFINE x == FlattenSeq(e)
      <4> HIDE DEF x
      <4>5. x \in Texts /\ ToSet(x) = {}
        BY <4>3, <4>4 DEF x
      <4>6. Len(x) \in Nat /\ DOMAIN x = 1..Len(x)
        BY <4>5, LenProperties DEF Texts
      <4>7. Len(x) = 0
        <5>1. ASSUME Len(x) # 0 PROVE FALSE
          <6>1. 1 \in DOMAIN x
            BY <4>6, <5>1
          <6> QED BY <4>5, <6>1 DEF ToSet
        <5> QED BY <5>1
      <4>8. x = <<>>
        BY <4>5, <4>7, EmptySeq DEF Texts
      <4> QED BY <4>8 DEF x
    <3> QED BY <2>1, <2>3, <3>1, <3>4
  <2> QED BY <2>2, <2>3
<1> QED BY <1>1, <1>3, <1>4, <1>5

-----------------------------------------------------------------------------
(* The words before a paragraph *)

\* The words of a paragraph that are to be told: none of a heading or of a table that is nothing
\* but its first two lines and too long.
BodyOf(p) ==
  IF p.level > 0 \/ (p.kind = "table" /\ Len(p.text) > MaxChars /\ Len(Lines(p.text)) = 2)
  THEN <<>> ELSE WordsOf(p.text)

\* The words of the paragraphs before the nth.
WordsBefore(ps, n) == FlattenSeq([i \in 1..(n - 1) |-> BodyOf(ps[i])])

\* The words of a paragraph are distinct and of its block.
LEMMA BodyWords ==
  ASSUME NEW f, NEW p, OfItsBlock(f, p)
  PROVE  /\ BodyOf(p) \in Texts /\ Distinct(BodyOf(p))
         /\ \A c \in ToSet(BodyOf(p)) : c.at[1] = p.block
<1>1. p.text \in Texts
  BY DEF OfItsBlock, ParagraphRows
<1>2. /\ WordsOf(p.text) \in Texts /\ <<>> \in Texts /\ Distinct(WordsOf(p.text)) /\ Distinct(<<>>)
      /\ ToSet(<<>>) = {}
      /\ \A c \in ToSet(WordsOf(p.text)) : c.at[1] = p.block
  BY <1>1, WordsOfText, TextsConcat, FewMembers DEF OfItsBlock
<1> QED BY <1>2 DEF BodyOf

\* The words before a paragraph are distinct.
LEMMA WordsBeforeText ==
  ASSUME NEW f, NEW ps, ParagraphsOf(f, ps), NEW n \in 1..(Len(ps) + 1)
  PROVE  WordsBefore(ps, n) \in Texts /\ Distinct(WordsBefore(ps, n))
<1> DEFINE N == Len(ps)
           ws == [i \in 1..(n - 1) |-> BodyOf(ps[i])]
<1>1. N \in Nat /\ n - 1 \in 0..N /\ \A i \in 1..(n - 1) : i \in 1..N
  BY LenProperties DEF ParagraphsOf
<1>2. \A i \in 1..N : /\ BodyOf(ps[i]) \in Texts /\ Distinct(BodyOf(ps[i]))
                      /\ \A c \in ToSet(BodyOf(ps[i])) : c.at[1] = ps[i].block
  BY BodyWords DEF ParagraphsOf
<1>3. \A i \in 1..(n - 1) : ws[i] = BodyOf(ps[i])
  OBVIOUS
<1>4. ws \in Seq(Texts) /\ Len(ws) = n - 1
  <2>1. ws \in [1..(n - 1) -> Texts]
    BY <1>1, <1>2
  <2>2. n - 1 \in Nat
    BY <1>1
  <2> HIDE DEF ws
  <2> QED BY <2>1, <2>2
<1>5. WordsBefore(ps, n) = FlattenSeq(ws)
  BY DEF WordsBefore
<1>6. \A i, j \in 1..N : i # j => ps[i].block # ps[j].block
  BY DEF ParagraphsOf
<1> HIDE DEF ws, N
<1>7. \A i \in 1..(n - 1) : Distinct(ws[i])
  BY <1>1, <1>2, <1>3
<1>8. \A i, j \in 1..(n - 1) : i < j => ToSet(ws[i]) \cap ToSet(ws[j]) = {}
  <2> SUFFICES ASSUME NEW i \in 1..(n - 1), NEW j \in 1..(n - 1), i < j,
                      NEW c \in ToSet(ws[i]), c \in ToSet(ws[j])
               PROVE  FALSE
    OBVIOUS
  <2>1. c.at[1] = ps[i].block /\ c.at[1] = ps[j].block
    BY <1>1, <1>2, <1>3
  <2>2. i # j
    BY <1>1
  <2> QED BY <1>1, <1>6, <2>1, <2>2
<1>9. FlattenSeq(ws) \in Texts
  BY <1>4, FlattenTexts
<1>10. Distinct(FlattenSeq(ws))
  <2>1. \A k \in 1..Len(ws) : Distinct(ws[k])
    BY <1>4, <1>7
  <2>2. \A j, k \in 1..Len(ws) : j < k => ToSet(ws[j]) \cap ToSet(ws[k]) = {}
    BY <1>4, <1>8
  <2> QED BY <1>4, <2>1, <2>2, FlattenMembers DEF Texts
<1> QED BY <1>5, <1>9, <1>10

\* The words before a later paragraph.
LEMMA WordsBeforeLater ==
  ASSUME NEW f, NEW ps, ParagraphsOf(f, ps), NEW n \in 1..(Len(ps) + 1), NEW m \in Nat,
         n + m <= Len(ps) + 1
  PROVE  /\ WordsBefore(ps, n + m)
              = WordsBefore(ps, n) \o FlattenSeq([k \in 1..m |-> BodyOf(ps[n + k - 1])])
         /\ FlattenSeq([k \in 1..m |-> BodyOf(ps[n + k - 1])]) \in Texts
<1> DEFINE N == Len(ps)
           a == n - 1
           u == [i \in 1..(n - 1) |-> BodyOf(ps[i])]
           v == [k \in 1..m |-> BodyOf(ps[n + k - 1])]
           w == [i \in 1..(n + m - 1) |-> BodyOf(ps[i])]
<1>1. N \in Nat /\ a \in Nat /\ n = a + 1 /\ a + m <= N /\ n + m - 1 = a + m
  BY LenProperties DEF ParagraphsOf
<1>2. \A i \in 1..N : BodyOf(ps[i]) \in Texts
  BY BodyWords DEF ParagraphsOf
<1>3. /\ \A i \in 1..a : u[i] = BodyOf(ps[i]) /\ i \in 1..N
      /\ \A k \in 1..m : v[k] = BodyOf(ps[a + k]) /\ a + k \in 1..N
      /\ \A i \in 1..(a + m) : w[i] = BodyOf(ps[i]) /\ i \in 1..N
  <2>1. \A i \in 1..a : u[i] = BodyOf(ps[i]) /\ i \in 1..N
    BY <1>1
  <2>2. \A k \in 1..m : v[k] = BodyOf(ps[a + k]) /\ a + k \in 1..N
    <3> SUFFICES ASSUME NEW k \in 1..m PROVE v[k] = BodyOf(ps[a + k]) /\ a + k \in 1..N
      OBVIOUS
    <3>1. n + k - 1 = a + k /\ a + k \in 1..N
      BY <1>1
    <3> QED BY <3>1
  <2>3. \A i \in 1..(a + m) : w[i] = BodyOf(ps[i]) /\ i \in 1..N
    BY <1>1
  <2> QED BY <2>1, <2>2, <2>3
<1>4. /\ u = [i \in 1..a |-> u[i]] /\ v = [i \in 1..m |-> v[i]] /\ w = [i \in 1..(a + m) |-> w[i]]
  BY <1>1
<1>5. /\ WordsBefore(ps, n + m) = FlattenSeq(w) /\ WordsBefore(ps, n) = FlattenSeq(u)
  BY DEF WordsBefore
<1> HIDE DEF u, v, w, a, N
<1>6. u \in [1..a -> Texts] /\ v \in [1..m -> Texts] /\ w \in [1..(a + m) -> Texts]
  BY <1>2, <1>3, <1>4
<1>7. /\ u \in Seq(Texts) /\ Len(u) = a /\ v \in Seq(Texts) /\ Len(v) = m
      /\ w \in Seq(Texts) /\ Len(w) = a + m
  BY <1>1, <1>6
<1>8. w = u \o v
  <2> DEFINE x == u \o v
  <2>1. x \in Seq(Texts) /\ Len(x) = Len(u) + Len(v)
    BY <1>7, ConcatProperties
  <2>2. \A k \in 1..a : x[k] = u[k]
    BY <1>1, <1>7
  <2>3. \A k \in 1..m : x[a + k] = v[k]
    <3>1. \A k \in 1..Len(v) : (u \o v)[Len(u) + k] = v[k]
      <4>1. u \in Seq(Texts) /\ v \in Seq(Texts)
        BY <1>7
      <4> QED BY <4>1
    <3> QED BY <1>7, <3>1
  <2> HIDE DEF x
  <2>4. \A k \in 1..(a + m) : x[k] = w[k]
    <3> SUFFICES ASSUME NEW k \in 1..(a + m) PROVE x[k] = w[k]
      OBVIOUS
    <3>1. CASE k \in 1..a
      BY <1>3, <2>2, <3>1
    <3>2. CASE k \notin 1..a
      <4> DEFINE j == k - a
      <4>1. j \in 1..m /\ k = a + j
        BY <1>1, <3>2
      <4> HIDE DEF j
      <4> QED BY <1>3, <2>3, <4>1
    <3> QED BY <3>1, <3>2
  <2>5. x = w
    BY <1>7, <2>1, <2>4, SeqEqual
  <2> QED BY <2>5 DEF x
<1>9. FlattenSeq(u \o v) = FlattenSeq(u) \o FlattenSeq(v)
  BY <1>7, FlattenConcat DEF Texts
<1>10. FlattenSeq(v) \in Texts
  BY <1>7, FlattenTexts
<1> QED BY <1>5, <1>8, <1>9, <1>10 DEF v

\* The words before the next paragraph are those before this one, then its own.
LEMMA WordsBeforeNext ==
  ASSUME NEW f, NEW ps, ParagraphsOf(f, ps), NEW n \in 1..Len(ps)
  PROVE  /\ WordsBefore(ps, n + 1) = WordsBefore(ps, n) \o BodyOf(ps[n])
         /\ BodyOf(ps[n]) \in Texts /\ n \in 1..(Len(ps) + 1) /\ n + 1 \in 1..(Len(ps) + 1)
         /\ WordsBefore(ps, n) \in Texts
<1>1. /\ Len(ps) \in Nat
      /\ n \in 1..(Len(ps) + 1)
      /\ n + 1 <= Len(ps) + 1
      /\ n + 1 \in 1..(Len(ps) + 1)
  BY LenProperties DEF ParagraphsOf
<1> DEFINE b == BodyOf(ps[n])
<1>2. b \in Texts
  BY BodyWords DEF ParagraphsOf
<1>3. [k \in 1..1 |-> BodyOf(ps[n + k - 1])] = <<b>>
  <2>1. n + 1 - 1 = n
    BY <1>1
  <2> QED BY <2>1
<1>4. WordsBefore(ps, n + 1) = WordsBefore(ps, n) \o FlattenSeq([k \in 1..1 |-> BodyOf(ps[n + k - 1])])
  BY <1>1, WordsBeforeLater
<1>5. FlattenSeq(<<b>>) = b
  <2> HIDE DEF b
  <2> QED BY <1>2, FlattenOne DEF Texts
<1>6. WordsBefore(ps, n) \in Texts
  BY <1>1, WordsBeforeText
<1> QED BY <1>1, <1>2, <1>3, <1>4, <1>5, <1>6

-----------------------------------------------------------------------------
(* Chunks of a text *)

\* The pages the words of a text are on; a chunk that cites them and that fits.
PagesOf(f, t) == {f.blocks[c.at[1]].place[1] : c \in ToSet(WordsOf(t))}
CitesItsPages(f, c) == c.kind # "title" => PagesOf(f, c.text) \subseteq c.pages

\* A chunk of text of at most one more than the limit, a part of a table of one line or within it.
FitsTheLimit(c) ==
  /\ c.kind = "text" => Len(c.text) <= MaxChars + 1
  /\ c.kind = "table" /\ Len(c.text) > MaxChars => Len(Lines(c.text)) = 3

\* Chunks that cite their pages and fit.
GoodChunks(f, cs) == \A k \in 1..Len(cs) : CitesItsPages(f, cs[k]) /\ FitsTheLimit(cs[k])

\* Good chunks after good chunks.
LEMMA GoodConcat ==
  ASSUME NEW f, NEW cs, HasTexts(cs), GoodChunks(f, cs), NEW ns, HasTexts(ns), GoodChunks(f, ns)
  PROVE  GoodChunks(f, cs \o ns)
<1> DEFINE all == cs \o ns
           m == Len(cs)
           n == Len(ns)
<1>1. IsList(cs) /\ IsList(ns)
  BY DEF HasTexts
<1>2. Len(all) = m + n /\ m \in Nat /\ n \in Nat
  BY <1>1, ListsConcat
<1>3. \A k \in 1..m : all[k] = cs[k]
  BY <1>1, ListsConcat
<1>4. \A k \in 1..n : all[m + k] = ns[k]
  BY <1>1, ListsConcat
<1>5. /\ \A k \in 1..m : CitesItsPages(f, cs[k]) /\ FitsTheLimit(cs[k])
      /\ \A k \in 1..n : CitesItsPages(f, ns[k]) /\ FitsTheLimit(ns[k])
  BY DEF GoodChunks
<1> HIDE DEF all, m, n
<1>6. ASSUME NEW k \in 1..(m + n) PROVE CitesItsPages(f, all[k]) /\ FitsTheLimit(all[k])
  <2>1. CASE k \in 1..m
    BY <1>3, <1>5, <2>1
  <2>2. CASE k \notin 1..m
    <3> DEFINE j == k - m
    <3>1. j \in 1..n /\ k = m + j
      BY <1>2, <2>2
    <3> HIDE DEF j
    <3> QED BY <1>4, <1>5, <3>1
  <2> QED BY <2>1, <2>2
<1> QED BY <1>2, <1>6 DEF GoodChunks, all

\* Texts whose words are those of a text are on its pages.
LEMMA PagesOfParts ==
  ASSUME NEW f, NEW t, NEW s \in Seq(Texts), WordsIn(s) = WordsOf(t), NEW k \in 1..Len(s)
  PROVE  PagesOf(f, s[k]) \subseteq PagesOf(f, t)
<1>1. ToSet(WordsOf(s[k])) \subseteq ToSet(WordsIn(s))
  BY WordsOfSeveral
<1> QED BY <1>1 DEF PagesOf

\* Words of which none is there twice are all first uses.
LEMMA FirstUsesDistinct ==
  ASSUME NEW s \in Texts, Distinct(s)
  PROVE  FirstUses(s) = s
<1>1. <<>> \in Texts /\ <<>> \o s = s
  BY TextsConcat
<1>2. ToSet(<<>>) = {} /\ FirstUses(<<>>) = <<>>
  BY FewMembers, FirstUsesNothing
<1>3. FirstUses(<<>> \o s) = FirstUses(<<>>) \o s
  BY <1>1, <1>2, FirstUsesConcat
<1> QED BY <1>1, <1>2, <1>3

\* Chunks whose words are some distinct words tell these words.
LEMMA NoDuplicates ==
  ASSUME NEW cs, HasTexts(cs), NEW w \in Texts, Distinct(w), ContentOf(cs, BodyKinds) = w,
         ContentOf(cs, {"text", "code"}) = w \/ ContentOf(cs, {"text", "code"}) = <<>>
  PROVE  Tell(cs, w)
<1>1. FirstUses(w) = w
  BY FirstUsesDistinct
<1>2. Distinct(<<>>)
  BY FewMembers
<1> QED BY <1>1, <1>2 DEF Tell

\* The chunks of a text on a page tell its words, cite the page and fit.
LEMMA TextChunksTell ==
  ASSUME NEW section, NEW page, NEW t \in Texts, Distinct(WordsOf(t)), PagesOf(file, t) \subseteq {page}
  PROVE  /\ Tell(TextChunks(section, t, page), WordsOf(t))
         /\ GoodChunks(file, TextChunks(section, t, page))
<1> DEFINE cs == TextChunks(section, t, page)
           texts == TextPieces(t)
           w == WordsOf(t)
<1>1. /\ texts \in Seq(Texts) /\ WordsIn(texts) = w
      /\ \A k \in 1..Len(texts) : Len(texts[k]) <= MaxChars + 1
  BY TextPiecesKeepWords
<1>2. w \in Texts
  BY WordsOfText
<1>3. DOMAIN texts = 1..Len(texts)
  BY <1>1, LenProperties
<1>4. cs = [k \in DOMAIN texts |-> Chunk("text", section, texts[k], {page}, TitleIndex(section))]
  BY DEF TextChunks, Each
<1> HIDE DEF cs, texts, w
<1>5. cs = [k \in 1..Len(texts) |-> cs[k]]
  BY <1>3, <1>4
<1>6. \A k \in 1..Len(texts) : cs[k].kind = "text" /\ cs[k].text = texts[k] /\ cs[k].pages = {page}
  BY <1>3, <1>4 DEF Chunk
<1>7. /\ HasTexts(cs) /\ Len(cs) = Len(texts)
      /\ \A kinds : ContentOf(cs, kinds) = IF "text" \in kinds THEN WordsIn(texts) ELSE <<>>
  <2>1. MadeOf(cs, "text", texts)
    BY <1>1, <1>5, <1>6 DEF MadeOf
  <2> QED BY <2>1, ChunksOfTexts
<1>8. Tell(cs, w)
  <2>1. ContentOf(cs, BodyKinds) = w /\ ContentOf(cs, {"text", "code"}) = w
    BY <1>1, <1>7 DEF BodyKinds
  <2> QED BY <1>2, <1>7, <2>1, NoDuplicates DEF w
<1>9. GoodChunks(file, cs)
  <2> SUFFICES ASSUME NEW k \in 1..Len(texts)
               PROVE  /\ CitesItsPages(file, cs[k])
                      /\ FitsTheLimit(cs[k])
    BY <1>7 DEF GoodChunks
  <2>1. PagesOf(file, texts[k]) \subseteq {page}
    BY <1>1, PagesOfParts DEF w
  <2> QED BY <1>1, <1>6, <2>1 DEF CitesItsPages, FitsTheLimit
<1> QED BY <1>8, <1>9 DEF cs, w

\* A chunk of code, or of a whole table, tells its words.
LEMMA OneChunkTells ==
  ASSUME NEW c, c.kind \in {"code", "table"}, c.text \in Texts, Distinct(WordsOf(c.text)),
         CitesItsPages(file, c), FitsTheLimit(c)
  PROVE  Tell(<<c>>, WordsOf(c.text)) /\ GoodChunks(file, <<c>>)
<1> DEFINE t == c.text
           kind == c.kind
           cs == <<c>>
           texts == <<t>>
<1>1. texts \in Seq(Texts) /\ Len(texts) = 1 /\ texts[1] = t
  OBVIOUS
<1>2. cs = [k \in 1..Len(texts) |-> cs[k]] /\ cs[1] = c
  OBVIOUS
<1>3. WordsIn(texts) = WordsOf(t) /\ WordsOf(t) \in Texts
  <2> HIDE DEF t
  <2>1. t \in Texts
    BY DEF t
  <2>2. texts = Append(<<>>, t) /\ <<>> \in Seq(Texts)
    BY <2>1
  <2>3. WordsIn(texts) = <<>> \o WordsOf(t) /\ WordsOf(t) \in Texts
    BY <2>1, <2>2, WordsInTexts, WordsOfText
  <2> QED BY <2>3, TextsConcat
<1> HIDE DEF texts, cs
<1>4. \A k \in 1..Len(texts) : cs[k].kind = kind /\ cs[k].text = texts[k]
  BY <1>1, <1>2
<1>5. /\ HasTexts(cs) /\ Len(cs) = Len(texts)
      /\ \A kinds : ContentOf(cs, kinds) = IF kind \in kinds THEN WordsIn(texts) ELSE <<>>
  <2>1. MadeOf(cs, kind, texts)
    BY <1>1, <1>2, <1>4 DEF MadeOf
  <2> QED BY <2>1, ChunksOfTexts
<1>6. ContentOf(cs, BodyKinds) = WordsOf(t)
  BY <1>3, <1>5 DEF BodyKinds
<1>7. ContentOf(cs, {"text", "code"}) = WordsOf(t) \/ ContentOf(cs, {"text", "code"}) = <<>>
  BY <1>3, <1>5
<1>8. Tell(cs, WordsOf(t))
  BY <1>3, <1>5, <1>6, <1>7, NoDuplicates
<1>9. GoodChunks(file, cs)
  BY <1>1, <1>2, <1>5 DEF GoodChunks
<1> QED BY <1>8, <1>9 DEF cs

-----------------------------------------------------------------------------
(* Chunks of a run *)

\* The words of a paragraph are on its page.
LEMMA PageOfParagraph ==
  ASSUME NEW f, NEW p, OfItsBlock(f, p)
  PROVE  /\ p.text \in Texts /\ WordsOf(p.text) \in Texts /\ Distinct(WordsOf(p.text))
         /\ PagesOf(f, p.text) \subseteq {p.page}
         /\ p.kind \in {"text", "code"} => BodyOf(p) = WordsOf(p.text)
<1>1. p.text \in Texts
  BY DEF OfItsBlock, ParagraphRows
<1>2. WordsOf(p.text) \in Texts /\ Distinct(WordsOf(p.text))
  BY <1>1, WordsOfText DEF OfItsBlock
<1>3. PagesOf(f, p.text) \subseteq {p.page}
  BY DEF PagesOf, OfItsBlock
<1>4. p.kind \in {"text", "code"} => BodyOf(p) = WordsOf(p.text)
  BY DEF BodyOf, OfItsBlock
<1> QED BY <1>1, <1>2, <1>3, <1>4

\* Consecutive text paragraphs of one page, just before paragraph n.
RunOf(ps, r, n) ==
  /\ n \in 1..(Len(ps) + 1) /\ r \in Seq(Nat)
  /\ Len(r) \in Nat /\ Len(r) < n /\ DOMAIN r = 1..Len(r)
  /\ \A k \in 1..Len(r) : /\ r[k] = n - Len(r) + k - 1
                          /\ ps[r[k]].kind = "text" /\ ps[r[k]].page = ps[r[1]].page

\* The texts of a run.
TextsOf(ps, r) == [k \in 1..Len(r) |-> ps[r[k]].text]

\* The texts of a run tell the words between what was cut and the paragraph that is next.
LEMMA RunWords ==
  ASSUME NEW f, NEW ps, ParagraphsOf(f, ps), NEW n, NEW r, RunOf(ps, r, n)
  PROVE  /\ TextsOf(ps, r) \in Seq(Texts) /\ WordsIn(TextsOf(ps, r)) \in Texts
         /\ n - Len(r) \in 1..(Len(ps) + 1)
         /\ WordsBefore(ps, n) = WordsBefore(ps, n - Len(r)) \o WordsIn(TextsOf(ps, r))
         /\ Distinct(WordsIn(TextsOf(ps, r)))
         /\ \A k \in 1..Len(r) : PagesOf(f, TextsOf(ps, r)[k]) \subseteq {ps[r[1]].page}
<1> DEFINE m == Len(r)
           a == n - m
           N == Len(ps)
           texts == TextsOf(ps, r)
           v == [k \in 1..m |-> BodyOf(ps[a + k - 1])]
<1>1. N \in Nat /\ n \in 1..(N + 1) /\ m \in Nat /\ m < n
  BY LenProperties DEF RunOf, ParagraphsOf
<1>2. a \in 1..(N + 1) /\ a + m <= N + 1 /\ a + m = n
  BY <1>1
<1>3. \A k \in 1..m : /\ r[k] = a + k - 1 /\ ps[r[k]].kind = "text"
                      /\ ps[r[k]].page = ps[r[1]].page
  BY DEF RunOf
<1>4. texts = [k \in 1..m |-> ps[r[k]].text]
  BY DEF TextsOf
<1>5. \A i \in 1..N : OfItsBlock(f, ps[i])
  BY DEF ParagraphsOf
<1> HIDE DEF a, m, N, texts
<1>6. \A k \in 1..m : r[k] \in 1..N
  BY <1>1, <1>2, <1>3
<1>7. ASSUME NEW k \in 1..m
      PROVE  /\ /\ texts[k] \in Texts
             /\ BodyOf(ps[r[k]]) = WordsOf(texts[k])
             /\ v[k] = WordsOf(texts[k])
             /\ PagesOf(f, texts[k]) \subseteq {ps[r[1]].page}
  <2>1. OfItsBlock(f, ps[r[k]]) /\ ps[r[k]].kind \in {"text", "code"}
    BY <1>3, <1>5, <1>6
  <2>2. texts[k] = ps[r[k]].text
    BY <1>4
  <2>3. /\ ps[r[k]].text \in Texts /\ BodyOf(ps[r[k]]) = WordsOf(ps[r[k]].text)
        /\ PagesOf(f, ps[r[k]].text) \subseteq {ps[r[k]].page}
    BY <2>1, PageOfParagraph
  <2>4. v[k] = BodyOf(ps[r[k]])
    BY <1>3
  <2> QED BY <1>3, <2>2, <2>3, <2>4
<1>8. texts \in Seq(Texts) /\ Len(texts) = m /\ DOMAIN texts = 1..m
  <2>1. texts \in [1..m -> Texts]
    BY <1>4, <1>7
  <2> QED BY <1>1, <2>1
<1>9. WordsIn(texts) \in Texts
  BY <1>8, WordsInTexts
<1>10. WordsBefore(ps, a + m) = WordsBefore(ps, a) \o FlattenSeq(v)
  <2> HIDE DEF v
  <2>1. a \in 1..(Len(ps) + 1) /\ a + m <= Len(ps) + 1 /\ m \in Nat
    BY <1>1, <1>2 DEF N
  <2>2. WordsBefore(ps, a + m)
          = WordsBefore(ps, a) \o FlattenSeq([k \in 1..m |-> BodyOf(ps[a + k - 1])])
    BY <2>1, WordsBeforeLater
  <2> QED BY <2>2 DEF v
<1>11. WordsIn(texts) = FlattenSeq(v)
  <2>1. v = [k \in 1..m |-> WordsOf(texts[k])]
    BY <1>7
  <2>2. WordsIn(texts) = FlattenSeq([k \in 1..m |-> WordsOf(texts[k])])
    BY <1>8 DEF WordsIn
  <2> QED BY <2>1, <2>2
<1> HIDE DEF v
<1>12. Distinct(WordsIn(texts))
  <2>1. Distinct(WordsBefore(ps, n)) /\ WordsBefore(ps, a) \in Texts
    BY <1>1, <1>2, WordsBeforeText DEF N
  <2>2. Distinct(WordsBefore(ps, a) \o WordsIn(texts))
    BY <1>2, <1>10, <1>11, <2>1
  <2> QED BY <1>9, <2>1, <2>2, DistinctConcat DEF Texts
<1>13. \A k \in 1..m : PagesOf(f, texts[k]) \subseteq {ps[r[1]].page}
  BY <1>7
<1> QED BY <1>2, <1>8, <1>9, <1>10, <1>11, <1>12, <1>13 DEF texts, m, a, N

\* The chunks of the run have its words.
LEMMA FlushedTells ==
  ASSUME ParagraphsOf(file, paras), RunOf(paras, run, next)
  PROVE  Tell(Flushed, WordsIn(TextsOf(paras, run))) /\ GoodChunks(file, Flushed)
<1> DEFINE texts == TextsOf(paras, run)
           nl == PutIn("newline")
           t == Separated(texts, nl)
           page == paras[run[1]].page
<1>1. /\ texts \in Seq(Texts) /\ WordsIn(texts) \in Texts /\ Distinct(WordsIn(texts))
      /\ \A k \in 1..Len(run) : PagesOf(file, texts[k]) \subseteq {page}
  BY RunWords
<1>2. Len(run) \in Nat /\ DOMAIN run = 1..Len(run)
  BY DEF RunOf
<1>3. texts = [k \in DOMAIN run |-> paras[run[k]].text] /\ DOMAIN texts = 1..Len(run)
  BY <1>2 DEF TextsOf
<1>4. CASE run = <<>>
  <2>1. Flushed = <<>>
    BY <1>4 DEF Flushed
  <2>2. texts = <<>>
    BY <1>3, <1>4
  <2>3. WordsIn(texts) = <<>>
    BY <2>2, WordsInTexts
  <2>4. GoodChunks(file, <<>>)
    BY DEF GoodChunks
  <2> QED BY <2>1, <2>3, <2>4, NoChunks
<1>5. CASE run # <<>>
  <2>1. Flushed = TextChunks(SectionOf(run[1]), t, page)
    BY <1>3, <1>5 DEF Flushed
  <2> HIDE DEF texts
  <2>2. t \in Texts /\ WordsOf(t) = WordsIn(texts)
    BY <1>1, NewlineText, SeparatedTexts
  <2> HIDE DEF t, page
  <2>3. PagesOf(file, t) \subseteq {page}
    <3> SUFFICES ASSUME NEW c \in ToSet(WordsOf(t)) PROVE file.blocks[c.at[1]].place[1] = page
      BY DEF PagesOf
    <3>1. PICK k \in 1..Len(texts) : c \in ToSet(WordsOf(texts[k]))
      BY <1>1, <2>2, WordsOfSeveral
    <3>2. k \in 1..Len(run)
      BY <1>1, <1>3, LenProperties
    <3>3. file.blocks[c.at[1]].place[1] \in PagesOf(file, texts[k])
      BY <3>1 DEF PagesOf
    <3> QED BY <1>1, <3>2, <3>3
  <2> QED BY <1>1, <2>1, <2>2, <2>3, TextChunksTell DEF texts
<1> QED BY <1>4, <1>5

\* The chunk of a code paragraph has its words.
LEMMA CodeTells ==
  ASSUME ParagraphsOf(file, paras), NEW i \in 1..Len(paras), paras[i].kind = "code"
  PROVE  Tell(<<CodeChunk(i)>>, BodyOf(paras[i])) /\ GoodChunks(file, <<CodeChunk(i)>>)
<1> DEFINE c == CodeChunk(i)
           p == paras[i]
<1>1. OfItsBlock(file, p)
  BY DEF ParagraphsOf
<1>2. /\ p.text \in Texts /\ Distinct(WordsOf(p.text)) /\ PagesOf(file, p.text) \subseteq {p.page}
      /\ BodyOf(p) = WordsOf(p.text)
  BY <1>1, PageOfParagraph
<1>3. c.kind = "code" /\ c.text = p.text /\ c.pages = {p.page}
  BY DEF CodeChunk, Chunk
<1> HIDE DEF c, p
<1>4. CitesItsPages(file, c) /\ FitsTheLimit(c)
  BY <1>2, <1>3 DEF CitesItsPages, FitsTheLimit
<1>5. Tell(<<c>>, WordsOf(c.text)) /\ GoodChunks(file, <<c>>)
  BY <1>2, <1>3, <1>4, OneChunkTells
<1> QED BY <1>2, <1>3, <1>5 DEF c, p

\* Title chunks have no words that count.
LEMMA TitlesTell ==
  ASSUME ParagraphsOf(file, paras)
  PROVE  Tell(TitleChunks, <<>>) /\ GoodChunks(file, TitleChunks)
<1> DEFINE cs == TitleChunks
           s == TitledSections
           H == {h \in Headings : \E i \in DOMAIN paras \ Headings : SectionOf(i) = h}
           N == Len(paras)
           texts == [k \in 1..Len(s) |-> paras[s[k]].text]
<1>1. N \in Nat /\ DOMAIN paras = 1..N /\ \A i \in 1..N : paras[i].text \in Texts
  <2>1. paras \in Seq(ParagraphRows)
    BY DEF ParagraphsOf
  <2>2. N \in Nat /\ DOMAIN paras = 1..N /\ \A i \in 1..N : paras[i] \in ParagraphRows
    BY <2>1, LenProperties, ElementOfSeq
  <2>3. \A p \in ParagraphRows : p.text \in Texts
    BY DEF ParagraphRows
  <2> QED BY <2>2, <2>3
<1>2. s = Ascending(H) /\ H \subseteq 1..N
  BY <1>1 DEF TitledSections, Headings
<1> HIDE DEF s, H, N
<1>3. s \in Seq(1..N)
  <2>1. H \subseteq 0..N
    BY <1>1, <1>2
  <2>2. Ascending(H) \in Seq(H)
    BY <1>1, <2>1, AscendingLists
  <2>3. s \in [1..Len(s) -> H] /\ Len(s) \in Nat
    BY <1>2, <2>2, LenProperties
  <2>4. s \in [1..Len(s) -> 1..N]
    BY <1>2, <2>3
  <2> DEFINE S == 1..N
  <2> HIDE DEF S
  <2>5. s \in [1..Len(s) -> S]
    BY <2>4 DEF S
  <2>6. s \in Seq(S)
    BY <2>3, <2>5
  <2> QED BY <2>6 DEF S
<1>4. Len(s) \in Nat /\ DOMAIN s = 1..Len(s) /\ \A k \in 1..Len(s) : s[k] \in 1..N
  BY <1>3, LenProperties, ElementOfSeq
<1>5. cs = [k \in DOMAIN s |-> TitleChunk(s[k])]
  BY DEF TitleChunks, Each, s
<1> HIDE DEF cs
<1>6. \A k \in 1..Len(s) : cs[k].kind = "title" /\ cs[k].text = texts[k]
  BY <1>4, <1>5 DEF TitleChunk, Chunk
<1>7. texts \in Seq(Texts) /\ Len(texts) = Len(s)
  <2>1. texts \in [1..Len(s) -> Texts]
    BY <1>1, <1>4
  <2> HIDE DEF texts
  <2> QED BY <1>4, <2>1
<1> HIDE DEF texts
<1>8. MadeOf(cs, "title", texts)
  BY <1>4, <1>5, <1>6, <1>7 DEF MadeOf
<1>9. /\ HasTexts(cs) /\ Len(cs) = Len(texts)
      /\ \A kinds : ContentOf(cs, kinds) = IF "title" \in kinds THEN WordsIn(texts) ELSE <<>>
  BY <1>8, ChunksOfTexts
<1>10. ContentOf(cs, BodyKinds) = <<>> /\ ContentOf(cs, {"text", "code"}) = <<>>
  BY <1>9 DEF BodyKinds
<1>11. <<>> \in Texts /\ Distinct(<<>>)
  BY TextsConcat, FewMembers
<1>12. Tell(cs, <<>>)
  BY <1>9, <1>10, <1>11, NoDuplicates
<1>13. GoodChunks(file, cs)
  BY <1>6, <1>7, <1>9 DEF GoodChunks, CitesItsPages, FitsTheLimit
<1> QED BY <1>12, <1>13 DEF cs

-----------------------------------------------------------------------------
(* Chunks of a table *)

\* Texts that begin with the same words, each followed by words of its own.
LEMMA RepeatedTop ==
  ASSUME NEW top \in Texts, NEW ws \in Seq(Texts), NEW us \in Seq(Texts), Len(us) = Len(ws),
         Len(ws) > 0, \A k \in 1..Len(ws) : us[k] = top \o ws[k], Distinct(top \o FlattenSeq(ws))
  PROVE  FirstUses(FlattenSeq(us)) = top \o FlattenSeq(ws)
<1> DEFINE N == Len(ws)
           U(k) == FlattenSeq(SubSeq(us, 1, k))
           W(k) == FlattenSeq(SubSeq(ws, 1, k))
           Good(k) == k > 0 /\ Distinct(top \o W(k)) => FirstUses(U(k)) = top \o W(k)
           T == {k \in 0..N : Good(k)}
<1>1. N \in Nat /\ N > 0
  BY LenProperties
<1>2. ASSUME NEW k \in 1..N
      PROVE  /\ U(k - 1) \in Texts /\ W(k - 1) \in Texts /\ us[k] \in Texts /\ ws[k] \in Texts
             /\ U(k) = U(k - 1) \o us[k] /\ W(k) = W(k - 1) \o ws[k]
             /\ us[k] = top \o ws[k]
  <2> DEFINE a == SubSeq(us, 1, k - 1)
             b == SubSeq(ws, 1, k - 1)
  <2>1. SubSeq(us, 1, k) = Append(a, us[k]) /\ a \in Seq(Texts) /\ us[k] \in Texts
    BY PrefixStep
  <2>2. SubSeq(ws, 1, k) = Append(b, ws[k]) /\ b \in Seq(Texts) /\ ws[k] \in Texts
    BY PrefixStep
  <2>3. us[k] = top \o ws[k]
    OBVIOUS
  <2> HIDE DEF a, b
  <2>4. FlattenSeq(Append(a, us[k])) = FlattenSeq(a) \o us[k] /\ FlattenSeq(a) \in Texts
    BY <2>1, FlattenProperties DEF Texts
  <2>5. FlattenSeq(Append(b, ws[k])) = FlattenSeq(b) \o ws[k] /\ FlattenSeq(b) \in Texts
    BY <2>2, FlattenProperties DEF Texts
  <2> QED BY <2>1, <2>2, <2>3, <2>4, <2>5 DEF a, b
<1> HIDE DEF U, W
<1>3. U(0) = <<>> /\ W(0) = <<>>
  <2>1. SubSeq(us, 1, 0) = <<>> /\ SubSeq(ws, 1, 0) = <<>>
    OBVIOUS
  <2> QED BY <2>1, FlattenNothing DEF U, W
<1>4. 0 \in T
  <2>1. Good(0)
    OBVIOUS
  <2> HIDE DEF Good
  <2> QED BY <1>1, <2>1
<1>5. ASSUME NEW k \in 1..N, k - 1 \in T PROVE k \in T
  <2> DEFINE u == U(k - 1)
             w == W(k - 1)
             new == ws[k]
             d == top \o w
  <2>1. /\ u \in Texts /\ w \in Texts /\ new \in Texts
        /\ U(k) = u \o (top \o new) /\ W(k) = w \o new
    BY <1>2
  <2>2. ASSUME Distinct(top \o W(k)) PROVE FirstUses(U(k)) = top \o W(k)
    <3>1. top \o W(k) = d \o new /\ d \in Texts
      <4> HIDE DEF u, w, new
      <4>1. (top \o w) \o new = top \o (w \o new) /\ top \o w \in Texts
        BY <2>1, TextsConcat
      <4> QED BY <2>1, <4>1
    <3>2. Distinct(d) /\ Distinct(new) /\ ToSet(d) \cap ToSet(new) = {}
      <4> HIDE DEF u, w, new, d
      <4>1. Distinct(d \o new)
        BY <2>2, <3>1
      <4> QED BY <2>1, <3>1, <4>1, DistinctConcat DEF Texts
    <3>3. CASE k = 1
      <4>1. u = <<>> /\ w = <<>>
        BY <1>3, <3>3
      <4> HIDE DEF u, w, new
      <4>2. U(k) = top \o new /\ W(k) = new /\ top \o new \in Texts
        BY <2>1, <4>1, TextsConcat
      <4> QED BY <2>2, <4>2, FirstUsesDistinct
    <3>4. CASE k # 1
      <4>1. k - 1 > 0
        BY <3>4
      <4>2. FirstUses(u) = d
        BY <1>5, <3>2, <4>1
      <4> HIDE DEF u, w, new
      <4>3. U(k) = (u \o top) \o new /\ u \o top \in Texts
        BY <2>1, TextsConcat
      <4>4. ToSet(d) = ToSet(top) \cup ToSet(w)
        BY <2>1, ConcatMembers DEF Texts
      <4>5. ToSet(u) = ToSet(d)
        <5>1. ToSet(FirstUses(u)) = ToSet(u)
          BY <2>1, FirstUsesMembers
        <5> QED BY <4>2, <5>1
      <4>6. FirstUses(u \o top) = d
        BY <2>1, <4>2, <4>4, <4>5, FirstUsesConcat
      <4>7. ToSet(u \o top) = ToSet(d)
        <5>1. ToSet(u \o top) = ToSet(u) \cup ToSet(top)
          BY <2>1, ConcatMembers DEF Texts
        <5> QED BY <4>4, <4>5, <5>1
      <4> HIDE DEF d
      <4> DEFINE x == u \o top
      <4>8. x \in Texts /\ FirstUses(x) = d /\ ToSet(x) = ToSet(d) /\ U(k) = x \o new
        BY <4>3, <4>6, <4>7
      <4> HIDE DEF x
      <4>9. FirstUses(x \o new) = FirstUses(x) \o new
        BY <2>1, <3>2, <4>8, FirstUsesConcat
      <4> QED BY <3>1, <4>8, <4>9
    <3> QED BY <3>3, <3>4
  <2>3. k \in 0..N
    BY <1>1
  <2> QED BY <2>2, <2>3
<1> HIDE DEF T
<1>6. N \in T
  <2>1. 0..N \subseteq T
    BY <1>1, <1>4, <1>5, InductionUpTo
  <2> QED BY <1>1, <2>1
<1>7. U(N) = FlattenSeq(us) /\ W(N) = FlattenSeq(ws)
  BY SubSeqFull DEF U, W
<1> QED BY <1>1, <1>6, <1>7 DEF T

\* The chunks of a table tell its words: none when it has its first two lines only and is too
\* long; a part repeats the first two lines and no other (_add_table_chunk).
LEMMA TableTells ==
  ASSUME ParagraphsOf(file, paras), NEW i \in 1..Len(paras), paras[i].kind = "table"
  PROVE  Tell(TableChunks(i), BodyOf(paras[i])) /\ GoodChunks(file, TableChunks(i))
<1> DEFINE p == paras[i]
           text == p.text
           lines == Lines(text)
           cs == TableChunks(i)
           w == WordsOf(text)
<1>1. OfItsBlock(file, p)
  BY DEF ParagraphsOf
<1>2. text \in Texts /\ w \in Texts /\ Distinct(w) /\ PagesOf(file, text) \subseteq {p.page}
  BY <1>1, PageOfParagraph
<1>3. BodyOf(p) = IF Len(text) > MaxChars /\ Len(lines) = 2 THEN <<>> ELSE w
  BY <1>1 DEF BodyOf, OfItsBlock
<1>4. /\ lines \in Seq(Texts) /\ Len(lines) \in Nat /\ WordsIn(lines) = w
      /\ \A k \in 1..Len(lines) : NewlineFree(lines[k])
  BY <1>2, LinesOfText
<1>5. Len(text) \in Nat /\ MaxChars \in Nat
  BY <1>2, TextLengths, LimitsAssumption
<1>6. cs = IF Len(lines) < 2 THEN TextChunks(SectionOf(i), text, p.page)
           ELSE [k \in DOMAIN (IF Len(text) <= MaxChars THEN <<text>> ELSE TableParts(lines)) |->
                   Chunk("table", SectionOf(i),
                         (IF Len(text) <= MaxChars THEN <<text>> ELSE TableParts(lines))[k],
                         {p.page}, TitleIndex(SectionOf(i)))]
  BY DEF TableChunks, TableChunksOf, Each
<1> HIDE DEF p, text, lines, cs, w
<1> DEFINE L == Len(lines)
<1>11. L \in Nat
  BY <1>4
<1> HIDE DEF L
<1>12. (L < 2 => L # 2) /\ (L < 2 \/ L >= 2) /\ (L >= 2 /\ L # 2 => L > 2)
  BY <1>11
<1>13. /\ Len(lines) < 2 => Len(lines) # 2
       /\ Len(lines) < 2 \/ Len(lines) >= 2
       /\ Len(lines) >= 2 /\ Len(lines) # 2 => Len(lines) > 2
  BY <1>12 DEF L
<1>7. CASE Len(lines) < 2
  <2>1. BodyOf(p) = w
    BY <1>3, <1>7, <1>13
  <2> QED BY <1>2, <1>6, <1>7, <2>1, TextChunksTell DEF p, cs, w
<1>8. CASE Len(lines) >= 2 /\ Len(text) <= MaxChars
  <2> DEFINE c == Chunk("table", SectionOf(i), text, {p.page}, TitleIndex(SectionOf(i)))
  <2>1. BodyOf(p) = w
    BY <1>3, <1>5, <1>8
  <2>2. cs = [k \in DOMAIN <<text>> |->
                Chunk("table", SectionOf(i), <<text>>[k], {p.page}, TitleIndex(SectionOf(i)))]
    BY <1>4, <1>6, <1>8
  <2>3. cs = <<c>>
    <3>1. DOMAIN <<text>> = 1..1 /\ \A k \in 1..1 : <<text>>[k] = text
      OBVIOUS
    <3>2. cs = [k \in 1..1 |-> c]
      BY <2>2, <3>1
    <3> HIDE DEF c
    <3> QED BY <3>2
  <2>4. c.kind = "table" /\ c.text = text /\ c.pages = {p.page}
    BY DEF Chunk
  <2> HIDE DEF c
  <2>5. CitesItsPages(file, c) /\ FitsTheLimit(c)
    BY <1>2, <1>5, <1>8, <2>4 DEF CitesItsPages, FitsTheLimit
  <2>6. Tell(<<c>>, WordsOf(c.text)) /\ GoodChunks(file, <<c>>)
    BY <1>2, <2>4, <2>5, OneChunkTells DEF w
  <2> QED BY <2>1, <2>3, <2>4, <2>6 DEF p, cs, w
<1>9. CASE Len(lines) >= 2 /\ ~(Len(text) <= MaxChars)
  <2> DEFINE parts == PartLines(lines)
             n == Len(parts)
             texts == TableParts(lines)
             top == WordsIn(TopLines(lines))
             ws == [k \in 1..n |-> WordsIn(parts[k])]
             us == [k \in 1..n |-> WordsOf(texts[k])]
  <2>1. lines \in TableLines
    BY <1>4, <1>9 DEF TableLines
  <2>2. /\ parts \in Seq(GoodParts(lines)) /\ top \o WordsIn(FlattenSeq(parts)) = w
        /\ Len(lines) > 2 <=> parts # <<>>
    BY <1>4, <2>1, PartLinesKeepWords
  <2>3. n \in Nat /\ DOMAIN parts = 1..n /\ \A k \in 1..n : parts[k] \in GoodParts(lines)
    BY <2>2, LenProperties, ElementOfSeq
  <2>4. texts = [k \in 1..n |-> PartText(lines, parts[k])]
    BY <2>3 DEF TableParts, PartText
  <2>5. cs = [k \in DOMAIN texts |->
                Chunk("table", SectionOf(i), texts[k], {p.page}, TitleIndex(SectionOf(i)))]
    BY <1>4, <1>6, <1>9
  <2> HIDE DEF parts, texts, n
  <2>6. ASSUME NEW k \in 1..n
        PROVE  /\ texts[k] \in Texts /\ WordsOf(texts[k]) = top \o WordsIn(parts[k])
               /\ Len(texts[k]) > MaxChars => Len(Lines(texts[k])) = 3
    <3>1. texts[k] = PartText(lines, parts[k])
      BY <2>4
    <3> QED BY <2>1, <2>3, <3>1, GoodPart
  <2>7. texts \in Seq(Texts) /\ Len(texts) = n /\ DOMAIN texts = 1..n
    <3>1. texts \in [1..n -> Texts]
      BY <2>4, <2>6
    <3> QED BY <2>3, <3>1
  <2>8. \A k \in 1..n : cs[k].kind = "table" /\ cs[k].text = texts[k] /\ cs[k].pages = {p.page}
    BY <2>5, <2>7 DEF Chunk
  <2>9. MadeOf(cs, "table", texts)
    BY <2>5, <2>7, <2>8 DEF MadeOf
  <2>10. /\ HasTexts(cs) /\ Len(cs) = n
         /\ ContentOf(cs, BodyKinds) = WordsIn(texts) /\ ContentOf(cs, {"text", "code"}) = <<>>
    BY <2>7, <2>9, ChunksOfTexts DEF BodyKinds
  <2>11. parts \in Seq(Seq(Texts)) /\ top \in Texts
    <3>1. parts \in [1..n -> Seq(Texts)]
      <4>1. parts \in [1..n -> GoodParts(lines)]
        BY <2>2, <2>3 DEF n
      <4>2. GoodParts(lines) \subseteq Seq(Texts)
        BY DEF GoodParts
      <4> QED BY <4>1, <4>2
    <3>2. TopLines(lines) \in Seq(Texts)
      BY <2>1, TopOfTable
    <3> QED BY <2>3, <3>1, <3>2, WordsInTexts
  <2>12. ws \in Seq(Texts) /\ Len(ws) = n /\ WordsIn(FlattenSeq(parts)) = FlattenSeq(ws)
    <3>1. ws \in Seq(Texts) /\ WordsIn(FlattenSeq(parts)) = FlattenSeq(ws)
      BY <2>11, WordsInFlatten DEF n
    <3>2. Len(ws) = n
      <4>1. DOMAIN ws = 1..n
        OBVIOUS
      <4> HIDE DEF ws
      <4> QED BY <2>3, <3>1, <4>1, LenProperties
    <3> QED BY <3>1, <3>2
  <2>13. us \in Seq(Texts) /\ Len(us) = n /\ WordsIn(texts) = FlattenSeq(us)
    <3>1. us \in [1..n -> Texts]
      BY <2>6, WordsOfText
    <3>2. WordsIn(texts) = FlattenSeq(us)
      BY <2>7 DEF WordsIn
    <3> HIDE DEF us
    <3> QED BY <2>3, <3>1, <3>2
  <2>14. \A k \in 1..n : us[k] = top \o ws[k]
    BY <2>6
  <2>15. \A k \in 1..n : us[k] = WordsOf(texts[k]) /\ ws[k] = WordsIn(parts[k])
    OBVIOUS
  <2> HIDE DEF ws, us, top
  <2>16. FlattenSeq(ws) \in Texts /\ top \o FlattenSeq(ws) = w
    BY <2>2, <2>12, FlattenTexts
  <2>17. ASSUME NEW k \in 1..n PROVE ToSet(WordsOf(texts[k])) \subseteq ToSet(w)
    <3>1. ws[k] \in Texts /\ ToSet(ws[k]) \subseteq ToSet(FlattenSeq(ws))
      <4>1. ToSet(FlattenSeq(ws)) = UNION {ToSet(ws[j]) : j \in 1..Len(ws)}
        BY <2>12, FlattenMembers DEF Texts
      <4>2. ws[k] \in Texts
        BY <2>12, ElementOfSeq
      <4> QED BY <2>12, <4>1, <4>2
    <3>2. ToSet(top \o ws[k]) = ToSet(top) \cup ToSet(ws[k])
      BY <2>11, <3>1, ConcatMembers DEF Texts
    <3>3. ToSet(top \o FlattenSeq(ws)) = ToSet(top) \cup ToSet(FlattenSeq(ws))
      BY <2>11, <2>16, ConcatMembers DEF Texts
    <3> QED BY <2>14, <2>15, <2>16, <3>1, <3>2, <3>3
  <2>18. GoodChunks(file, cs)
    <3> SUFFICES ASSUME NEW k \in 1..n PROVE CitesItsPages(file, cs[k]) /\ FitsTheLimit(cs[k])
      BY <2>10 DEF GoodChunks
    <3>1. PagesOf(file, texts[k]) \subseteq {p.page}
      BY <1>2, <2>17 DEF PagesOf, w
    <3> QED BY <2>6, <2>8, <3>1 DEF CitesItsPages, FitsTheLimit
  <2>19. FirstUses(WordsIn(texts)) = BodyOf(p)
    <3>1. CASE Len(lines) = 2
      <4>1. BodyOf(p) = <<>>
        BY <1>3, <1>5, <1>9, <3>1
      <4>2. n = 0
        BY <2>2, <3>1 DEF n
      <4>3. texts = <<>>
        BY <2>7, <4>2, EmptySeq
      <4>4. WordsIn(texts) = <<>>
        BY <4>3, WordsInTexts
      <4> QED BY <4>1, <4>4, FirstUsesNothing
    <3>2. CASE Len(lines) # 2
      <4>1. BodyOf(p) = w
        BY <1>3, <3>2
      <4>2. n > 0
        <5>3. Len(lines) > 2
          BY <1>9, <1>13, <3>2
        <5>1. parts # <<>>
          BY <2>2, <5>3
        <5>2. n # 0
          BY <2>2, <5>1, EmptySeq DEF n
        <5> QED BY <2>3, <5>2
      <4>3. Distinct(top \o FlattenSeq(ws))
        BY <1>2, <2>16
      <4>4. FirstUses(FlattenSeq(us)) = top \o FlattenSeq(ws)
        BY <2>11, <2>12, <2>13, <2>14, <4>2, <4>3, RepeatedTop
      <4> QED BY <2>13, <2>16, <4>1, <4>4
    <3> QED BY <3>1, <3>2
  <2>20. Tell(cs, BodyOf(p))
    BY <2>10, <2>19, FewMembers DEF Tell
  <2> QED BY <2>18, <2>20 DEF cs, p
<1> QED BY <1>7, <1>8, <1>9, <1>13

-----------------------------------------------------------------------------
(* The inductive invariant of the chunking of an uploaded file *)

\* States of a job on a file that is no paper.
FileStates ==
  {"loading", "loaded", "content", "chunked", "stored", "EMPTY_PDF", "OCR_REQUIRED",
   "EMPTY_DOCUMENT", "CHUNK_PARENT_INVALID"}

\* The chunks tell what stands before a paragraph.
Told(f, ps, cs, n) == Tell(cs, WordsBefore(ps, n)) /\ GoodChunks(f, cs)

\* What stands before the run is told.
CutSoFar ==
  RunOf(paras, run, next) /\ Told(file, paras, chunks, next - Len(run))

\* The inductive invariant: the chunks of a larger document tell what stands before the run, and
\* everything when it is chunked; every chunk cites its pages.
UploadInv ==
  /\ file \in Files /\ state \in FileStates
  /\ ParagraphsOf(file, paras)
  /\ state \in {"loading", "loaded"} => chunks = <<>> /\ run = <<>> /\ next = 1
  /\ state = "content" => Size(paras) > SmallLimit
  /\ Size(paras) > SmallLimit => CutSoFar
  /\ state \in {"chunked", "stored"} /\ Size(paras) > SmallLimit =>
       run = <<>> /\ next = Len(paras) + 1
  /\ \A k \in DOMAIN chunks : CitesItsPages(file, chunks[k])

\* Chunks that tell the next paragraph come after chunks that tell those before it.
LEMMA ToldMore ==
  ASSUME NEW f, NEW ps, ParagraphsOf(f, ps), NEW cs, NEW n \in 1..Len(ps), Told(f, ps, cs, n),
         NEW ns, Tell(ns, BodyOf(ps[n])), GoodChunks(f, ns)
  PROVE  Told(f, ps, cs \o ns, n + 1)
<1> DEFINE v == WordsBefore(ps, n)
           w == BodyOf(ps[n])
<1>1. WordsBefore(ps, n + 1) = v \o w /\ v \in Texts /\ w \in Texts /\ n + 1 \in 1..(Len(ps) + 1)
  BY WordsBeforeNext
<1>2. Distinct(WordsBefore(ps, n + 1))
  BY <1>1, WordsBeforeText
<1>3. Tell(cs, v) /\ GoodChunks(f, cs) /\ Tell(ns, w)
  BY DEF Told
<1> HIDE DEF v, w
<1>4. ToSet(v) \cap ToSet(w) = {}
  BY <1>1, <1>2, DistinctConcat DEF Texts
<1>5. Tell(cs \o ns, v \o w)
  BY <1>3, <1>4, TellConcat
<1>6. GoodChunks(f, cs \o ns)
  BY <1>3, GoodConcat DEF Tell
<1> QED BY <1>1, <1>5, <1>6 DEF Told

\* After the run has been cut everything before the next paragraph is told.
LEMMA AfterFlush ==
  ASSUME ParagraphsOf(file, paras), CutSoFar
  PROVE  /\ Told(file, paras, chunks \o Flushed, next)
         /\ next \in 1..(Len(paras) + 1)
         /\ Len(paras) \in Nat
<1> DEFINE n == next - Len(run)
           v == WordsBefore(paras, n)
           w == WordsIn(TextsOf(paras, run))
           ns == Flushed
<1>1. RunOf(paras, run, next) /\ Tell(chunks, v) /\ GoodChunks(file, chunks)
  BY DEF CutSoFar, Told
<1>2. /\ n \in 1..(Len(paras) + 1) /\ WordsBefore(paras, next) = v \o w /\ w \in Texts
  BY <1>1, RunWords
<1>3. next \in 1..(Len(paras) + 1) /\ Len(paras) \in Nat
  BY <1>1, LenProperties DEF RunOf, ParagraphsOf
<1>4. Distinct(WordsBefore(paras, next)) /\ v \in Texts
  BY <1>2, <1>3, WordsBeforeText
<1>5. Tell(ns, w) /\ GoodChunks(file, ns)
  BY <1>1, FlushedTells
<1> HIDE DEF v, w, n, ns
<1>6. ToSet(v) \cap ToSet(w) = {}
  BY <1>2, <1>4, DistinctConcat DEF Texts
<1>7. Tell(chunks \o ns, v \o w)
  BY <1>1, <1>5, <1>6, TellConcat
<1>8. GoodChunks(file, chunks \o ns)
  BY <1>1, <1>5, GoodConcat DEF Tell
<1> QED BY <1>2, <1>3, <1>7, <1>8 DEF Told, ns

\* Every chunk of what is told cites its pages.
LEMMA ToldCites ==
  ASSUME NEW f, NEW ps, NEW cs, NEW n, Told(f, ps, cs, n)
  PROVE  /\ \A k \in DOMAIN cs : CitesItsPages(f, cs[k]) /\ FitsTheLimit(cs[k])
         /\ DOMAIN cs = 1..Len(cs)
<1>1. cs \in Seq(ToSet(cs)) /\ GoodChunks(f, cs)
  BY DEF Told, Tell, HasTexts, IsList
<1>2. DOMAIN cs = 1..Len(cs)
  BY <1>1, LenProperties
<1> QED BY <1>1, <1>2 DEF GoodChunks

\* A run of none.
LEMMA EmptyRun ==
  ASSUME NEW ps, NEW n \in 1..(Len(ps) + 1), Len(ps) \in Nat
  PROVE  RunOf(ps, <<>>, n) /\ n - Len(<<>>) = n
BY DEF RunOf

\* A small document in one chunk, which cites every page.
LEMMA WholeCites ==
  ASSUME ParagraphsOf(file, paras), NEW c, c.pages = {paras[i].page : i \in DOMAIN paras},
         c.text = Separated([i \in DOMAIN paras |-> paras[i].text],
                            PutIn("newline") \o PutIn("newline"))
  PROVE  CitesItsPages(file, c)
<1> DEFINE texts == [i \in DOMAIN paras |-> paras[i].text]
           nl == PutIn("newline")
           t == Separated(texts, nl \o nl)
           N == Len(paras)
<1>1. paras \in Seq(ParagraphRows) /\ \A i \in 1..N : OfItsBlock(file, paras[i])
  BY DEF ParagraphsOf
<1>2. N \in Nat /\ DOMAIN paras = 1..N
  BY <1>1, LenProperties
<1>3. \A i \in 1..N : /\ paras[i].text \in Texts
                      /\ PagesOf(file, paras[i].text) \subseteq {paras[i].page}
  BY <1>1, PageOfParagraph
<1>4. texts \in Seq(Texts) /\ Len(texts) = N /\ \A i \in 1..N : texts[i] = paras[i].text
  <2>1. texts \in [1..N -> Texts] /\ \A i \in 1..N : texts[i] = paras[i].text
    BY <1>2, <1>3
  <2> HIDE DEF texts, N
  <2> QED BY <1>2, <2>1
<1>5. nl \o nl \in Texts /\ WordsOf(nl \o nl) = <<>>
  <2>1. nl \in Texts /\ WordsOf(nl) = <<>>
    BY NewlineText
  <2> HIDE DEF nl
  <2>2. WordsOf(nl \o nl) = WordsOf(nl) \o WordsOf(nl) /\ nl \o nl \in Texts
    BY <2>1, WordsConcat, TextsConcat
  <2> QED BY <2>1, <2>2, TextsConcat
<1> HIDE DEF texts, N
<1>6. t \in Texts /\ WordsOf(t) = WordsIn(texts)
  <2> DEFINE sep == nl \o nl
  <2>1. sep \in Texts /\ WordsOf(sep) = <<>>
    BY <1>5
  <2> HIDE DEF sep
  <2>2. Separated(texts, sep) \in Texts /\ WordsOf(Separated(texts, sep)) = WordsIn(texts)
    BY <1>4, <2>1, SeparatedTexts
  <2> QED BY <2>2 DEF sep
<1>7. c.text = t
  BY DEF texts
<1> HIDE DEF t
<1>8. ASSUME NEW x \in ToSet(WordsOf(t)) PROVE file.blocks[x.at[1]].place[1] \in c.pages
  <2>1. PICK k \in 1..Len(texts) : x \in ToSet(WordsOf(texts[k]))
    BY <1>4, <1>6, WordsOfSeveral
  <2>2. file.blocks[x.at[1]].place[1] \in PagesOf(file, texts[k])
    BY <2>1 DEF PagesOf
  <2>3. k \in 1..N
    BY <1>4
  <2>4. file.blocks[x.at[1]].place[1] = paras[k].page
    BY <1>3, <1>4, <2>2, <2>3
  <2>5. paras[k].page \in {paras[i].page : i \in DOMAIN paras}
    BY <1>2, <2>3
  <2> QED BY <2>4, <2>5
<1> QED BY <1>7, <1>8 DEF CitesItsPages, PagesOf

\* The length of paragraphs is a number.
LEMMA SizeOfParagraphs ==
  /\ Size(<<>>) = 0
  /\ \A f, ps : ParagraphsOf(f, ps) => Size(ps) \in Nat
<1>1. Size(<<>>) = 0
  <2>1. Size(<<>>) = Len(FlattenSeq(<<>>))
    BY DEF Size
  <2> QED BY <2>1, FlattenNothing
<1>2. ASSUME NEW f, NEW ps, ParagraphsOf(f, ps) PROVE Size(ps) \in Nat
  <2> DEFINE texts == [i \in DOMAIN ps |-> ps[i].text]
             N == Len(ps)
  <2>1. ps \in Seq(ParagraphRows)
    BY <1>2 DEF ParagraphsOf
  <2>2. N \in Nat /\ DOMAIN ps = 1..N /\ \A i \in 1..N : ps[i] \in ParagraphRows
    BY <2>1, LenProperties, ElementOfSeq
  <2>3. \A i \in 1..N : ps[i].text \in Texts
    BY <2>2 DEF ParagraphRows
  <2>4. texts \in [1..N -> Texts]
    BY <2>2, <2>3
  <2>5. Size(ps) = Len(FlattenSeq(texts))
    BY DEF Size
  <2> HIDE DEF texts, N
  <2>6. texts \in Seq(Texts)
    BY <2>2, <2>4
  <2>7. FlattenSeq(texts) \in Texts
    BY <2>6, FlattenTexts
  <2> QED BY <2>5, <2>7, TextLengths
<1> QED BY <1>1, <1>2

-----------------------------------------------------------------------------
(* Steps of the job *)

\* Loading a file gives paragraphs of its blocks.
LEMMA LoadUpload == UploadInv /\ Load => UploadInv'
<1> SUFFICES ASSUME UploadInv, Load PROVE UploadInv'
  OBVIOUS
<1> DEFINE ps == LoadedParagraphs
<1>1. /\ file \in Files /\ state = "loading" /\ chunks = <<>> /\ run = <<>> /\ next = 1
      /\ file' = file /\ chunks' = <<>> /\ run' = <<>> /\ next' = 1
  BY DEF UploadInv, Load
<1>2. state' \in {"EMPTY_PDF", "OCR_REQUIRED", "EMPTY_DOCUMENT", "loaded"}
  BY DEF Load
<1>3. ParagraphsOf(file, ps) /\ ParagraphsOf(file, <<>>)
  <2>1. ParagraphsOf(file, ps)
    BY <1>1, LoadedWell
  <2>2. ParagraphsOf(file, <<>>)
    <3>1. <<>> \in Seq(ParagraphRows) /\ Len(<<>>) = 0
      OBVIOUS
    <3> QED BY <3>1 DEF ParagraphsOf
  <2> QED BY <2>1, <2>2
<1>4. paras' = ps \/ paras' = <<>>
  BY DEF Load
<1>5. ParagraphsOf(file, paras')
  BY <1>3, <1>4
<1> HIDE DEF ps
<1>6. CutSoFar'
  <2> DEFINE qs == paras'
  <2>1. ParagraphsOf(file, qs) /\ Len(qs) \in Nat
    BY <1>5, LenProperties DEF ParagraphsOf
  <2> HIDE DEF qs
  <2>2. 1 \in 1..(Len(qs) + 1)
    BY <2>1
  <2>3. RunOf(qs, <<>>, 1) /\ 1 - Len(<<>>) = 1
    BY <2>1, <2>2, EmptyRun
  <2>4. WordsBefore(qs, 1) = <<>>
    <3>1. [i \in 1..(1 - 1) |-> BodyOf(qs[i])] = <<>>
      OBVIOUS
    <3> QED BY <3>1, FlattenNothing DEF WordsBefore
  <2>5. GoodChunks(file, <<>>)
    BY DEF GoodChunks
  <2>6. Told(file, qs, <<>>, 1)
    BY <2>4, <2>5, NoChunks DEF Told
  <2> QED BY <1>1, <2>3, <2>6 DEF CutSoFar, qs
<1>7. DOMAIN chunks' = {}
  BY <1>1
<1> QED BY <1>1, <1>2, <1>5, <1>6, <1>7 DEF UploadInv, FileStates

\* A small document is one chunk, which cites all its pages.
LEMMA KeepWholeUpload == UploadInv /\ KeepWhole => UploadInv'
<1> SUFFICES ASSUME UploadInv, KeepWhole PROVE UploadInv'
  OBVIOUS
<1>1. /\ file' = file /\ paras' = paras /\ next' = next /\ run' = run /\ state' = "chunked"
      /\ file \in Files /\ ParagraphsOf(file, paras) /\ Size(paras) <= SmallLimit
  BY DEF UploadInv, KeepWhole
<1>2. Size(paras) \in Nat /\ SmallLimit \in Nat
  BY <1>1, SizeOfParagraphs, FilesAssumption
<1>3. ~(Size(paras) > SmallLimit)
  BY <1>1, <1>2
<1> DEFINE c == [kind |-> "text",
                 path |-> IF Headings = {} THEN <<>> ELSE <<TitleOf(Min(Headings))>>,
                 text |-> Separated([i \in DOMAIN paras |-> paras[i].text],
                                    PutIn("newline") \o PutIn("newline")),
                 pages |-> {paras[i].page : i \in DOMAIN paras}, parent |-> None]
<1>4. chunks' = <<c>>
  BY DEF KeepWhole
<1>5. CitesItsPages(file, c)
  <2>1. /\ c.pages = {paras[i].page : i \in DOMAIN paras}
        /\ c.text = Separated([i \in DOMAIN paras |-> paras[i].text],
                              PutIn("newline") \o PutIn("newline"))
    OBVIOUS
  <2> HIDE DEF c
  <2> QED BY <1>1, <2>1, WholeCites
<1> HIDE DEF c
<1>6. \A k \in DOMAIN chunks' : CitesItsPages(file, chunks'[k])
  BY <1>4, <1>5
<1> QED BY <1>1, <1>3, <1>6 DEF UploadInv, FileStates

\* Title chunks tell nothing.
LEMMA MakeTitlesUpload == UploadInv /\ MakeTitles => UploadInv'
<1> SUFFICES ASSUME UploadInv, MakeTitles PROVE UploadInv'
  OBVIOUS
<1>1. /\ file' = file /\ paras' = paras /\ next' = next /\ run' = run /\ state' = "content"
      /\ file \in Files /\ ParagraphsOf(file, paras) /\ Size(paras) > SmallLimit
      /\ run = <<>> /\ next = 1 /\ chunks' = TitleChunks /\ CutSoFar
  BY DEF UploadInv, MakeTitles
<1> DEFINE cs == TitleChunks
<1>2. Tell(cs, <<>>) /\ GoodChunks(file, cs)
  BY <1>1, TitlesTell
<1>3. RunOf(paras, <<>>, 1) /\ 1 - Len(<<>>) = 1 /\ WordsBefore(paras, 1) = <<>>
  <2>1. RunOf(paras, <<>>, 1)
    BY <1>1 DEF CutSoFar
  <2>2. [i \in 1..(1 - 1) |-> BodyOf(paras[i])] = <<>>
    OBVIOUS
  <2>3. WordsBefore(paras, 1) = <<>>
    BY <2>2, FlattenNothing DEF WordsBefore
  <2> QED BY <2>1, <2>3
<1> HIDE DEF cs
<1>4. Told(file, paras, cs, 1)
  BY <1>2, <1>3 DEF Told
<1>5. CutSoFar'
  BY <1>1, <1>3, <1>4 DEF CutSoFar, cs
<1>6. \A k \in DOMAIN chunks' : CitesItsPages(file, chunks'[k])
  <2>1. \A k \in DOMAIN cs : CitesItsPages(file, cs[k])
    BY <1>4, ToldCites
  <2> QED BY <1>1, <2>1 DEF cs
<1> QED BY <1>1, <1>5, <1>6 DEF UploadInv, FileStates

\* A step that reads a paragraph and makes chunks of it after those of the run.
LEMMA ReadParagraph ==
  ASSUME UploadInv, state = "content", next <= Len(paras), UNCHANGED <<file, paras, state>>,
         next' = next + 1, run' = <<>>, NEW ns, chunks' = (chunks \o Flushed) \o ns,
         Tell(ns, BodyOf(paras[next])), GoodChunks(file, ns)
  PROVE  UploadInv'
<1>1. /\ file \in Files /\ ParagraphsOf(file, paras) /\ Size(paras) > SmallLimit /\ CutSoFar
  BY DEF UploadInv
<1> DEFINE cs == chunks \o Flushed
<1>2. Told(file, paras, cs, next) /\ next \in 1..(Len(paras) + 1) /\ Len(paras) \in Nat
  BY <1>1, AfterFlush
<1>3. next \in 1..Len(paras) /\ next + 1 \in 1..(Len(paras) + 1)
  BY <1>2
<1>4. chunks' = cs \o ns
  OBVIOUS
<1> HIDE DEF cs
<1>5. Told(file, paras, cs \o ns, next + 1)
  BY <1>1, <1>2, <1>3, ToldMore
<1>6. RunOf(paras, <<>>, next + 1) /\ (next + 1) - Len(<<>>) = next + 1
  BY <1>2, <1>3, EmptyRun
<1>7. CutSoFar'
  BY <1>4, <1>5, <1>6 DEF CutSoFar
<1>8. \A k \in DOMAIN chunks' : CitesItsPages(file, chunks'[k])
  BY <1>4, <1>5, ToldCites
<1>9. state \in FileStates
  BY DEF UploadInv
<1> QED BY <1>1, <1>7, <1>8, <1>9 DEF UploadInv

\* A heading ends the run before it and is told by no chunk but its title.
LEMMA EnterSectionUpload == UploadInv /\ EnterSection => UploadInv'
<1> SUFFICES ASSUME UploadInv, EnterSection PROVE UploadInv'
  OBVIOUS
<1>1. /\ state = "content" /\ next <= Len(paras) /\ paras[next].kind = "heading"
      /\ UNCHANGED <<file, paras, state>> /\ next' = next + 1 /\ run' = <<>>
      /\ chunks' = chunks \o Flushed
  BY DEF EnterSection, Reading
<1>2. ParagraphsOf(file, paras) /\ CutSoFar
  BY <1>1 DEF UploadInv
<1>3. next \in 1..Len(paras) /\ Told(file, paras, chunks \o Flushed, next)
  BY <1>1, <1>2, AfterFlush
<1>4. BodyOf(paras[next]) = <<>>
  BY <1>1, <1>2, <1>3 DEF ParagraphsOf, OfItsBlock, BodyOf
<1>5. Tell(<<>>, BodyOf(paras[next])) /\ GoodChunks(file, <<>>)
  BY <1>4, NoChunks DEF GoodChunks
<1>6. chunks \o Flushed = (chunks \o Flushed) \o <<>>
  <2> DEFINE cs == chunks \o Flushed
  <2>1. IsList(cs)
    BY <1>3 DEF Told, Tell, HasTexts
  <2> QED BY <2>1, ListWithNothing
<1> QED BY <1>1, <1>5, <1>6, ReadParagraph

\* A table comes after the run before it, in chunks of its own.
LEMMA TakeTableUpload == UploadInv /\ TakeTable => UploadInv'
<1> SUFFICES ASSUME UploadInv, TakeTable PROVE UploadInv'
  OBVIOUS
<1> DEFINE ns == TableChunks(next)
<1>1. /\ state = "content" /\ next <= Len(paras) /\ paras[next].kind = "table"
      /\ UNCHANGED <<file, paras, state>> /\ next' = next + 1 /\ run' = <<>>
      /\ chunks' = (chunks \o Flushed) \o ns
  BY DEF TakeTable, Reading
<1>2. ParagraphsOf(file, paras) /\ CutSoFar
  BY <1>1 DEF UploadInv
<1>3. next \in 1..Len(paras)
  BY <1>1, <1>2, AfterFlush
<1>4. Tell(ns, BodyOf(paras[next])) /\ GoodChunks(file, ns)
  BY <1>1, <1>2, <1>3, TableTells
<1> HIDE DEF ns
<1> QED BY <1>1, <1>4, ReadParagraph

\* Code comes after the run before it, in a chunk of its own.
LEMMA TakeCodeUpload == UploadInv /\ TakeCode => UploadInv'
<1> SUFFICES ASSUME UploadInv, TakeCode PROVE UploadInv'
  OBVIOUS
<1> DEFINE c == CodeChunk(next)
           ns == <<c>>
           cs == chunks \o Flushed
<1>1. /\ state = "content" /\ next <= Len(paras) /\ paras[next].kind = "code"
      /\ UNCHANGED <<file, paras, state>> /\ next' = next + 1 /\ run' = <<>>
      /\ chunks' = Append(cs, c)
  BY DEF TakeCode, Reading
<1>2. ParagraphsOf(file, paras) /\ CutSoFar
  BY <1>1 DEF UploadInv
<1>3. next \in 1..Len(paras) /\ Told(file, paras, cs, next)
  BY <1>1, <1>2, AfterFlush
<1>4. Tell(ns, BodyOf(paras[next])) /\ GoodChunks(file, ns)
  BY <1>1, <1>2, <1>3, CodeTells
<1>5. chunks' = cs \o ns
  <2>1. IsList(cs)
    BY <1>3 DEF Told, Tell, HasTexts
  <2> HIDE DEF cs, c
  <2> QED BY <1>1, <2>1, ListAppend
<1> HIDE DEF ns
<1> QED BY <1>1, <1>4, <1>5, ReadParagraph DEF cs

\* A paragraph on the page of the run becomes its last.
LEMMA RunGrows ==
  ASSUME NEW ps, NEW n \in 1..Len(ps), Len(ps) \in Nat, NEW r, RunOf(ps, r, n), ps[n].kind = "text",
         r = <<>> \/ ps[n].page = ps[Last(r)].page
  PROVE  /\ RunOf(ps, Append(r, n), n + 1)
         /\ (n + 1) - Len(Append(r, n)) = n - Len(r)
<1> DEFINE m == Len(r)
           s == Append(r, n)
<1>1. /\ r \in Seq(Nat) /\ m \in Nat /\ m < n /\ DOMAIN r = 1..m /\ n \in Nat
      /\ \A k \in 1..m : /\ r[k] = n - m + k - 1
                         /\ ps[r[k]].kind = "text" /\ ps[r[k]].page = ps[r[1]].page
  BY DEF RunOf
<1>2. s \in Seq(Nat)
  BY <1>1, AppendProperties
<1>3. Len(s) = m + 1
  BY <1>1, AppendProperties
<1>4. s[m + 1] = n
  BY <1>1, AppendProperties
<1>5. \A k \in 1..m : s[k] = r[k]
  BY <1>1, AppendProperties
<1>6. DOMAIN s = 1..(m + 1)
  BY <1>2, <1>3, LenProperties
<1>7. r # <<>> => m > 0 /\ Last(r) = r[m]
  <2>1. r # <<>> => m # 0
    BY <1>1, EmptySeq
  <2> QED BY <1>1, <2>1 DEF Last
<1> HIDE DEF m, s
<1>8. ASSUME NEW k \in 1..(m + 1)
      PROVE  /\ s[k] = (n + 1) - (m + 1) + k - 1
             /\ ps[s[k]].kind = "text"
             /\ ps[s[k]].page = ps[s[1]].page
  <2>1. (n + 1) - (m + 1) + k - 1 = n - m + k - 1
    BY <1>1
  <2>2. CASE k \in 1..m
    <3>1. 1 \in 1..m
      BY <1>1, <2>2
    <3>2. s[1] = r[1] /\ s[k] = r[k]
      BY <1>5, <2>2, <3>1
    <3> QED BY <1>1, <2>1, <2>2, <3>2
  <2>3. CASE k = m + 1
    <3>1. s[k] = n /\ n - m + k - 1 = n
      BY <1>1, <1>4, <2>3
    <3>2. CASE m = 0
      <4>1. s[1] = n
        BY <1>4, <3>2
      <4> QED BY <2>1, <3>1, <4>1
    <3>3. CASE m # 0
      <4>1. r # <<>>
        BY <3>3 DEF m
      <4>2. ps[n].page = ps[r[m]].page /\ 1 \in 1..m /\ m \in 1..m
        BY <1>1, <1>7, <3>3, <4>1
      <4>3. ps[n].page = ps[r[1]].page /\ s[1] = r[1]
        BY <1>1, <1>5, <4>2
      <4> QED BY <2>1, <3>1, <4>3
    <3> QED BY <3>2, <3>3
  <2>4. k \in 1..m \/ k = m + 1
    BY <1>1
  <2> QED BY <2>2, <2>3, <2>4
<1>9. n + 1 \in 1..(Len(ps) + 1) /\ m + 1 \in Nat /\ m + 1 < n + 1
  BY <1>1
<1>10. RunOf(ps, s, n + 1)
  BY <1>2, <1>3, <1>6, <1>8, <1>9 DEF RunOf
<1>11. (n + 1) - Len(s) = n - m
  BY <1>1, <1>3
<1> QED BY <1>10, <1>11 DEF s, m

\* A text paragraph is added to the run of its page, or ends it.
LEMMA TakeTextUpload == UploadInv /\ TakeText => UploadInv'
<1> SUFFICES ASSUME UploadInv, TakeText PROVE UploadInv'
  OBVIOUS
<1>1. /\ state = "content" /\ next <= Len(paras) /\ paras[next].kind = "text"
      /\ UNCHANGED <<file, paras, state>> /\ next' = next + 1
  BY DEF TakeText, Reading
<1>2. /\ ParagraphsOf(file, paras) /\ CutSoFar /\ file \in Files /\ state \in FileStates
      /\ Size(paras) > SmallLimit /\ \A k \in DOMAIN chunks : CitesItsPages(file, chunks[k])
  BY <1>1 DEF UploadInv
<1>3. /\ next \in 1..Len(paras) /\ Len(paras) \in Nat
      /\ Told(file, paras, chunks \o Flushed, next)
  BY <1>1, <1>2, AfterFlush
<1>4. CASE run # <<>> /\ paras[next].page # paras[Last(run)].page
  <2> DEFINE cs == chunks \o Flushed
             r == <<next>>
  <2>1. chunks' = cs /\ run' = r
    BY <1>4 DEF TakeText
  <2>2. RunOf(paras, r, next + 1) /\ (next + 1) - Len(r) = next
    <3>1. RunOf(paras, <<>>, next)
      BY <1>3, EmptyRun
    <3>2. /\ RunOf(paras, Append(<<>>, next), next + 1)
          /\ (next + 1) - Len(Append(<<>>, next)) = next - Len(<<>>)
      BY <1>1, <1>3, <3>1, RunGrows
    <3>3. Append(<<>>, next) = r /\ next - Len(<<>>) = next
      BY <1>3
    <3> QED BY <3>2, <3>3
  <2> HIDE DEF cs, r
  <2>3. CutSoFar'
    BY <1>1, <1>3, <2>1, <2>2 DEF CutSoFar, cs
  <2>4. \A k \in DOMAIN chunks' : CitesItsPages(file, chunks'[k])
    BY <1>3, <2>1, ToldCites DEF cs
  <2> QED BY <1>1, <1>2, <2>3, <2>4 DEF UploadInv
<1>5. CASE run = <<>> \/ paras[next].page = paras[Last(run)].page
  <2>1. chunks' = chunks /\ run' = Append(run, next)
    BY <1>5 DEF TakeText
  <2>2. RunOf(paras, run, next) /\ Told(file, paras, chunks, next - Len(run))
    BY <1>2 DEF CutSoFar
  <2>3. RunOf(paras, Append(run, next), next + 1)
        /\ (next + 1) - Len(Append(run, next)) = next - Len(run)
    BY <1>1, <1>3, <1>5, <2>2, RunGrows
  <2>4. CutSoFar'
    BY <1>1, <2>1, <2>2, <2>3 DEF CutSoFar
  <2> QED BY <1>1, <1>2, <2>1, <2>4 DEF UploadInv
<1> QED BY <1>4, <1>5

\* At the end of the document the last run is cut: everything is told.
LEMMA EndOfDocumentUpload == UploadInv /\ EndOfDocument => UploadInv'
<1> SUFFICES ASSUME UploadInv, EndOfDocument PROVE UploadInv'
  OBVIOUS
<1> DEFINE cs == chunks \o Flushed
<1>1. /\ state = "content" /\ next > Len(paras) /\ chunks' = cs /\ run' = <<>>
      /\ state' = "chunked" /\ UNCHANGED <<file, paras, next>>
  BY DEF EndOfDocument
<1>2. /\ ParagraphsOf(file, paras) /\ CutSoFar /\ file \in Files /\ Size(paras) > SmallLimit
  BY <1>1 DEF UploadInv
<1>3. /\ next \in 1..(Len(paras) + 1) /\ Len(paras) \in Nat /\ Told(file, paras, cs, next)
  BY <1>2, AfterFlush
<1>4. next = Len(paras) + 1
  BY <1>1, <1>3
<1>5. RunOf(paras, <<>>, next) /\ next - Len(<<>>) = next
  BY <1>3, EmptyRun
<1> HIDE DEF cs
<1>6. CutSoFar'
  BY <1>1, <1>3, <1>5 DEF CutSoFar
<1>7. \A k \in DOMAIN chunks' : CitesItsPages(file, chunks'[k])
  BY <1>1, <1>3, ToldCites
<1> QED BY <1>1, <1>2, <1>4, <1>6, <1>7 DEF UploadInv, FileStates

\* Storing rows changes no chunk.
LEMMA StoreUpload == UploadInv /\ Store => UploadInv'
<1> SUFFICES ASSUME UploadInv, Store PROVE UploadInv'
  OBVIOUS
<1>1. /\ state = "chunked" /\ state' \in {"stored", "CHUNK_PARENT_INVALID"}
      /\ file' = file /\ paras' = paras /\ next' = next /\ run' = run /\ chunks' = chunks
  BY DEF Store
<1> QED BY <1>1 DEF UploadInv, FileStates, CutSoFar

\* Before a file is loaded nothing is told.
LEMMA InitUpload == Init => UploadInv
<1> SUFFICES ASSUME Init PROVE UploadInv
  OBVIOUS
<1>1. file \in Files /\ paras = <<>> /\ next = 1 /\ run = <<>> /\ chunks = <<>> /\ state = "loading"
  BY DEF Init
<1>2. ParagraphsOf(file, <<>>)
  <2>1. <<>> \in Seq(ParagraphRows) /\ Len(<<>>) = 0
    OBVIOUS
  <2> QED BY <2>1 DEF ParagraphsOf
<1>3. ~(Size(<<>>) > SmallLimit)
  BY SizeOfParagraphs, FilesAssumption
<1> QED BY <1>1, <1>2, <1>3 DEF UploadInv, FileStates

\* Every step of the job keeps the invariant.
LEMMA NextUpload == UploadInv /\ [Next]_vars => UploadInv'
<1>1. UploadInv /\ Next => UploadInv'
  BY LoadUpload, KeepWholeUpload, MakeTitlesUpload, EnterSectionUpload, TakeTextUpload,
     TakeTableUpload, TakeCodeUpload, EndOfDocumentUpload, StoreUpload DEF Next
<1>2. UploadInv /\ UNCHANGED vars => UploadInv'
  <2> SUFFICES ASSUME UploadInv, UNCHANGED vars PROVE UploadInv'
    OBVIOUS
  <2>1. /\ file' = file /\ paras' = paras /\ next' = next /\ run' = run /\ chunks' = chunks
        /\ state' = state
    BY DEF vars
  <2> QED BY <2>1 DEF UploadInv, CutSoFar
<1> QED BY <1>1, <1>2

\* A chunk of an uploaded file cites the pages of its words.
LEMMA UploadPages == UploadInv => PagesAreOfTheWords
<1> SUFFICES ASSUME UploadInv PROVE PagesAreOfTheWords
  OBVIOUS
<1>1. \A k \in DOMAIN chunks : CitesItsPages(file, chunks[k])
  BY DEF UploadInv
<1> QED BY <1>1 DEF PagesAreOfTheWords, CitesItsPages, PagesOf

\* Chunks of an uploaded file fit.
LEMMA UploadFits == UploadInv => ChunksFit
<1> SUFFICES ASSUME UploadInv, Size(paras) > SmallLimit
             PROVE  \A k \in DOMAIN chunks : FitsTheLimit(chunks[k])
  BY DEF ChunksFit, FitsTheLimit
<1>1. Told(file, paras, chunks, next - Len(run))
  BY DEF UploadInv, CutSoFar
<1> QED BY <1>1, ToldCites

\* The stored chunks of an uploaded file have every word of its paragraphs, in order.
LEMMA UploadWords == UploadInv => WordsKept
<1> SUFFICES ASSUME UploadInv, state = "stored", Size(paras) > SmallLimit
             PROVE  /\ FirstUses(Content({"text", "table", "code"})) =
                         FlattenSeq([i \in DOMAIN paras |->
                           IF IsHeading(i) \/ HeadOnly(i) THEN <<>> ELSE WordsOf(paras[i].text)])
                    /\ Distinct(Content({"text", "code"}))
  BY DEF WordsKept, Distinct
<1>1. /\ run = <<>> /\ next = Len(paras) + 1 /\ ParagraphsOf(file, paras)
      /\ Told(file, paras, chunks, next - Len(run))
  BY DEF UploadInv, CutSoFar
<1>2. Len(paras) \in Nat /\ DOMAIN paras = 1..Len(paras)
  BY <1>1, LenProperties DEF ParagraphsOf
<1>3. next - Len(run) = Len(paras) + 1 /\ (Len(paras) + 1) - 1 = Len(paras)
  BY <1>1, <1>2
<1>4. Tell(chunks, WordsBefore(paras, Len(paras) + 1))
  BY <1>1, <1>3 DEF Told
<1>5. \A kinds : Content(kinds) = ContentOf(chunks, kinds)
  BY DEF Content, ContentOf
<1>6. WordsBefore(paras, Len(paras) + 1) =
        FlattenSeq([i \in DOMAIN paras |->
          IF IsHeading(i) \/ HeadOnly(i) THEN <<>> ELSE WordsOf(paras[i].text)])
  <2>1. WordsBefore(paras, Len(paras) + 1) = FlattenSeq([i \in DOMAIN paras |-> BodyOf(paras[i])])
    BY <1>2, <1>3 DEF WordsBefore
  <2> QED BY <2>1 DEF BodyOf, IsHeading, HeadOnly
<1> QED BY <1>4, <1>5, <1>6 DEF Tell, BodyKinds

\* Chunking of uploaded files: at every step the chunks tell exactly the words before the run that
\* is not yet cut, and cite their pages, for any files, any limit and any cuts.
THEOREM UploadInductive == Spec => []UploadInv
<1> QED BY InitUpload, NextUpload, PTL DEF Spec

-----------------------------------------------------------------------------
(* Parents of chunks *)

\* Texts with a separator between them make a text that is not empty when one of them is not,
\* or when a separator that is not empty stands between two.
LEMMA SeparatedFilled ==
  ASSUME NEW texts \in Seq(Texts), NEW sep \in Texts, NEW k \in 1..Len(texts),
         texts[k] # <<>> \/ (k # 1 /\ sep # <<>>)
  PROVE  Separated(texts, sep) # <<>>
<1> DEFINE N == Len(texts)
           p == [i \in DOMAIN texts |-> IF i = 1 THEN texts[i] ELSE sep \o texts[i]]
<1>1. N \in Nat /\ DOMAIN texts = 1..N /\ \A i \in 1..N : texts[i] \in Texts
  BY LenProperties, ElementOfSeq
<1>2. Separated(texts, sep) = FlattenSeq(p)
  BY DEF Separated
<1>3. \A i \in 1..N : p[i] \in Texts /\ p[i] = IF i = 1 THEN texts[i] ELSE sep \o texts[i]
  BY <1>1, TextsConcat
<1>4. p \in Seq(Texts) /\ Len(p) = N
  <2>1. p = [i \in 1..N |-> p[i]]
    BY <1>1
  <2> HIDE DEF p
  <2>2. p \in [1..N -> Texts]
    BY <1>3, <2>1
  <2> QED BY <1>1, <2>2
<1> HIDE DEF p, N
<1>5. k \in 1..N
  BY DEF N
<1>6. p[k] # <<>>
  <2>1. CASE k = 1
    BY <1>3, <1>5, <2>1
  <2>2. CASE k # 1
    <3> DEFINE x == texts[k]
    <3>1. x \in Texts /\ p[k] = sep \o x
      BY <1>1, <1>3, <1>5, <2>2
    <3>2. x # <<>> \/ sep # <<>>
      OBVIOUS
    <3> HIDE DEF x
    <3>3. Len(sep \o x) = Len(sep) + Len(x) /\ Len(sep) \in Nat /\ Len(x) \in Nat
      BY <3>1, TextLengths
    <3>4. Len(sep) # 0 \/ Len(x) # 0
      BY <3>1, <3>2, EmptySeq DEF Texts
    <3>5. Len(sep \o x) # 0
      BY <3>3, <3>4
    <3>6. Len(<<>>) = 0
      OBVIOUS
    <3> QED BY <3>1, <3>5, <3>6
  <2> QED BY <2>1, <2>2
<1>7. \E c : c \in ToSet(p[k])
  <2> DEFINE x == p[k]
  <2>1. x \in Seq(Characters) /\ x # <<>>
    BY <1>3, <1>5, <1>6 DEF Texts
  <2> HIDE DEF x
  <2>2. Len(x) \in Nat /\ Len(x) # 0 /\ DOMAIN x = 1..Len(x)
    BY <2>1, EmptySeq, LenProperties
  <2>3. 1 \in DOMAIN x
    BY <2>2
  <2>4. x[1] \in ToSet(x)
    BY <2>3 DEF ToSet
  <2> QED BY <2>4 DEF x
<1>8. ToSet(FlattenSeq(p)) = UNION {ToSet(p[j]) : j \in 1..N}
  BY <1>4, FlattenMembers DEF Texts
<1>9. ToSet(FlattenSeq(p)) # {}
  BY <1>5, <1>7, <1>8
<1> QED BY <1>2, <1>9, FewMembers

\* A chunk below the title chunk of a section with its path, or below none.
UnderTitle(c) ==
  /\ c.kind \in ChunkKinds /\ (c.text = <<>> => c.kind = "code")
  /\ c.parent # None => /\ c.parent \in 1..Len(TitledSections)
                        /\ PathOf(TitledSections[c.parent]) = c.path
AllUnderTitles(cs) == IsList(cs) /\ \A k \in 1..Len(cs) : UnderTitle(cs[k])

\* The sections with titles are a list of headings.
LEMMA SectionsListed ==
  ASSUME ParagraphsOf(file, paras)
  PROVE  /\ Len(TitledSections) \in Nat /\ DOMAIN TitledSections = 1..Len(TitledSections)
         /\ \A k \in 1..Len(TitledSections) : TitledSections[k] \in 1..Len(paras)
<1> DEFINE s == TitledSections
           H == {h \in Headings : \E i \in DOMAIN paras \ Headings : SectionOf(i) = h}
           N == Len(paras)
<1>1. N \in Nat /\ DOMAIN paras = 1..N
  BY LenProperties DEF ParagraphsOf
<1>2. s = Ascending(H) /\ H \subseteq 1..N
  BY <1>1 DEF TitledSections, Headings
<1> HIDE DEF s, H, N
<1>3. H \subseteq 0..N
  BY <1>1, <1>2
<1>4. s \in Seq(H)
  BY <1>1, <1>2, <1>3, AscendingLists
<1>5. Len(s) \in Nat /\ DOMAIN s = 1..Len(s) /\ \A k \in 1..Len(s) : s[k] \in H
  BY <1>4, LenProperties, ElementOfSeq
<1> QED BY <1>2, <1>5 DEF s, N

\* The index of a title that a section is given is that of a title with its path.
LEMMA TitleIndexFound ==
  ASSUME ParagraphsOf(file, paras), NEW section, TitleIndex(section) # None
  PROVE  /\ TitleIndex(section) \in 1..Len(TitledSections)
         /\ PathOf(TitledSections[TitleIndex(section)]) = PathOf(section)
<1> DEFINE same == {k \in DOMAIN TitledSections : PathOf(TitledSections[k]) = PathOf(section)}
           L == Len(TitledSections)
<1>1. L \in Nat /\ DOMAIN TitledSections = 1..L
  BY SectionsListed
<1>2. TitleIndex(section) = IF same = {} THEN None ELSE Max(same)
  BY DEF TitleIndex
<1>3. same # {} /\ TitleIndex(section) = Max(same)
  BY <1>2
<1>4. same \subseteq 0..L
  BY <1>1
<1> HIDE DEF same, L
<1>5. Max(same) \in same
  BY <1>1, <1>3, <1>4, Extremes
<1> QED BY <1>1, <1>3, <1>5 DEF same, L

\* Chunks under titles after one another.
LEMMA UnderTitlesConcat ==
  ASSUME NEW cs, NEW ds, AllUnderTitles(cs), AllUnderTitles(ds)
  PROVE  AllUnderTitles(cs \o ds)
<1>1. /\ IsList(cs \o ds) /\ Len(cs \o ds) = Len(cs) + Len(ds)
      /\ Len(cs) \in Nat /\ Len(ds) \in Nat
      /\ \A k \in 1..Len(cs) : (cs \o ds)[k] = cs[k]
      /\ \A k \in 1..Len(ds) : (cs \o ds)[Len(cs) + k] = ds[k]
  BY ListsConcat DEF AllUnderTitles
<1>2. ASSUME NEW k \in 1..Len(cs \o ds) PROVE UnderTitle((cs \o ds)[k])
  <2>1. CASE k \in 1..Len(cs)
    BY <1>1, <2>1 DEF AllUnderTitles
  <2>2. CASE k \notin 1..Len(cs)
    <3>1. k - Len(cs) \in 1..Len(ds) /\ Len(cs) + (k - Len(cs)) = k
      BY <1>1, <2>2
    <3>2. (cs \o ds)[k] = ds[k - Len(cs)]
      BY <1>1, <3>1
    <3> QED BY <3>1, <3>2 DEF AllUnderTitles
  <2> QED BY <2>1, <2>2
<1> QED BY <1>1, <1>2 DEF AllUnderTitles

\* Chunks of texts that are not empty, made with the title index of their section.
LEMMA ChunksUnderTitle ==
  ASSUME ParagraphsOf(file, paras), NEW kind \in ChunkKinds, NEW section, NEW pages,
         NEW texts \in Seq(Texts), \A k \in 1..Len(texts) : texts[k] # <<>>,
         NEW cs,
         cs = [k \in DOMAIN texts |-> Chunk(kind, section, texts[k], pages, TitleIndex(section))]
  PROVE  AllUnderTitles(cs)
<1> DEFINE n == Len(texts)
<1>1. n \in Nat /\ DOMAIN texts = 1..n
  BY LenProperties
<1>2. DOMAIN cs = 1..n /\ cs = [k \in 1..n |-> cs[k]]
  BY <1>1
<1>3. IsList(cs) /\ Len(cs) = n
  BY <1>1, <1>2, FunctionIsList
<1>4. ASSUME NEW k \in 1..n PROVE UnderTitle(cs[k])
  <2>1. /\ cs[k].kind = kind /\ cs[k].text = texts[k] /\ cs[k].parent = TitleIndex(section)
        /\ cs[k].path = PathOf(section)
    BY <1>1, <1>4 DEF Chunk
  <2>2. texts[k] # <<>>
    OBVIOUS
  <2> QED BY <2>1, <2>2, TitleIndexFound DEF UnderTitle
<1> QED BY <1>3, <1>4 DEF AllUnderTitles

\* The chunks of a text are under the title of its section.
LEMMA TextUnderTitle ==
  ASSUME ParagraphsOf(file, paras), NEW section, NEW t \in Texts, NEW page
  PROVE  AllUnderTitles(TextChunks(section, t, page))
<1> DEFINE texts == TextPieces(t)
           cs == TextChunks(section, t, page)
<1>1. texts \in Seq(Texts) /\ \A k \in 1..Len(texts) : texts[k] # <<>>
  BY TextPiecesKeepWords
<1>2. cs = [k \in DOMAIN texts |-> Chunk("text", section, texts[k], {page}, TitleIndex(section))]
  BY DEF TextChunks, Each
<1>3. "text" \in ChunkKinds
  BY DEF ChunkKinds
<1> HIDE DEF texts, cs
<1>4. AllUnderTitles(cs)
  BY <1>1, <1>2, <1>3, ChunksUnderTitle
<1> QED BY <1>4 DEF cs

\* So are the chunks of a run.
LEMMA FlushedUnderTitle ==
  ASSUME ParagraphsOf(file, paras), RunOf(paras, run, next)
  PROVE  AllUnderTitles(Flushed)
<1> DEFINE texts == TextsOf(paras, run)
           nl == PutIn("newline")
           t == Separated(texts, nl)
<1>1. texts \in Seq(Texts)
  BY RunWords
<1>2. texts = [k \in DOMAIN run |-> paras[run[k]].text]
  BY DEF TextsOf, RunOf
<1>3. CASE run = <<>>
  <2>1. Flushed = <<>>
    BY <1>3 DEF Flushed
  <2>2. IsList(<<>>) /\ Len(<<>>) = 0
    BY DEF IsList
  <2> QED BY <2>1, <2>2 DEF AllUnderTitles
<1>4. CASE run # <<>>
  <2>1. Flushed = TextChunks(SectionOf(run[1]), t, paras[run[1]].page)
    BY <1>2, <1>4 DEF Flushed
  <2> HIDE DEF texts
  <2>2. t \in Texts
    BY <1>1, NewlineText, SeparatedTexts
  <2> HIDE DEF t
  <2> QED BY <2>1, <2>2, TextUnderTitle
<1> QED BY <1>3, <1>4

\* So is a chunk of code.
LEMMA CodeUnderTitle ==
  ASSUME ParagraphsOf(file, paras), NEW i \in 1..Len(paras)
  PROVE  AllUnderTitles(<<CodeChunk(i)>>)
<1> DEFINE c == CodeChunk(i)
<1>1. /\ c.kind = "code" /\ c.parent = TitleIndex(SectionOf(i))
      /\ c.path = PathOf(SectionOf(i))
  BY DEF CodeChunk, Chunk
<1> HIDE DEF c
<1>2. UnderTitle(c)
  BY <1>1, TitleIndexFound DEF UnderTitle, ChunkKinds
<1>3. <<c>> \in Seq(ToSet(<<c>>)) /\ Len(<<c>>) = 1 /\ <<c>>[1] = c
  <2>1. ToSet(<<c>>) = {c}
    BY FewMembers
  <2>2. <<c>> \in Seq({c}) /\ Len(<<c>>) = 1 /\ <<c>>[1] = c
    OBVIOUS
  <2> QED BY <2>1, <2>2
<1>4. \A k \in 1..Len(<<c>>) : <<c>>[k] = c
  BY <1>3
<1> QED BY <1>2, <1>3, <1>4 DEF AllUnderTitles, IsList, c

\* And the chunks of a table, none of them empty.
LEMMA TableUnderTitle ==
  ASSUME ParagraphsOf(file, paras), NEW i \in 1..Len(paras)
  PROVE  AllUnderTitles(TableChunks(i))
<1> DEFINE p == paras[i]
           text == p.text
           lines == Lines(text)
           cs == TableChunks(i)
           texts == IF Len(text) <= MaxChars THEN <<text>> ELSE TableParts(lines)
<1>1. text \in Texts /\ text # <<>>
  <2>1. OfItsBlock(file, p) /\ text # <<>>
    BY DEF ParagraphsOf
  <2> QED BY <2>1, PageOfParagraph
<1>2. /\ lines \in Seq(Texts) /\ Len(lines) \in Nat
      /\ \A k \in 1..Len(lines) : NewlineFree(lines[k])
  BY <1>1, LinesOfText
<1>3. cs = IF Len(lines) < 2 THEN TextChunks(SectionOf(i), text, p.page)
           ELSE [k \in DOMAIN texts |->
                   Chunk("table", SectionOf(i), texts[k], {p.page}, TitleIndex(SectionOf(i)))]
  BY DEF TableChunks, TableChunksOf, Each
<1> HIDE DEF p, text, lines, cs
<1>4. CASE Len(lines) < 2
  <2>1. AllUnderTitles(TextChunks(SectionOf(i), text, p.page))
    BY <1>1, TextUnderTitle
  <2> QED BY <1>3, <1>4, <2>1 DEF cs
<1>5. CASE ~(Len(lines) < 2)
  <2>1. texts \in Seq(Texts) /\ \A k \in 1..Len(texts) : texts[k] # <<>>
    <3>1. CASE Len(text) <= MaxChars
      <4>1. texts = <<text>>
        BY <3>1
      <4> HIDE DEF texts
      <4> QED BY <1>1, <4>1
    <3>2. CASE ~(Len(text) <= MaxChars)
      <4> DEFINE parts == PartLines(lines)
                 n == Len(parts)
                 top == TopLines(lines)
      <4>1. lines \in TableLines
        <5> DEFINE L == Len(lines)
        <5>1. L \in Nat /\ ~(L < 2)
          BY <1>2, <1>5
        <5> HIDE DEF L
        <5>2. L >= 2
          BY <5>1
        <5> QED BY <1>2, <5>2 DEF TableLines, L
      <4>2. parts \in Seq(GoodParts(lines))
        BY <4>1, PartLinesKeepWords
      <4>3. n \in Nat /\ DOMAIN parts = 1..n /\ \A k \in 1..n : parts[k] \in GoodParts(lines)
        BY <4>2, LenProperties, ElementOfSeq
      <4>4. texts = [k \in 1..n |-> PartText(lines, parts[k])]
        BY <3>2, <4>3 DEF TableParts, PartText
      <4>5. top \in Seq(Texts) /\ Len(top) = 2
        BY <4>1, TopOfTable
      <4> HIDE DEF parts, n, texts, top
      <4>6. ASSUME NEW k \in 1..n PROVE texts[k] \in Texts /\ texts[k] # <<>>
        <5> DEFINE part == parts[k]
                   nl == PutIn("newline")
                   all == top \o part
        <5>1. part \in GoodParts(lines)
          BY <4>3
        <5>2. part \in Seq(Texts) /\ PartText(lines, part) \in Texts
          BY <4>1, <5>1, GoodPart DEF GoodParts
        <5>3. PartText(lines, part) = Separated(all, nl)
          BY DEF PartText, top
        <5>4. nl \in Texts /\ nl # <<>>
          <6>1. nl \in Texts /\ Len(nl) = 1
            BY NewlineText
          <6> HIDE DEF nl
          <6>2. Len(<<>>) = 0
            OBVIOUS
          <6> QED BY <6>1, <6>2
        <5>5. texts[k] = PartText(lines, part)
          BY <4>4
        <5> HIDE DEF part, nl
        <5>6. all \in Seq(Texts) /\ Len(all) = 2 + Len(part) /\ Len(part) \in Nat
          <6> DEFINE S == Texts
          <6>1. top \in Seq(S) /\ part \in Seq(S)
            BY <4>5, <5>2
          <6> HIDE DEF S
          <6>2. all \in Seq(S) /\ Len(all) = Len(top) + Len(part) /\ Len(part) \in Nat
            BY <6>1, ConcatProperties, LenProperties
          <6> QED BY <4>5, <6>2 DEF S
        <5> HIDE DEF all
        <5>7. 2 \in 1..Len(all) /\ 2 # 1
          BY <5>6
        <5>8. Separated(all, nl) # <<>>
          BY <5>4, <5>6, <5>7, SeparatedFilled
        <5> QED BY <5>2, <5>3, <5>5, <5>8
      <4>7. texts \in Seq(Texts) /\ Len(texts) = n
        <5>1. texts \in [1..n -> Texts]
          BY <4>4, <4>6
        <5> QED BY <4>3, <5>1
      <4> QED BY <4>6, <4>7
    <3> QED BY <3>1, <3>2
  <2>2. "table" \in ChunkKinds
    BY DEF ChunkKinds
  <2>3. cs = [k \in DOMAIN texts |->
                Chunk("table", SectionOf(i), texts[k], {p.page}, TitleIndex(SectionOf(i)))]
    BY <1>3, <1>5
  <2> HIDE DEF texts
  <2>4. AllUnderTitles(cs)
    BY <2>1, <2>2, <2>3, ChunksUnderTitle
  <2> QED BY <2>4 DEF cs
<1> QED BY <1>4, <1>5

\* ParentsMade, of any chunks.
ParentsIn(cs) ==
  \A k \in DOMAIN cs :
    LET c == cs[k] IN
    /\ c.kind \in ChunkKinds /\ (c.text = <<>> => c.kind = "code")
    /\ c.parent # None =>
         /\ c.parent \in 1..(k - 1)
         /\ cs[c.parent].kind \in {"title", "table"} /\ cs[c.parent].path = c.path

\* Title chunks and chunks under titles after them: every parent is made, before its chunks.
LEMMA SectionParents ==
  ASSUME ParagraphsOf(file, paras), NEW cs, AllUnderTitles(cs)
  PROVE  ParentsIn(TitleChunks \o cs) /\ IsList(TitleChunks \o cs)
<1> DEFINE s == TitledSections
           ts == TitleChunks
           L == Len(s)
<1>1. L \in Nat /\ DOMAIN s = 1..L /\ \A k \in 1..L : s[k] \in 1..Len(paras)
  BY SectionsListed
<1>2. ts = [k \in DOMAIN s |-> TitleChunk(s[k])]
  BY DEF TitleChunks, Each
<1> HIDE DEF ts
<1>3. DOMAIN ts = 1..L /\ ts = [k \in 1..L |-> ts[k]]
  BY <1>1, <1>2
<1>4. IsList(ts) /\ Len(ts) = L
  BY <1>1, <1>3, FunctionIsList
<1>5. ASSUME NEW k \in 1..L
      PROVE  /\ ts[k].kind = "title" /\ ts[k].text # <<>> /\ ts[k].parent = None
             /\ ts[k].path = PathOf(s[k])
  <2>1. ts[k] = TitleChunk(s[k]) /\ s[k] \in 1..Len(paras)
    BY <1>1, <1>2
  <2>2. paras[s[k]].text # <<>>
    BY <2>1 DEF ParagraphsOf
  <2> HIDE DEF s
  <2> QED BY <2>1, <2>2 DEF TitleChunk, Chunk
<1> DEFINE all == ts \o cs
           M == Len(cs)
<1>6. /\ IsList(all) /\ Len(all) = L + M /\ M \in Nat
      /\ \A k \in 1..L : all[k] = ts[k]
      /\ \A k \in 1..M : all[L + k] = cs[k]
  <2>1. IsList(cs)
    BY DEF AllUnderTitles
  <2> HIDE DEF s, L
  <2>2. /\ IsList(ts \o cs) /\ Len(ts \o cs) = Len(ts) + Len(cs) /\ Len(cs) \in Nat
        /\ \A k \in 1..Len(ts) : (ts \o cs)[k] = ts[k]
        /\ \A k \in 1..Len(cs) : (ts \o cs)[Len(ts) + k] = cs[k]
    <3> HIDE DEF all, M
    <3>1. IsList(ts)
      BY <1>4
    <3> QED BY ONLY <2>1, <3>1, ListsConcat
  <2> HIDE DEF all, M
  <2>3. all = ts \o cs /\ M = Len(cs)
    BY DEF all, M
  <2> QED BY <1>4, <2>2, <2>3
<1>7. DOMAIN all = 1..(L + M)
  BY <1>6, LenProperties DEF IsList
<1>8. \A k \in 1..M : /\ cs[k].kind \in ChunkKinds /\ (cs[k].text = <<>> => cs[k].kind = "code")
                      /\ cs[k].parent # None => /\ cs[k].parent \in 1..L
                                                /\ PathOf(s[cs[k].parent]) = cs[k].path
  BY DEF AllUnderTitles, UnderTitle
<1> HIDE DEF all, s, L, M
<1>9. ASSUME NEW k \in 1..(L + M)
       PROVE  LET c == all[k] IN
              /\ c.kind \in ChunkKinds /\ (c.text = <<>> => c.kind = "code")
              /\ c.parent # None =>
                   /\ c.parent \in 1..(k - 1)
                   /\ all[c.parent].kind \in {"title", "table"} /\ all[c.parent].path = c.path
  <2>1. CASE k \in 1..L
    <3>1. all[k] = ts[k]
      BY <1>6, <2>1
    <3> QED BY <1>5, <2>1, <3>1 DEF ChunkKinds
  <2>2. CASE k \notin 1..L
    <3> DEFINE j == k - L
               c == cs[j]
    <3>1. j \in 1..M /\ L + j = k
      BY <1>1, <1>6, <2>2
    <3>2. all[k] = c
      BY <1>6, <3>1
    <3>3. /\ c.kind \in ChunkKinds /\ (c.text = <<>> => c.kind = "code")
          /\ c.parent # None => c.parent \in 1..L /\ PathOf(s[c.parent]) = c.path
      BY <1>8, <3>1
    <3> HIDE DEF c
    <3>4. ASSUME c.parent # None
          PROVE  /\ c.parent \in 1..(k - 1)
                 /\ all[c.parent].kind \in {"title", "table"} /\ all[c.parent].path = c.path
      <4> DEFINE a == c.parent
      <4>1. a \in 1..L /\ PathOf(s[a]) = c.path
        BY <3>3, <3>4
      <4> HIDE DEF a
      <4>2. all[a] = ts[a] /\ ts[a].kind = "title" /\ ts[a].path = PathOf(s[a])
        BY <1>5, <1>6, <4>1
      <4>3. a \in 1..(k - 1)
        BY <1>1, <1>6, <2>2, <4>1
      <4> QED BY <4>1, <4>2, <4>3 DEF a
    <3> QED BY <3>2, <3>3, <3>4
  <2> QED BY <2>1, <2>2
<1>10. ParentsIn(all)
  BY <1>7, <1>9 DEF ParentsIn
<1> QED BY <1>6, <1>10 DEF all, ts

\* More chunks under titles after the chunks of the sections.
LEMMA MoreUnderTitles ==
  ASSUME ParagraphsOf(file, paras), NEW cs, AllUnderTitles(cs), NEW ds, AllUnderTitles(ds)
  PROVE  (TitleChunks \o cs) \o ds = TitleChunks \o (cs \o ds) /\ AllUnderTitles(cs \o ds)
<1> DEFINE ts == TitleChunks
           S == ToSet(ts) \cup ToSet(cs) \cup ToSet(ds)
           R == Seq(S)
<1>1. HasTexts(ts)
  BY TitlesTell DEF Tell
<1> HIDE DEF ts
<1>2. IsList(ts) /\ IsList(cs) /\ IsList(ds)
  BY <1>1 DEF HasTexts, AllUnderTitles
<1>3. ASSUME NEW x, IsList(x), ToSet(x) \subseteq S PROVE x \in R
  <2>1. x \in [1..Len(x) -> ToSet(x)] /\ Len(x) \in Nat
    BY <1>3, LenProperties DEF IsList
  <2>2. x \in [1..Len(x) -> S]
    BY <1>3, <2>1
  <2> HIDE DEF S
  <2> QED BY <2>1, <2>2
<1>4. ts \in R /\ cs \in R /\ ds \in R
  <2>1. ToSet(ts) \subseteq S /\ ToSet(cs) \subseteq S /\ ToSet(ds) \subseteq S
    OBVIOUS
  <2> HIDE DEF S, R
  <2> QED BY <1>2, <1>3, <2>1
<1>5. Associative(R)
  <2> HIDE DEF S
  <2> QED BY ConcatIsAssociative
<1> HIDE DEF R
<1>6. (ts \o cs) \o ds = ts \o (cs \o ds)
  BY <1>4, <1>5, Zenon DEF Associative
<1> QED BY <1>6, UnderTitlesConcat DEF ts

\* The titles of a file, and what is below them, depend on its paragraphs alone.
LEMMA SameTitles ==
  ASSUME paras' = paras
  PROVE  /\ TitleChunks' = TitleChunks
         /\ \A cs : AllUnderTitles(cs)' <=> AllUnderTitles(cs)
<1>1. Headings' = Headings
  BY DEF Headings, IsHeading
<1>2. ASSUME NEW h PROVE PathOf(h)' = PathOf(h)
  BY <1>1 DEF PathOf, TitleOf, ParentOf
<1>3. TitledSections' = TitledSections
  BY <1>1 DEF TitledSections, SectionOf
<1>4. TitleChunks' = TitleChunks
  BY <1>2, <1>3 DEF TitleChunks, TitleChunk, Chunk, Each
<1>5. ASSUME NEW cs PROVE AllUnderTitles(cs)' <=> AllUnderTitles(cs)
  BY <1>2, <1>3 DEF AllUnderTitles, UnderTitle
<1> QED BY <1>4, <1>5

\* The chunks made so far are those of the titles and chunks under them.
InSections == \E cs : AllUnderTitles(cs) /\ chunks = TitleChunks \o cs
\* The inductive invariant of the parents of a file's chunks.
ParentsInv ==
  /\ UploadInv
  /\ IsList(chunks)
  /\ state = "loaded" => paras # <<>>
  /\ state = "content" => InSections
  /\ state # "CHUNK_PARENT_INVALID"
  /\ ParentsMade

\* Loading a file makes no chunk.
LEMMA LoadParents == ParentsInv /\ Load => ParentsInv'
<1> SUFFICES ASSUME ParentsInv, Load PROVE ParentsInv'
  OBVIOUS
<1> DEFINE ps == LoadedParagraphs
<1>1. UploadInv' /\ chunks' = <<>>
  BY LoadUpload DEF ParentsInv, UploadInv, Load
<1>2. /\ state' \in {"EMPTY_PDF", "OCR_REQUIRED", "EMPTY_DOCUMENT", "loaded"}
      /\ state' = "loaded" => Size(ps) # 0 /\ paras' = ps
  BY DEF Load
<1> HIDE DEF ps
<1>3. state' = "loaded" => paras' # <<>>
  BY <1>2, SizeOfParagraphs
<1>4. ParentsMade'
  <2>1. DOMAIN chunks' = {}
    BY <1>1
  <2> QED BY <2>1 DEF ParentsMade
<1>5. IsList(chunks')
  BY <1>1, ShortLists
<1> QED BY <1>1, <1>2, <1>3, <1>4, <1>5 DEF ParentsInv

\* A small document is one chunk without a parent.
LEMMA KeepWholeParents == ParentsInv /\ KeepWhole => ParentsInv'
<1> SUFFICES ASSUME ParentsInv, KeepWhole PROVE ParentsInv'
  OBVIOUS
<1> DEFINE nl == PutIn("newline")
           texts == [i \in DOMAIN paras |-> paras[i].text]
           t == Separated(texts, nl \o nl)
           N == Len(paras)
           c == [kind |-> "text",
                 path |-> IF Headings = {} THEN <<>> ELSE <<TitleOf(Min(Headings))>>,
                 text |-> t, pages |-> {paras[i].page : i \in DOMAIN paras}, parent |-> None]
<1>1. /\ UploadInv' /\ ParagraphsOf(file, paras) /\ paras # <<>> /\ state' = "chunked"
      /\ chunks' = <<c>>
  BY KeepWholeUpload DEF ParentsInv, UploadInv, KeepWhole
<1>2. t # <<>>
  <2>1. paras \in Seq(ParagraphRows)
    BY <1>1 DEF ParagraphsOf
  <2>2. N \in Nat /\ N # 0 /\ DOMAIN paras = 1..N /\ \A i \in 1..N : paras[i] \in ParagraphRows
    BY <1>1, <2>1, LenProperties, ElementOfSeq, EmptySeq
  <2>3. \A i \in 1..N : paras[i].text \in Texts /\ paras[i].text # <<>>
    BY <1>1, <2>2 DEF ParagraphsOf, ParagraphRows
  <2> HIDE DEF N
  <2>4. texts \in Seq(Texts) /\ Len(texts) = N /\ 1 \in 1..N /\ texts[1] # <<>>
    <3>1. texts \in [1..N -> Texts] /\ 1 \in 1..N
      BY <2>2, <2>3
    <3>2. texts[1] # <<>>
      BY <2>2, <2>3, <3>1
    <3> HIDE DEF texts
    <3> QED BY <2>2, <3>1, <3>2
  <2>5. nl \o nl \in Texts
    BY NewlineText, TextsConcat
  <2> DEFINE sep == nl \o nl
  <2> HIDE DEF texts, sep
  <2>6. sep \in Texts
    BY <2>5 DEF sep
  <2>7. Separated(texts, sep) # <<>>
    BY <2>4, <2>6, SeparatedFilled
  <2> QED BY <2>7 DEF sep
<1> HIDE DEF t
<1>3. c.kind = "text" /\ c.text # <<>> /\ c.parent = None
  BY <1>2
<1> HIDE DEF c
<1>4. ParentsMade'
  <2>1. DOMAIN <<c>> = 1..1 /\ <<c>>[1] = c
    BY ShortLists
  <2>2. ParentsIn(<<c>>)
    BY <1>3, <2>1 DEF ParentsIn, ChunkKinds
  <2> QED BY <1>1, <2>2 DEF ParentsIn, ParentsMade
<1>5. IsList(chunks')
  BY <1>1, ShortLists
<1> QED BY <1>1, <1>4, <1>5 DEF ParentsInv

\* The title chunks have no parents.
LEMMA MakeTitlesParents == ParentsInv /\ MakeTitles => ParentsInv'
<1> SUFFICES ASSUME ParentsInv, MakeTitles PROVE ParentsInv'
  OBVIOUS
<1>1. /\ UploadInv' /\ ParagraphsOf(file, paras) /\ state' = "content" /\ chunks' = TitleChunks
      /\ paras' = paras
  BY MakeTitlesUpload DEF ParentsInv, UploadInv, MakeTitles
<1>2. AllUnderTitles(<<>>)
  BY ShortLists DEF AllUnderTitles
<1> DEFINE ts == TitleChunks
<1>3. ts = ts \o <<>>
  <2>1. IsList(ts)
    BY <1>1, TitlesTell DEF Tell, HasTexts
  <2> QED BY <2>1, ListWithNothing
<1> HIDE DEF ts
<1>4. ParentsMade'
  <2>1. ParentsIn(ts \o <<>>)
    BY <1>1, <1>2, SectionParents DEF ts
  <2>2. ParentsIn(chunks')
    BY <1>1, <1>3, <2>1 DEF ts
  <2> QED BY <2>2 DEF ParentsIn, ParentsMade
<1>5. InSections'
  <2>1. AllUnderTitles(<<>>)' /\ TitleChunks' = ts
    BY <1>1, <1>2, SameTitles DEF ts
  <2>2. chunks' = TitleChunks' \o <<>>
    BY <1>1, <1>3, <2>1 DEF ts
  <2> QED BY <2>1, <2>2 DEF InSections
<1>6. IsList(chunks')
  BY <1>1, TitlesTell DEF Tell, HasTexts
<1> QED BY <1>1, <1>4, <1>5, <1>6 DEF ParentsInv

\* A step that cuts the run and adds chunks under titles.
LEMMA CutUnderTitles ==
  ASSUME ParentsInv, state = "content", NEW ds, AllUnderTitles(ds),
         chunks' = (chunks \o Flushed) \o ds, UNCHANGED <<file, paras>>, UploadInv',
         state' \in {"content", "chunked"}
  PROVE  ParentsInv'
<1>1. /\ ParagraphsOf(file, paras) /\ RunOf(paras, run, next) /\ InSections
  BY DEF ParentsInv, UploadInv, CutSoFar
<1>2. AllUnderTitles(Flushed)
  BY <1>1, FlushedUnderTitle
<1>3. PICK cs : AllUnderTitles(cs) /\ chunks = TitleChunks \o cs
  BY <1>1 DEF InSections
<1> DEFINE ns == Flushed
           more == cs \o ns
           all == more \o ds
<1>4. chunks \o ns = TitleChunks \o more /\ AllUnderTitles(more)
  BY <1>1, <1>2, <1>3, MoreUnderTitles
<1> HIDE DEF more
<1>5. chunks' = TitleChunks \o all /\ AllUnderTitles(all)
  <2>1. chunks' = (TitleChunks \o more) \o ds
    BY <1>4
  <2>2. (TitleChunks \o more) \o ds = TitleChunks \o all /\ AllUnderTitles(all)
    BY <1>1, <1>4, MoreUnderTitles
  <2> QED BY <2>1, <2>2
<1> HIDE DEF all
<1>6. InSections'
  <2>1. \A x : AllUnderTitles(x)' <=> AllUnderTitles(x)
    BY SameTitles
  <2>2. \E x : x = all /\ AllUnderTitles(x)
    BY <1>5
  <2>3. PICK x : x = all /\ AllUnderTitles(x)
    BY <2>2
  <2>4. AllUnderTitles(x)'
    BY <2>1, <2>3
  <2>5. chunks' = TitleChunks' \o x
    BY <1>5, <2>3, SameTitles
  <2> QED BY <2>4, <2>5 DEF InSections
<1>7. ParentsMade' /\ IsList(chunks')
  <2>1. ParentsIn(chunks') /\ IsList(chunks')
    BY <1>1, <1>5, SectionParents
  <2> QED BY <2>1 DEF ParentsMade, ParentsIn
<1> QED BY <1>6, <1>7 DEF ParentsInv

\* A step that only cuts the run.
LEMMA CutOnly ==
  ASSUME ParentsInv, state = "content",
         chunks' = chunks \o Flushed, UNCHANGED <<file, paras>>, UploadInv',
         state' \in {"content", "chunked"}
  PROVE  ParentsInv'
<1> DEFINE cs == chunks \o Flushed
<1>1. AllUnderTitles(<<>>)
  BY ShortLists DEF AllUnderTitles
<1>2. Told(file, paras, cs, next)
  BY AfterFlush DEF ParentsInv, UploadInv
<1>3. cs = cs \o <<>>
  <2>1. IsList(cs)
    BY <1>2 DEF Told, Tell, HasTexts
  <2> QED BY <2>1, ListWithNothing
<1> QED BY <1>1, <1>3, CutUnderTitles

\* A heading ends the run.
LEMMA EnterSectionParents == ParentsInv /\ EnterSection => ParentsInv'
<1> SUFFICES ASSUME ParentsInv, EnterSection PROVE ParentsInv'
  OBVIOUS
<1>1. /\ UploadInv' /\ state = "content" /\ state' = "content" /\ UNCHANGED <<file, paras>>
      /\ chunks' = chunks \o Flushed
  BY EnterSectionUpload DEF ParentsInv, EnterSection, Reading
<1> QED BY <1>1, CutOnly

\* A text paragraph ends the run of another page, or makes no chunk.
LEMMA TakeTextParents == ParentsInv /\ TakeText => ParentsInv'
<1> SUFFICES ASSUME ParentsInv, TakeText PROVE ParentsInv'
  OBVIOUS
<1>1. /\ UploadInv' /\ state = "content" /\ state' = "content" /\ UNCHANGED <<file, paras>>
      /\ chunks' = chunks \o Flushed \/ chunks' = chunks
  BY TakeTextUpload DEF ParentsInv, TakeText, Reading
<1>2. CASE chunks' = chunks \o Flushed
  BY <1>1, <1>2, CutOnly
<1>3. CASE chunks' = chunks
  <2>1. InSections'
    <3>1. PICK cs : AllUnderTitles(cs) /\ chunks = TitleChunks \o cs
      BY <1>1 DEF ParentsInv, InSections
    <3>2. AllUnderTitles(cs)' /\ TitleChunks' = TitleChunks
      BY <1>1, <3>1, SameTitles
    <3> QED BY <1>3, <3>1, <3>2 DEF InSections
  <2>2. ParentsMade'
    BY <1>3 DEF ParentsInv, ParentsMade
  <2> QED BY <1>1, <1>3, <2>1, <2>2 DEF ParentsInv
<1> QED BY <1>1, <1>2, <1>3

\* A table is below the title of its section.
LEMMA TakeTableParents == ParentsInv /\ TakeTable => ParentsInv'
<1> SUFFICES ASSUME ParentsInv, TakeTable PROVE ParentsInv'
  OBVIOUS
<1> DEFINE ds == TableChunks(next)
<1>1. /\ UploadInv' /\ state = "content" /\ state' = "content" /\ UNCHANGED <<file, paras>>
      /\ chunks' = (chunks \o Flushed) \o ds /\ next <= Len(paras)
  BY TakeTableUpload DEF ParentsInv, TakeTable, Reading
<1>2. ParagraphsOf(file, paras) /\ next \in 1..Len(paras)
  BY <1>1, AfterFlush DEF ParentsInv, UploadInv
<1>3. AllUnderTitles(ds)
  BY <1>2, TableUnderTitle
<1> HIDE DEF ds
<1> QED BY <1>1, <1>3, CutUnderTitles

\* So is code.
LEMMA TakeCodeParents == ParentsInv /\ TakeCode => ParentsInv'
<1> SUFFICES ASSUME ParentsInv, TakeCode PROVE ParentsInv'
  OBVIOUS
<1> DEFINE c == CodeChunk(next)
           ds == <<c>>
           cs == chunks \o Flushed
<1>1. /\ UploadInv' /\ state = "content" /\ state' = "content" /\ UNCHANGED <<file, paras>>
      /\ chunks' = Append(cs, c) /\ next <= Len(paras)
  BY TakeCodeUpload DEF ParentsInv, TakeCode, Reading
<1>2. ParagraphsOf(file, paras) /\ next \in 1..Len(paras) /\ Told(file, paras, cs, next)
  BY <1>1, AfterFlush DEF ParentsInv, UploadInv
<1>3. AllUnderTitles(ds)
  BY <1>2, CodeUnderTitle
<1>4. IsList(cs)
  BY <1>2 DEF Told, Tell, HasTexts
<1> HIDE DEF cs, c
<1>5. chunks' = cs \o ds
  BY <1>1, <1>4, ListAppend
<1> HIDE DEF ds
<1> QED BY <1>1, <1>3, <1>5, CutUnderTitles DEF cs

\* At the end of the document the last run is cut.
LEMMA EndOfDocumentParents == ParentsInv /\ EndOfDocument => ParentsInv'
<1> SUFFICES ASSUME ParentsInv, EndOfDocument PROVE ParentsInv'
  OBVIOUS
<1>1. /\ UploadInv' /\ state = "content" /\ state' = "chunked" /\ UNCHANGED <<file, paras>>
      /\ chunks' = chunks \o Flushed
  BY EndOfDocumentUpload DEF ParentsInv, EndOfDocument
<1> QED BY <1>1, CutOnly

\* Every parent is among the chunks, so the rows are stored.
LEMMA StoreParents == ParentsInv /\ Store => ParentsInv'
<1> SUFFICES ASSUME ParentsInv, Store PROVE ParentsInv'
  OBVIOUS
<1>1. /\ UploadInv' /\ chunks' = chunks
      /\ state' = IF \A k \in DOMAIN chunks : chunks[k].parent \in DOMAIN chunks \cup {None}
                  THEN "stored" ELSE "CHUNK_PARENT_INVALID"
  BY StoreUpload DEF ParentsInv, Store
<1>2. DOMAIN chunks = 1..Len(chunks) /\ Len(chunks) \in Nat
  BY LenProperties DEF ParentsInv, IsList
<1>3. \A k \in DOMAIN chunks : chunks[k].parent \in DOMAIN chunks \cup {None}
  BY <1>2 DEF ParentsInv, ParentsMade
<1> QED BY <1>1, <1>3 DEF ParentsInv, ParentsMade

\* Nothing is made before a file is loaded.
LEMMA InitParents == Init => ParentsInv
<1> SUFFICES ASSUME Init PROVE ParentsInv
  OBVIOUS
<1>1. UploadInv /\ chunks = <<>> /\ state = "loading"
  BY InitUpload DEF Init
<1>2. DOMAIN chunks = {} /\ IsList(chunks)
  BY <1>1, ShortLists
<1> QED BY <1>1, <1>2 DEF ParentsInv, ParentsMade

\* Every step of the job keeps the parents.
LEMMA NextParents == ParentsInv /\ [Next]_vars => ParentsInv'
<1>1. ParentsInv /\ Next => ParentsInv'
  BY LoadParents, KeepWholeParents, MakeTitlesParents, EnterSectionParents, TakeTextParents,
     TakeTableParents, TakeCodeParents, EndOfDocumentParents, StoreParents DEF Next
<1>2. ParentsInv /\ UNCHANGED vars => ParentsInv'
  <2> SUFFICES ASSUME ParentsInv, UNCHANGED vars PROVE ParentsInv'
    OBVIOUS
  <2>1. UploadInv' /\ paras' = paras /\ chunks' = chunks /\ state' = state
    BY NextUpload DEF ParentsInv, vars
  <2>2. state = "content" => InSections'
    <3> SUFFICES ASSUME state = "content" PROVE InSections'
      OBVIOUS
    <3>1. PICK cs : AllUnderTitles(cs) /\ chunks = TitleChunks \o cs
      BY DEF ParentsInv, InSections
    <3>2. AllUnderTitles(cs)' /\ TitleChunks' = TitleChunks
      BY <2>1, <3>1, SameTitles
    <3> QED BY <2>1, <3>1, <3>2 DEF InSections
  <2> QED BY <2>1, <2>2 DEF ParentsInv, ParentsMade
<1> QED BY <1>1, <1>2

-----------------------------------------------------------------------------
(* Files and papers *)

\* A paper has no paragraphs, and is in none of the states in which a loader's are made.
PaperInv ==
  file \in Papers /\ paras = <<>> /\ state \notin {"loading", "loaded", "content"}

\* The inductive invariant of all jobs.
DocumentsInv == ParentsInv \/ PaperInv

\* Steps of the job of a paper.
PaperNext ==
  \/ ParseFast \/ ExportFails \/ Export \/ SkipReference \/ EnterNode \/ EmitNode \/ EndOfTree
  \/ RefuseMinerU \/ MinerUFails \/ RunMinerU \/ Validate \/ ChunkElement \/ EndOfElements

\* A job begins with a file or with a paper.
LEMMA InitDocuments == PdfInit => DocumentsInv
<1>1. CASE Init
  BY <1>1, InitParents DEF DocumentsInv
<1>2. CASE file \in Papers /\ paras = <<>> /\ state = "parsing"
  BY <1>2 DEF DocumentsInv, PaperInv
<1> QED BY <1>1, <1>2 DEF PdfInit

\* The steps of a paper are no steps of a file.
LEMMA PaperSteps == PaperNext => state \in {"parsing", "layout", "walking", "parsed", "valid"}
BY DEF PaperNext, ParseFast, ExportFails, UsesDocling, Export, SkipReference, EnterNode, EmitNode,
       Walking, EndOfTree, RefuseMinerU, StartsMinerU, MinerUFails, RunMinerU, Validate,
       ChunkElement, EndOfElements

\* What a step of a paper leaves, and the states it leads to.
LEMMA PaperKeeps ==
  PaperInv /\ PaperNext =>
    UNCHANGED <<file, paras>> /\ state' \notin {"loading", "loaded", "content"}
<1> SUFFICES ASSUME PaperInv, PaperNext
             PROVE  UNCHANGED <<file, paras>> /\ state' \notin {"loading", "loaded", "content"}
  OBVIOUS
<1> USE DEF PaperInv, Fail, Go, Parsed
<1>1. CASE ParseFast
  BY <1>1 DEF ParseFast, Routed
<1>2. CASE ExportFails
  BY <1>2 DEF ExportFails
<1>3. CASE Export
  BY <1>3 DEF Export
<1>4. CASE SkipReference \/ EnterNode \/ EmitNode
  BY <1>4 DEF SkipReference, EnterNode, EmitNode, vars
<1>5. CASE EndOfTree
  BY <1>5 DEF EndOfTree
<1>6. CASE RefuseMinerU \/ MinerUFails
  BY <1>6 DEF RefuseMinerU, MinerUFails
<1>7. CASE RunMinerU
  BY <1>7 DEF RunMinerU, Checked
<1>8. CASE Validate
  BY <1>8 DEF Validate
<1>9. CASE ChunkElement \/ EndOfElements
  BY <1>9 DEF ChunkElement, EndOfElements
<1> QED BY <1>1, <1>2, <1>3, <1>4, <1>5, <1>6, <1>7, <1>8, <1>9 DEF PaperNext

\* A paper makes no step of a file but the last.
LEMMA PaperOnlyStores ==
  PaperInv /\ Next => UNCHANGED <<file, paras>> /\ state' \notin {"loading", "loaded", "content"}
BY DEF PaperInv, Next, Load, KeepWhole, MakeTitles, EnterSection, TakeText, TakeTable, TakeCode,
       Reading, EndOfDocument, Store

\* Every step of a job, of files and of papers, keeps the invariant.
LEMMA NextDocuments == DocumentsInv /\ [PdfNext]_allVars => DocumentsInv'
<1> SUFFICES ASSUME DocumentsInv, [PdfNext]_allVars PROVE DocumentsInv'
  OBVIOUS
<1>1. CASE PaperNext
  <2>1. ~ParentsInv
    BY <1>1, PaperSteps DEF ParentsInv, UploadInv, FileStates
  <2> QED BY <1>1, <2>1, PaperKeeps DEF DocumentsInv, PaperInv
<1>2. CASE Next
  <2>1. ParentsInv => ParentsInv'
    BY <1>2, NextParents
  <2> QED BY <1>2, <2>1, PaperOnlyStores DEF DocumentsInv, PaperInv
<1>3. CASE UNCHANGED allVars
  <2>1. UNCHANGED vars
    BY <1>3 DEF allVars
  <2>2. ParentsInv => ParentsInv'
    BY <2>1, NextParents
  <2>3. PaperInv => PaperInv'
    BY <2>1 DEF vars, PaperInv
  <2> QED BY <2>2, <2>3 DEF DocumentsInv
<1> QED BY <1>1, <1>2, <1>3 DEF PdfNext, PaperNext

\* Files and papers: what ParentsInv says of a file holds while the jobs of papers go another way.
THEOREM DocumentsInductive == PdfSpec => []DocumentsInv
BY InitDocuments, NextDocuments, PTL DEF PdfSpec

\* A paper has no paragraphs, so nothing is said of it here.
LEMMA NothingToCite == PaperInv => PagesAreOfTheWords /\ ChunksFit /\ WordsKept
<1>1. PaperInv => ~(Size(paras) > SmallLimit)
  BY SizeOfParagraphs, FilesAssumption DEF PaperInv
<1> QED BY <1>1 DEF PaperInv, PagesAreOfTheWords, ChunksFit, WordsKept

\* What the invariant of the parents says of the words.
LEMMA ParentsUpload == ParentsInv => UploadInv
BY DEF ParentsInv

\* The pages a chunk of a file is cited with are those its words are on (_chunk_content), for any
\* files and any limits.
THEOREM CitedPages == PdfSpec => []PagesAreOfTheWords
BY DocumentsInductive, ParentsUpload, UploadPages, NothingToCite, PTL DEF DocumentsInv

\* A text chunk exceeds max_chunk_chars by at most one, and a part of a table only when it is a
\* single line (_add_text_chunks, _add_table_chunk), for any files and any limits.
THEOREM SizesFit == PdfSpec => []ChunksFit
BY DocumentsInductive, ParentsUpload, UploadFits, NothingToCite, PTL DEF DocumentsInv

\* Cutting loses no word, repeats none but those of the first lines of tables, and keeps their
\* order (chunk_document), for any files and any limits.
THEOREM NoWordLost == PdfSpec => []WordsKept
BY DocumentsInductive, ParentsUpload, UploadWords, NothingToCite, PTL DEF DocumentsInv

\* A chunk of a file that has a parent is below an earlier title chunk with its path, so that the
\* job of a file never ends with CHUNK_PARENT_INVALID (chunk_document, RealChunker.chunk), for any
\* files and any limits.
THEOREM ParentsOfFiles ==
  PdfSpec => [](file \notin Papers => ParentsMade /\ state # "CHUNK_PARENT_INVALID")
<1>1. DocumentsInv => (file \notin Papers => ParentsMade /\ state # "CHUNK_PARENT_INVALID")
  BY DEF DocumentsInv, ParentsInv, PaperInv
<1> QED BY <1>1, DocumentsInductive, PTL
=============================================================================
