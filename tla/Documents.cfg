SPECIFICATION PdfSpec
CONSTANTS
  None = None
  Files <- MCFiles
  MaxChars = 6
  MergeMax = 3
  SmallLimit = 5
  OcrMinimum = 4
  Papers <- MCPapers
  Width = 8
  Height = 20
  Band = 2
  LineGap = 1
  OcrTextMin = 3
INVARIANTS DocumentsTypeOK WordsKept ChunksFit PagesAreOfTheWords PageTextKept TableValuesOnce OneTableSourcePerPage FastPathClean
CHECK_DEADLOCK FALSE
