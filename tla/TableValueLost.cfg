SPECIFICATION PdfSpec
CONSTANTS
  None = None
  Files <- MCFiles
  MaxChars = 6
  MergeMax = 3
  SmallLimit = 5
  OcrMinimum = 4
  Papers <- TallLabelPapers
  Width = 8
  Height = 20
  Band = 2
  LineGap = 1
  OcrTextMin = 3
INVARIANT DataRowsStored
CHECK_DEADLOCK FALSE
