CONSTANTS
  HeapMax = 8
  Chunk = 3
  Requests = {1, 2, 3, 4}
  BufSize = 4
  Files <- MCFiles
  Patterns <- MCPatterns
  MemSize = 5
  Chars = {1, 2}
  Inputs <- MCInputs
  Width = 6
  Items <- MCItems
  DIRSIZ = 2
  Texts <- MCTexts
  Paths <- MCPaths
  PageBytes = 2
  VPages = 3
  PPages = 3
  Word = 2
  Tables <- MCTables
  Memories <- MCMemories
  PerBlock = 2
  NDIRECT = 2
  FSSIZE = 22
  NINODES = 6
  NMeta = 3
  ImageFiles <- MCImageFiles
  MaxArgs = 3
  Words = {"w", "x"}
  Typed <- MCTyped
  MaxRounds = 3
  NPROC = 3
  NPAGES = 25
  PGSIZE = 2
  PerTable = 2
  MaxPages = 6
  Programs <- MCPrograms
  Increments <- MCIncrements
SPECIFICATION SeqSpec
INVARIANTS HeapRight TextRight LibraryRight ImageWritten PipelineRight PagesConserved ImageRight
PROPERTY FailureChangesNothing
CHECK_DEADLOCK FALSE
