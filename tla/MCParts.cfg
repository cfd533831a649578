SPECIFICATION Spec
CONSTANTS
  s1 = s1
  NPAGE = 13
  PGSIZE = 2
  NPTENTRIES = 3
  TOP = 5
  NKTAB = 1
  NPROC = 2
  Program <- MCProgram
  ArgBytes = {1, 3}
  Increment <- MCIncrement
  ShmSize <- MCShmSize
  FSSIZE = 9
  NMETA = 3
  BSIZE = 2
  NDIRECT = 2
  NFILE = 2
  RootSize = 1
  FileSize = {0, 3, 7}
  WriteSize = {1, 3}
  MAXHEAP = 13
  HSIZE = 2
  NALLOC = 4
  NBytes = {1, 4}
  Sleeper = {s1}
  HALF = 8
  MAXDELAY = 2
  Interval <- MCInterval
  NCPU = 3
  Early <- MCEarly
  Later <- MCLater
  MAXARGS = 3
  MAXTOK = 5
  Typable = {"a", "<", "|", "&", ";", "(", ")"}
  Runnable <- MCRunnable
  Overlaid <- MCOverlaid
  NPID = 5
  Dirs <- MCDirs
  Cwd <- MCCwd
  Home <- MCHome
  ReadOnly <- MCReadOnly
  Files = {"m", "n"}
  CdArg <- MCCdArg
  Component <- MCComponent
  MAXCOMP = 4
  LineChars = {"w", " ", "q"}
  MAXLINE = 7
  ARGUMENTS_SIZE = 4
  WORDLEN = 3
INVARIANTS
  PagesExact
  MappedToSize
  BitmapExact
  ReadsWritten
  HeapPartitioned
  SleepsItsTime
  PagesOnce
  ParsesByPrecedence
  PromptWhenDone
  ArgumentsRight
PROPERTIES
  FailureKeepsImage
  NothingLost
CHECK_DEADLOCK FALSE
