SPECIFICATION Spec
CONSTANTS
  None = None
  i1 = i1
  i2 = i2
  i3 = i3
  i4 = i4
  src = src
  inc = inc
  inc2 = inc2
  cxx = cxx
  sys = sys
  xcpp = xcpp
  ycpp = ycpp
  xobj = xobj
  xexe = xexe
  xdep = xdep
  pgch = pgch
  a = a
  b = b
  p = p
  q = q
  Predef = Predef
  AbsPaths = {src, inc, inc2, cxx, sys}
  SourceFiles = {xcpp, ycpp}
  HeaderFiles = {q}
  ObjFiles = {xobj}
  PchFiles = {pgch}
  LinkedFiles = {xobj}
  OnlyLocalhost = FALSE
  Invocations = {i1, i2, i3, i4}
  CmdLine <- AlikeCmdLine
  Cwd <- MCCwd
  DefaultDirs <- MCDefaultDirs
  SubDirs <- MCSubDirs
  ClassDirs = {}
  OwnPchs <- MCOwnPchs
  FileSystems <- MCFileSystems
INVARIANTS
  FindsWhatCxxFinds
  CacheIsTruth
  OrderIsStable
  DepFilesAreComplete
