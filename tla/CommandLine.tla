---------------------------- MODULE CommandLine -----------------------------
(***************************************************************************)
(* What the daemon takes out of the command line of a `nocc g++ ...`.      *)
(*                                                                         *)
(* An argument is <<key, value>>: <<"-I", None>> is a bare -I,             *)
(* <<"-I", "inc">> is -Iinc, <<"-Wall", None>> an option that nocc leaves  *)
(* alone, <<"", w>> a word.  A path is absolute, or relative to the        *)
(* directory of the invocation and then <<cwd, path>>.                     *)
(***************************************************************************)
EXTENDS Naturals, SequencesExt

CONSTANTS
  None,         \* "no value"
  AbsPaths,     \* words that start with /
  SourceFiles,  \* words that end with .cpp, .cc, .cxx or .c
  HeaderFiles,  \* words that end with .h, .hh, .hxx or .hpp
  ObjFiles,     \* words that end with .o
  PchFiles,     \* words that contain .gch or .pch
  LinkedFiles,  \* words that end with .o or .a, or start with .so
  OnlyLocalhost \* the only remote is 127.0.0.1

PathKeys == {"-o", "-I", "-iquote", "-isystem", "-include"}
DepKeys == {"-MF", "-MT", "-MQ"}
XclangKeys == PathKeys \ {"-o"}

Unsupported ==
  {"-fprofile-generate", "-fprofile-use", "-fauto-profile", "-march=native", "-E", "-nostdinc",
   "-nostdinc++", "-iprefix", "-idirafter", "--sysroot", "-M", "-MM", "-MG"}
CoverageConflicts ==
  {"-fprofile-dir", "-fprofile-note", "-fprofile-prefix-path", "-dumpbase", "-dumpdir",
   "-save-temps"}

pathAbs(cwd, path) == IF path \in AbsPaths THEN path ELSE <<cwd, path>>

\* DepCmdFlags: the files of -MF, -MT and -MQ, and which of -MD, -MMD, -MP there are.
NoDepFlags == [MF |-> None, targets |-> <<>>, flags |-> {}]

\* pending is the key that waits for its value; stop: nothing more is parsed.
EmptyInvocation ==
  [pending |-> None, stop |-> FALSE, err |-> FALSE, invokeType |-> "unsupported",
   cppInFile |-> None, objOutFile |-> None, cxxArgs |-> <<>>, depsFlags |-> NoDepFlags,
   dirsI |-> <<>>, dirsIquote |-> <<>>, dirsIsystem |-> <<>>, filesI |-> <<>>,
   coverageArcs |-> FALSE, coverageNotes |-> FALSE, coverageConflict |-> FALSE]

Refuse(inv) == [inv EXCEPT !.err = TRUE, !.stop = TRUE]

TakePath(inv, cwd, key, path) ==
  CASE key = "-o"       -> [inv EXCEPT !.objOutFile = path]
    [] key = "-I"       -> [inv EXCEPT !.dirsI = Append(@, pathAbs(cwd, path))]
    [] key = "-iquote"  -> [inv EXCEPT !.dirsIquote = Append(@, pathAbs(cwd, path))]
    [] key = "-isystem" -> [inv EXCEPT !.dirsIsystem = Append(@, pathAbs(cwd, path))]
    [] key = "-include" -> [inv EXCEPT !.filesI = Append(@, pathAbs(cwd, path))]

NoticeCoverage(inv, key) ==
  CASE key \in {"--coverage", "-coverage"} ->
                                   [inv EXCEPT !.coverageArcs = TRUE, !.coverageNotes = TRUE]
    [] key = "-fprofile-arcs"              -> [inv EXCEPT !.coverageArcs = TRUE]
    [] key = "-fno-profile-arcs"           -> [inv EXCEPT !.coverageArcs = FALSE]
    [] key = "-ftest-coverage"             -> [inv EXCEPT !.coverageNotes = TRUE]
    [] key = "-fno-test-coverage"          -> [inv EXCEPT !.coverageNotes = FALSE]
    [] key \in CoverageConflicts           -> [inv EXCEPT !.coverageConflict = TRUE]
    [] OTHER                               -> inv

(***************************************************************************)
(* The argument after a bare key.  "-Xclang" may stand before a path, and  *)
(* before a key of which it is then dropped.                               *)
(***************************************************************************)
ParseValue(inv, cwd, arg) ==
  LET key == inv.pending
      got == [inv EXCEPT !.pending = None]
  IN CASE key \in PathKeys /\ arg[1] = "-Xclang" -> inv
       [] key \in PathKeys /\ arg[1] # "-Xclang" -> TakePath(got, cwd, key, arg[2])
       [] key = "-MF" -> [got EXCEPT !.depsFlags.MF = pathAbs(cwd, arg[2])]
       [] key \in {"-MT", "-MQ"} -> [got EXCEPT !.depsFlags.targets = Append(@, arg[2])]
       [] key = "-Xclang" ->
            IF arg[1] \in XclangKeys /\ arg[2] = None THEN [got EXCEPT !.pending = arg[1]]
            ELSE [got EXCEPT !.cxxArgs = @ \o <<<<"-Xclang", None>>, arg>>]
       [] key = "-isysroot" ->
            IF OnlyLocalhost THEN [got EXCEPT !.cxxArgs = @ \o <<<<key, None>>, arg>>]
            ELSE Refuse(got)

ParseOption(inv, cwd, arg) ==
  LET key == arg[1] IN
    CASE key \in PathKeys /\ arg[2] # None -> TakePath(inv, cwd, key, arg[2])
      [] key \in PathKeys \cup DepKeys \cup {"-Xclang", "-isysroot"} /\ arg[2] = None ->
           [inv EXCEPT !.pending = key]
      [] key \in Unsupported -> Refuse(inv)
      [] key = "-Xarch_arm64" -> inv
      [] key \in {"-MD", "-MMD", "-MP"} -> [inv EXCEPT !.depsFlags.flags = @ \cup {key}]
      [] OTHER -> [NoticeCoverage(inv, key) EXCEPT !.cxxArgs = Append(@, arg)]

ParseWord(inv, arg) ==
  CASE arg[2] \in SourceFiles \cup HeaderFiles ->
         IF inv.cppInFile # None THEN Refuse(inv) ELSE [inv EXCEPT !.cppInFile = arg[2]]
    [] arg[2] \in LinkedFiles -> [inv EXCEPT !.stop = TRUE, !.invokeType = "linking"]
    [] OTHER -> [inv EXCEPT !.cxxArgs = Append(@, arg)]

ParseArg(cwd, inv, arg) ==
  CASE inv.stop            -> inv
    [] inv.pending # None  -> ParseValue(inv, cwd, arg)
    [] arg[1] # ""         -> ParseOption(inv, cwd, arg)
    [] OTHER               -> ParseWord(inv, arg)

(***************************************************************************)
(* What is left when all is parsed; an option without its argument makes   *)
(* it fail, and an unknown version of the compiler isn't modelled.         *)
(***************************************************************************)
Classified(inv) ==
  CASE inv.pending # None \/ inv.cppInFile = None -> Refuse(inv)
    [] (inv.coverageArcs \/ inv.coverageNotes) /\ inv.coverageConflict -> Refuse(inv)
    [] inv.objOutFile \in ObjFiles -> [inv EXCEPT !.invokeType = "cpp"]
    [] inv.objOutFile \in PchFiles -> [inv EXCEPT !.invokeType = "pch"]
    [] OTHER -> Refuse(inv)

Classify(inv) ==
  CASE inv.stop -> inv
    [] inv.pending = "-Xclang" ->
         Classified([inv EXCEPT !.pending = None, !.cxxArgs = Append(@, <<"-Xclang", None>>)])
    [] OTHER -> Classified(inv)

\* The set makes TLC compute what an argument is added to only once.
ParseCmdLineInvocation(cwd, cmdLine) ==
  LET parsed[k \in 0..Len(cmdLine)] ==   \* after k arguments
        IF k = 0 THEN {EmptyInvocation} ELSE {ParseArg(cwd, inv, cmdLine[k]) : inv \in parsed[k-1]}
  IN CHOOSE result \in {Classify(inv) : inv \in parsed[Len(cmdLine)]} : TRUE

\* MergeWith: the dirs of the command line, then those of the compiler.
MergeWith(dirs, other) ==
  [dirs EXCEPT !.dirsI = @ \o other.dirsI,
               !.dirsIquote = @ \o other.dirsIquote,
               !.dirsIsystem = @ \o other.dirsIsystem,
               !.filesI = @ \o other.filesI]

=============================================================================
