------------------------- MODULE OwnIncludesParser --------------------------
(***************************************************************************)
(* How the daemon finds what a .cpp depends on: the own includes parser,   *)
(* for several invocations at the same time, and the cache they share for  *)
(* as long as the daemon lives.                                            *)
(*                                                                         *)
(* A file is <<dir, name>>.  One step of an invocation follows one         *)
(* #include; the recursion of the code is a stack of files being read.     *)
(***************************************************************************)
EXTENDS CommandLine, DepFiles, IncludeStatements

CONSTANTS
  Invocations,
  CmdLine,      \* the command line of an invocation
  Cwd,          \* its directory
  DefaultDirs,  \* the include dirs of the compiler, cxxDefIDirs
  ClassDirs,    \* dirs of "/kphp/cl/" and "/kphp/cl_l/"
  OwnPchs,      \* files with a .nocc-pch beside them
  Predef,       \* stdc-predef.h
  FileSystems   \* what may be on the disk: files and their tokens

VARIABLES
  files,           \* what is on the disk
  statements,      \* the #include directives that the parser finds in a file
  includesResolve, \* IncludesCache: the file of an <angle> name, or None for "NO"
  hFilesInfo,      \* IncludesCache: the nested includes of a file
  pc,              \* "idle", "collect" or "done", of an invocation
  stack,           \* the files it is reading, the innermost first
  uniqSeen,        \* paths it has tried, with the dependency or None
  hFiles,          \* the dependencies it has found, in order
  depFile          \* its .d file, or None

vars == <<files, statements, includesResolve, hFilesInfo, pc, stack, uniqSeen, hFiles, depFile>>

\* The parsed command line, with the dirs of the compiler.
invocation ==
  [i \in Invocations |-> MergeWith(ParseCmdLineInvocation(Cwd[i], CmdLine[i]), DefaultDirs)]

\* Those that a remote may compile.
Compiled == {i \in Invocations : invocation[i].invokeType \in {"cpp", "pch"}}

Init ==
  /\ files \in FileSystems
  /\ statements = [file \in DOMAIN files |-> collectIncludeStatementsInFile(files[file])]
  /\ includesResolve = <<>> /\ hFilesInfo = <<>>
  /\ pc = [i \in Invocations |-> "idle"]
  /\ stack = [i \in Invocations |-> <<>>]
  /\ uniqSeen = [i \in Invocations |-> <<>>]
  /\ hFiles = [i \in Invocations |-> <<>>]
  /\ depFile = [i \in Invocations |-> None]

\* GetCppInFileAbs: the word itself names the .cpp in its directory.
CppInFile(i) == <<Cwd[i], invocation[i].cppInFile>>

\* isSourceFileName
SearchesForPch(i) == invocation[i].cppInFile \in SourceFiles

\* A map with one entry, and the entries of a map in another; written out for
\* the prover, which has no definition of those of TLC.
Entry(key, value) == [k \in {key} |-> value]
Into(map, entries) ==
  [k \in DOMAIN map \cup DOMAIN entries |-> IF k \in DOMAIN entries THEN entries[k] ELSE map[k]]

\* The scan of a file never ends.
Hangs(file) == Contains(statements[file], Endless)

PchOf(file) == <<file, "nocc-pch">>

Angle(name) == [kind |-> "#include", form |-> "angle", arg |-> name, pch |-> FALSE]
AbsPath(file, pch) == [kind |-> "#include", form |-> "abs", arg |-> file, pch |-> pch]
MarkPch(statement, pch) == [statement EXCEPT !.pch = pch]

-----------------------------------------------------------------------------
(***************************************************************************)
(* shouldCacheHFile: files of -isystem dirs and of the compiler's, and     *)
(* never those under -I.                                                   *)
(***************************************************************************)
shouldCacheHFile(i, file) ==
  /\ ~ \E dir \in ToSet(invocation[i].dirsI) : Within(file[1], dir)
  /\ \/ \E dir \in ToSet(invocation[i].dirsIsystem) : Within(file[1], dir)
     \/ file[1] \in ClassDirs

\* The first of the dirs that is a prefix of the path of a dir, 0 for none.
FirstWithin(dirs, dir) == SelectInSeq(dirs, LAMBDA of : Within(dir, of))

\* Mutant of SearchPaths: #include_next begins with the dir it is in.
SearchPathsFromItself(i, current, inc) ==
  LET dirs == invocation[i].dirsI \o invocation[i].dirsIsystem
      first == FirstWithin(dirs, current[1])
      used == IF inc.form = "quote" THEN <<current[1]>> \o invocation[i].dirsIquote \o dirs
              ELSE IF inc.form = "next" THEN SubSeq(dirs, first, Len(dirs)) ELSE dirs
  IN [k \in DOMAIN used |-> <<used[k], inc.arg>>]

(***************************************************************************)
(* resolveIncludedArg: the paths to try, in order.  #include_next takes    *)
(* those after the first whose directory is a prefix of the current file.  *)
(* An <angle> name is taken from the cache, if it is there.                *)
(***************************************************************************)
SearchPaths(i, current, inc) ==
  LET dirs == (IF inc.form = "quote" THEN <<current[1]>> \o invocation[i].dirsIquote ELSE <<>>)
              \o invocation[i].dirsI \o invocation[i].dirsIsystem
      first == FirstWithin(dirs, current[1])
      used == IF inc.form # "next" THEN dirs
              ELSE IF first = 0 THEN <<>> ELSE SubSeq(dirs, first + 1, Len(dirs))
  IN [k \in DOMAIN used |-> <<used[k], inc.arg>>]

InResolveCache(inc) == inc.form = "angle" /\ inc.arg \in DOMAIN includesResolve

Attempts(i, current, inc) ==
  CASE inc.form = "abs" -> <<inc.arg>>
    [] InResolveCache(inc) -> IF includesResolve[inc.arg] = None THEN <<>>
                              ELSE <<includesResolve[inc.arg]>>
    [] OTHER -> SearchPaths(i, current, inc)

-----------------------------------------------------------------------------
Seen(i, file) == file \in DOMAIN uniqSeen[i]

\* LocateOwnPchFile
HasPch(inc, file) == inc.pch /\ file \in OwnPchs

IsCached(i, file) == shouldCacheHFile(i, file) /\ file \in DOMAIN hFilesInfo

(***************************************************************************)
(* What onEachResolveAttempt returns for a path.                           *)
(***************************************************************************)
Found(i, inc, file) ==
  IF Seen(i, file) THEN uniqSeen[i][file] # None
  ELSE HasPch(inc, file) \/ IsCached(i, file) \/ file \in DOMAIN files

Frame(i) == Head(stack[i])
NextInclude(i) == Head(Frame(i).todo)

\* The first of the paths tried that is a hit, 0 for none.
FirstFound(i, tried) == SelectInSeq(tried, LAMBDA file : Found(i, NextInclude(i), file))

\* uniqSeen when paths have failed.
WithFailed(i, paths) == Into([file \in ToSet(paths) |-> None], uniqSeen[i])

\* What is stored for the <angle> name of an #include that led to the file.
Remembered(i, inc, file) ==
  IF inc.form = "angle" /\ ~ InResolveCache(inc) /\ shouldCacheHFile(i, file)
  THEN Entry(inc.arg, file) ELSE <<>>

\* The rest of the frame, with the dependency that an #include has led to.
Popped(frame, file) ==
  [frame EXCEPT !.todo = Tail(@),
                !.nested = IF file = None THEN @ ELSE Append(@, file)]

AddIncludeResolve(resolved) == includesResolve' = Into(includesResolve, resolved)

AddHFileInfo(cached) == hFilesInfo' = Into(hFilesInfo, cached)

SetTop(i, frame) == stack' = [stack EXCEPT ![i] = <<frame>> \o Tail(@)]

\* A call for a file: the reader comes back to it with the #include that led there.
Enter(i, file, todo, cache) ==
  stack' = [stack EXCEPT ![i] = <<[file |-> file, todo |-> todo, cache |-> cache, nested |-> <<>>,
                                   remember |-> Remembered(i, NextInclude(i), file)]>> \o @]

Collecting(i) == pc[i] = "collect" /\ stack[i] # <<>> /\ Frame(i).todo # <<>>

-----------------------------------------------------------------------------
(***************************************************************************)
(* processCppInFile: stdc-predef.h, then every -include, then the .cpp.    *)
(* Only for an -include and for the first #include of a source file a      *)
(* precompiled header is looked for.                                       *)
(***************************************************************************)
CppStatements(i) ==
  LET found == statements[CppInFile(i)]
      filesI == invocation[i].filesI
      explicit == [k \in DOMAIN filesI |-> AbsPath(filesI[k], SearchesForPch(i))]
  IN <<Angle(Predef)>> \o explicit
     \o [k \in DOMAIN found |-> MarkPch(found[k], k = 1 /\ SearchesForPch(i))]

\* HandleInvocation clears the cache before it generates an own pch.
Cleared(i, cache) == IF invocation[i].invokeType = "pch" THEN <<>> ELSE cache

CollectDependentIncludes(i) ==
  /\ pc[i] = "idle"
  /\ i \in Compiled
  /\ CppInFile(i) \in DOMAIN files /\ ~ Hangs(CppInFile(i))
  /\ pc' = [pc EXCEPT ![i] = "collect"]
  /\ stack' = [stack EXCEPT ![i] =
       <<[file |-> CppInFile(i), todo |-> CppStatements(i), cache |-> FALSE,
          nested |-> <<>>, remember |-> <<>>]>>]
  /\ includesResolve' = Cleared(i, includesResolve)
  /\ hFilesInfo' = Cleared(i, hFilesInfo)
  /\ UNCHANGED <<files, statements, uniqSeen, hFiles, depFile>>

\* tried is the sequence of paths, the one at hit is taken.
FindNothing(i, tried) ==
  /\ SetTop(i, Popped(Frame(i), None))
  /\ uniqSeen' = [uniqSeen EXCEPT ![i] = WithFailed(i, tried)]
  /\ AddIncludeResolve(IF NextInclude(i).form = "angle" /\ ~ InResolveCache(NextInclude(i))
                       THEN Entry(NextInclude(i).arg, None) ELSE <<>>)
  /\ UNCHANGED <<files, statements, hFilesInfo, pc, hFiles, depFile>>

\* Mutant of FindSeen: it is no nested include.
FindSeenUnnoticed(i, file, failed) ==
  /\ Seen(i, file)
  /\ SetTop(i, Popped(Frame(i), None))
  /\ uniqSeen' = [uniqSeen EXCEPT ![i] = WithFailed(i, failed)]
  /\ AddIncludeResolve(Remembered(i, NextInclude(i), file))
  /\ UNCHANGED <<files, statements, hFilesInfo, pc, hFiles, depFile>>

FindSeen(i, file, failed) ==
  /\ Seen(i, file)
  /\ SetTop(i, Popped(Frame(i), uniqSeen[i][file]))
  /\ uniqSeen' = [uniqSeen EXCEPT ![i] = WithFailed(i, failed)]
  /\ AddIncludeResolve(Remembered(i, NextInclude(i), file))
  /\ UNCHANGED <<files, statements, hFilesInfo, pc, hFiles, depFile>>

\* The .nocc-pch instead of the header; nested includes have no part in it.
FindPch(i, file, failed) ==
  /\ ~ Seen(i, file) /\ HasPch(NextInclude(i), file)
  /\ uniqSeen' = [uniqSeen EXCEPT ![i] =
       Into(WithFailed(i, failed), [f \in {file, PchOf(file)} |-> PchOf(file)])]
  /\ hFiles' = [hFiles EXCEPT ![i] = Append(@, PchOf(file))]
  /\ SetTop(i, Popped(Frame(i), None))
  /\ AddIncludeResolve(Remembered(i, NextInclude(i), file))
  /\ UNCHANGED <<files, statements, hFilesInfo, pc, depFile>>

FindNew(i, file, failed) ==
  /\ ~ Seen(i, file) /\ ~ HasPch(NextInclude(i), file)
  /\ uniqSeen' = [uniqSeen EXCEPT ![i] = Into(WithFailed(i, failed), Entry(file, file))]
  /\ hFiles' = [hFiles EXCEPT ![i] = Append(@, file)]
  /\ UNCHANGED <<files, statements, includesResolve, hFilesInfo, pc, depFile>>

\* Mutant of FindCached: nested includes are taken as they are.
FindCachedFlat(i, file, failed) ==
  /\ ~ Seen(i, file) /\ ~ HasPch(NextInclude(i), file)
  /\ IsCached(i, file)
  /\ uniqSeen' = [uniqSeen EXCEPT ![i] = Into(WithFailed(i, failed), Entry(file, file))]
  /\ hFiles' = [hFiles EXCEPT ![i] = @ \o <<file>> \o hFilesInfo[file]]
  /\ SetTop(i, Popped(Frame(i), file))
  /\ UNCHANGED <<files, statements, includesResolve, hFilesInfo, pc, depFile>>

\* The header isn't opened: its nested includes are known by their paths.
FindCached(i, file, failed) ==
  /\ FindNew(i, file, failed)
  /\ IsCached(i, file)
  /\ Enter(i, file, [k \in DOMAIN hFilesInfo[file] |-> AbsPath(hFilesInfo[file][k], FALSE)], FALSE)

\* processHFile
ReadFile(i, file, failed) ==
  /\ FindNew(i, file, failed)
  /\ ~ IsCached(i, file) /\ ~ Hangs(file)
  /\ Enter(i, file, statements[file], shouldCacheHFile(i, file))

onHashInclude(i) ==
  /\ Collecting(i)
  /\ \E tried \in {Attempts(i, Frame(i).file, NextInclude(i))} :
       \E hit \in {FirstFound(i, tried)} :
         \/ hit = 0 /\ FindNothing(i, tried)
         \/ /\ hit # 0
            /\ \/ FindSeen(i, tried[hit], SubSeq(tried, 1, hit - 1))
               \/ FindPch(i, tried[hit], SubSeq(tried, 1, hit - 1))
               \/ FindCached(i, tried[hit], SubSeq(tried, 1, hit - 1))
               \/ ReadFile(i, tried[hit], SubSeq(tried, 1, hit - 1))

(***************************************************************************)
(* A file is done: its nested includes are cached, and what its <angle>    *)
(* name stands for.                                                        *)
(***************************************************************************)
Return(i) ==
  /\ pc[i] = "collect" /\ Frame(i).todo = <<>> /\ Len(stack[i]) > 1
  /\ AddHFileInfo(IF Frame(i).cache THEN Entry(Frame(i).file, Frame(i).nested) ELSE <<>>)
  /\ AddIncludeResolve(Frame(i).remember)
  /\ stack' = [stack EXCEPT ![i] =
                 <<Popped(stack[i][2], Frame(i).file)>> \o SubSeq(@, 3, Len(@))]
  /\ UNCHANGED <<files, statements, pc, uniqSeen, hFiles, depFile>>

EndCollecting(i) ==
  /\ pc[i] = "collect" /\ Frame(i).todo = <<>> /\ Len(stack[i]) = 1
  /\ pc' = [pc EXCEPT ![i] = "done"]
  /\ stack' = [stack EXCEPT ![i] = <<>>]
  /\ UNCHANGED <<files, statements, includesResolve, hFilesInfo, uniqSeen, hFiles,
                 depFile>>

\* Beside the session on the server, in a goroutine that nobody waits for.
GenerateAndSaveDepFile(i) ==
  /\ pc[i] = "done" /\ depFile[i] = None
  /\ ShouldGenerateDepFile(invocation[i].depsFlags)
  /\ depFile' = [depFile EXCEPT ![i] =
       GeneratedDepFile(invocation[i], Cwd[i], CppInFile(i), DefaultDirs, hFiles[i])]
  /\ UNCHANGED <<files, statements, includesResolve, hFilesInfo, pc, stack, uniqSeen,
                 hFiles>>

Step(i) ==
  \/ CollectDependentIncludes(i)
  \/ onHashInclude(i) \/ Return(i) \/ EndCollecting(i)
  \/ GenerateAndSaveDepFile(i)

\* All that it stops for; a scan that never ends is not among it.  An invocation
\* that isn't for a remote does nothing here.
Finished(i) ==
  \/ pc[i] = "idle" /\ i \notin Compiled
  \/ /\ pc[i] = "done"
     /\ ShouldGenerateDepFile(invocation[i].depsFlags) => depFile[i] # None

AllDone == (\A i \in Invocations : Finished(i)) /\ UNCHANGED vars

Next == (\E i \in Invocations : Step(i)) \/ AllDone

Spec == Init /\ [][Next]_vars

-----------------------------------------------------------------------------
(***************************************************************************)
(* The reference: what a preprocessor finds that takes every branch of an  *)
(* #if, with the command line read in its own words and no cache.          *)
(***************************************************************************)
RefValues(i, key) ==
  LET line == CmdLine[i]
      Value(k) == CASE line[k][2] # None -> line[k][2]
                    [] line[k][2] = None /\ line[k+1][1] = "-Xclang" -> line[k+2][2]
                    [] line[k][2] = None /\ line[k+1][1] # "-Xclang" -> line[k+1][2]
      at == SelectSeq([k \in DOMAIN line |-> k], LAMBDA k : line[k][1] = key)
  IN [n \in DOMAIN at |-> pathAbs(Cwd[i], Value(at[n]))]

RefChain == [i \in Invocations |->
  RefValues(i, "-I") \o DefaultDirs.dirsI \o RefValues(i, "-isystem") \o DefaultDirs.dirsIsystem]
RefQuoteChain == [i \in Invocations |->
  RefValues(i, "-iquote") \o DefaultDirs.dirsIquote \o RefChain[i]]
RefExplicit == [i \in Invocations |-> ToSet(RefValues(i, "-include"))]

RefDirs(i, current, inc) ==
  CASE inc.form = "quote" -> <<current[1]>> \o RefQuoteChain[i]
    [] inc.form = "next"  ->
         SubSeq(RefChain[i], SelectInSeq(RefChain[i], LAMBDA dir : dir = current[1]) + 1,
                Len(RefChain[i]))
    [] OTHER              -> RefChain[i]

\* What each of the files that there may be includes.
RefIncludes ==
  [text \in UNION {{system[file] : file \in DOMAIN system} : system \in FileSystems} |->
     RefStatements(text)]

\* The first place of a name, None for nowhere.
RefFirst(dirs, name, existing) ==
  LET hits == {k \in DOMAIN dirs : <<dirs[k], name>> \in existing}
  IN IF hits = {} THEN None ELSE <<dirs[Min(hits)], name>>

RefFile(i, current, inc, existing) == RefFirst(RefDirs(i, current, inc), inc.arg, existing)

\* All that a file includes itself.
RefNested(i, system, file) ==
  {RefFile(i, file, inc, DOMAIN system) : inc \in ToSet(RefIncludes[system[file]])} \ {None}

\* All that can be reached from some files, but through those left out.
RefClosure(i, system, roots, without) ==
  LET nested == [file \in DOMAIN system |-> RefNested(i, system, file)]
      closed == {S \in SUBSET DOMAIN system :
                   /\ roots \ (without \cup {None}) \subseteq S
                   /\ \A file \in S : nested[file] \ without \subseteq S}
  IN {file \in DOMAIN system : \A S \in closed : file \in S}

\* What the .cpp gets before its own first #include.
RefBefore(i, system) ==
  RefClosure(i, system,
    {RefFile(i, CppInFile(i), Angle(Predef), DOMAIN system)} \cup RefExplicit[i], {})

\* A precompiled header in the place of the first #include stands for all it
\* includes, unless the header was there before.
RefPch(i, system) ==
  LET found == RefIncludes[system[CppInFile(i)]]
      first == {RefFile(i, CppInFile(i), found[k], DOMAIN system \cup OwnPchs) :
                  k \in DOMAIN found \cap {1}}
  IN IF SearchesForPch(i) THEN (first \cap OwnPchs) \ RefBefore(i, system) ELSE {}

RefDependencies ==
  [system \in FileSystems |->
     [i \in {i \in Compiled : CppInFile(i) \in DOMAIN system} |->
        {PchOf(file) : file \in RefPch(i, system)}
        \cup RefBefore(i, system)
        \cup RefClosure(i, system, RefNested(i, system, CppInFile(i)), RefPch(i, system))]]

-----------------------------------------------------------------------------
(***************************************************************************)
(* When the parser can be expected to find the same.  The options that it  *)
(* has parsed are those on the command line, and all that are compiled     *)
(* search the same directories.                                            *)
(***************************************************************************)
IsSeq(s) == s \in Seq(ToSet(s))

OptionsAgree ==
  \A i \in Compiled :
    /\ IsSeq(invocation[i].dirsI) /\ IsSeq(invocation[i].dirsIquote)
    /\ IsSeq(invocation[i].dirsIsystem) /\ IsSeq(invocation[i].filesI)
    /\ RefChain[i] = invocation[i].dirsI \o invocation[i].dirsIsystem
    /\ RefQuoteChain[i] = invocation[i].dirsIquote \o RefChain[i]
    /\ RefExplicit[i] = ToSet(invocation[i].filesI)
    /\ \A j \in Compiled :
         /\ invocation[i].dirsI = invocation[j].dirsI
         /\ invocation[i].dirsIquote = invocation[j].dirsIquote
         /\ invocation[i].dirsIsystem = invocation[j].dirsIsystem

(***************************************************************************)
(* Files in which the scan finds each #include that counts, and where an   *)
(* #include_next stands only in directories that are searched, and not     *)
(* after one that looks like it.                                           *)
(***************************************************************************)
OrdinaryFile(system, file) ==
  LET found == RefStatements(system[file]) IN
    /\ collectIncludeStatementsInFile(system[file]) = found
    /\ IsSeq(found)
    /\ \A inc \in ToSet(found) :
         /\ inc \in [kind : {"#include"}, form : {"quote", "angle", "next"}, arg : {inc.arg},
                     pch : {FALSE}]
         /\ inc.arg # "nocc-pch"
         /\ inc.form = "next" =>
              \A i \in Compiled : \E k \in DOMAIN RefChain[i] :
                /\ RefChain[i][k] = file[1]
                /\ \A n \in 1..(k-1) : ~ Within(file[1], RefChain[i][n])

(***************************************************************************)
(* An own pch lies beside a header that is no header of the system, nor    *)
(* included by one, nor given with -include.                               *)
(***************************************************************************)
OrdinaryPch(system, file) ==
  /\ file \in DOMAIN system /\ PchOf(file) \notin DOMAIN system \cup {None}
  /\ \A i \in Compiled :
       /\ file \notin RefExplicit[i] /\ ~ shouldCacheHFile(i, file)
       /\ \A header \in DOMAIN system :
            shouldCacheHFile(i, header) => file \notin RefNested(i, system, header)

OrdinarySystems ==
  /\ Predef # "nocc-pch"
  /\ \A system \in FileSystems :
       /\ None \notin DOMAIN system
       /\ \A file \in DOMAIN system : OrdinaryFile(system, file)
       /\ \A file \in OwnPchs : OrdinaryPch(system, file)
       /\ \A i \in Compiled : RefExplicit[i] \subseteq DOMAIN system

Agreeing == OptionsAgree /\ OrdinarySystems

\* Sources with the same text are compiled alike.
SourcesAgree ==
  \A system \in FileSystems, i, j \in Compiled :
    /\ {CppInFile(i), CppInFile(j)} \subseteq DOMAIN system
    /\ system[CppInFile(i)] = system[CppInFile(j)]
    => /\ Cwd[i] = Cwd[j] /\ invocation[i].filesI = invocation[j].filesI
       /\ SearchesForPch(i) = SearchesForPch(j)

\* What the command line says about a .d file, in its own words.
RefGiven(i, key) == \E k \in DOMAIN CmdLine[i] : CmdLine[i][k][1] = key

(***************************************************************************)
(* The options for the .d file that are parsed are those that are given,   *)
(* and no other dir looks as if it were inside one of the compiler's.      *)
(***************************************************************************)
DepsAgree ==
  /\ \A i \in Compiled :
       LET deps == invocation[i].depsFlags
       IN /\ \A key \in {"-MD", "-MMD", "-MP"} : key \in deps.flags <=> RefGiven(i, key)
          /\ RefGiven(i, "-MF") => deps.MF # None
  /\ \A system \in FileSystems : \A file \in DOMAIN system \cup {PchOf(header) : header \in OwnPchs} :
       IsSystemHFile(DefaultDirs, file) => file[1] \in ToSet(DefaultDirs.dirsIsystem)

-----------------------------------------------------------------------------
(***************************************************************************)
(* Invocations whose options agree get, however they interleave on the     *)
(* cache they share, all that the compiler will read, and nothing else:    *)
(* "it should return the same results (or a bit more) as cxx -M"           *)
(* (own-includes-parser.go:425).                                           *)
(***************************************************************************)
FindsWhatCxxFinds ==
  \A i \in Invocations : pc[i] = "done" => ToSet(hFiles[i]) = RefDependencies[files][i]

(***************************************************************************)
(* What the cache tells of a header is what a look at the disk would tell, *)
(* also while others are still reading headers that include each other.    *)
(***************************************************************************)
CacheIsTruth ==
  \A i \in Invocations : pc[i] \in {"collect", "done"} =>
    /\ \A name \in DOMAIN includesResolve :
         includesResolve[name] = RefFile(i, CppInFile(i), Angle(name), DOMAIN files)
    /\ \A file \in DOMAIN hFilesInfo :
         ToSet(hFilesInfo[file]) = RefNested(i, files, file)

(***************************************************************************)
(* "The result is stable from time to time: includes are listed in order   *)
(* of appearance" (own-includes-parser.go:441), each of them once, whether *)
(* they were read or came from the cache.                                  *)
(***************************************************************************)
OrderIsStable ==
  \A i, j \in Invocations :
    /\ Cardinality(ToSet(hFiles[i])) = Len(hFiles[i])
    /\ pc[i] = "done" /\ pc[j] = "done" /\ files[CppInFile(i)] = files[CppInFile(j)]
         => hFiles[i] = hFiles[j]

(***************************************************************************)
(* Whoever asks for a .d file with -MD, -MMD or -MF gets one, and from it  *)
(* make learns all that the compilation depends on, which is all there is  *)
(* but, with -MMD, the headers of the compiler; with -MP a dependency may  *)
(* vanish, because there is a rule for each, but none for the .cpp.        *)
(***************************************************************************)
DepFilesAreComplete ==
  \A i \in Invocations :
    LET targets(rules) == [k \in DOMAIN rules |-> rules[k].targets]
    IN /\ depFile[i] # None =>
            \E depends \in {RefDependencies[files][i]} :
              LET system == {file \in depends : file[1] \in ToSet(DefaultDirs.dirsIsystem)}
                  expected == depends \ (IF RefGiven(i, "-MMD") THEN system ELSE {})
              IN /\ ToSet(depFile[i].rules[1].depList) = expected \cup {CppInFile(i)}
                 /\ ToSet(targets(Tail(depFile[i].rules))) =
                      IF RefGiven(i, "-MP") THEN {<<file>> : file \in expected} ELSE {}
       /\ /\ Finished(i) /\ pc[i] = "done"
          /\ \E key \in {"-MD", "-MMD", "-MF"} : RefGiven(i, key)
          => depFile[i] # None

=============================================================================
