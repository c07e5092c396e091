------------------------------ MODULE DepFiles -------------------------------
(***************************************************************************)
(* The .d file that the daemon writes in the place of the compiler: its    *)
(* -M options are not sent to a server.                                    *)
(*                                                                         *)
(* A rule is a target with what it depends on.  Names have no spaces or    *)
(* other characters that make would need escaped.                          *)
(***************************************************************************)
EXTENDS CommandLine

CONSTANTS
  SubDirs   \* <<sub, dir>>: a dir whose path continues that of another

\* strings.HasPrefix of paths: a path in dir starts with that of `of', too.
Within(dir, of) == dir = of \/ <<dir, of>> \in SubDirs

\* Mutant of ShouldGenerateDepFile: -MMD is taken for a modifier of -MD.
OnlyMDGenerates(deps) == "-MD" \in deps.flags \/ deps.MF # None

ShouldGenerateDepFile(deps) == deps.flags \cap {"-MD", "-MMD"} # {} \/ deps.MF # None

TargetName(inv) ==
  IF inv.depsFlags.targets # <<>> THEN inv.depsFlags.targets ELSE <<inv.objOutFile>>

\* The .d beside the .o unless -MF names another.
OutputDepFileName(inv, cwd) ==
  IF inv.depsFlags.MF # None THEN inv.depsFlags.MF ELSE <<pathAbs(cwd, inv.objOutFile), ".d">>

IsSystemHFile(cxxDefIDirs, file) ==
  \E dir \in ToSet(cxxDefIDirs.dirsIsystem) : Within(file[1], dir)

filterOutSystemHFiles(cxxDefIDirs, hFiles) ==
  LET kept[k \in 0..Len(hFiles)] ==   \* of the first k
        IF k = 0 THEN <<>>
        ELSE IF IsSystemHFile(cxxDefIDirs, hFiles[k]) THEN kept[k-1]
        ELSE Append(kept[k-1], hFiles[k])
  IN kept[Len(hFiles)]

DepListFromHFiles(inv, cppFile, cxxDefIDirs, hFiles) ==
  <<cppFile>> \o IF "-MMD" \in inv.depsFlags.flags
                 THEN filterOutSystemHFiles(cxxDefIDirs, hFiles) ELSE hFiles

Rule(targets, depList) == [targets |-> targets, depList |-> depList]

(***************************************************************************)
(* GenerateAndSaveDepFile: with -MP each dependency but the .cpp is the    *)
(* target of a rule that depends on nothing, too.                          *)
(***************************************************************************)
GeneratedDepFile(inv, cwd, cppFile, cxxDefIDirs, hFiles) ==
  LET depList == DepListFromHFiles(inv, cppFile, cxxDefIDirs, hFiles)
      phony == [k \in DOMAIN Tail(depList) |-> Rule(<<Tail(depList)[k]>>, <<>>)]
  IN [name |-> OutputDepFileName(inv, cwd),
      rules |-> <<Rule(TargetName(inv), depList)>>
                \o IF "-MP" \in inv.depsFlags.flags THEN phony ELSE <<>>]

=============================================================================
