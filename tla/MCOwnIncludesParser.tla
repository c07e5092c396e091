------------------------ MODULE MCOwnIncludesParser -------------------------
(***************************************************************************)
(* Instances of OwnIncludesParser for TLC: a directory of the project, a   *)
(* system directory inside another, headers that may or may not exist,     *)
(* include each other, or hide their #include behind comments.             *)
(***************************************************************************)
EXTENDS OwnIncludesParser

CONSTANTS i1, i2, i3, i4,                      \* invocations
          src, inc, inc2, cxx, sys,    \* directories
          xcpp, ycpp, xobj, xexe, xdep, pgch, a, b, p, q   \* names

Quote(name) == [kind |-> "#include", form |-> "quote", arg |-> name, pch |-> FALSE]
NextOne(name) == [kind |-> "#include", form |-> "next", arg |-> name, pch |-> FALSE]
Tok(kind) == [kind |-> kind]
Line(token) == <<token, Tok("nl")>>

\* #if, an #include, a comment with another one in it, #endif
Guarded(kept, hidden) ==
  Line(Tok("#if")) \o Line(kept) \o <<Tok("/*"), hidden, Tok("nl"), Tok("*/")>>
  \o Line(Tok("#endif"))

\* An #include after a line comment with one.
AfterComment(hidden, kept) == <<Tok("//"), hidden, Tok("nl")>> \o Line(kept)

Both(first, second) == Line(first) \o Line(second)

\* Files that may be missing, with the contents they may have.
Optional == (<<inc, a>> :> Guarded(NextOne(a), Angle(a)))
         @@ (<<inc2, b>> :> Line(Angle(a)))
         @@ (<<cxx, b>> :> AfterComment(Angle(b), Angle(a)))

Always == (<<cxx, a>> :> Both(NextOne(a), Angle(b))) @@ (<<sys, a>> :> Line(Quote(b)))

\* Two sources: with the same text, or with the same headers the other way round.
Sources(text) ==
  (<<src, xcpp>> :> Both(Angle(p), Quote(b))) @@ (<<src, ycpp>> :> text)
  @@ (<<inc, p>> :> Line(Angle(a))) @@ (<<src, q>> :> <<>>)

\* The same text with whatever files there are, the other with all of them.
MCFileSystems ==
  {Restrict(Optional, D) @@ Always @@ Sources(Both(Angle(p), Quote(b))) :
     D \in SUBSET DOMAIN Optional}
  \cup {Optional @@ Always @@ Sources(Both(Quote(b), Angle(p)))}

MCDefaultDirs ==
  [dirsI |-> <<>>, dirsIquote |-> <<>>, dirsIsystem |-> <<cxx, sys>>, filesI |-> <<>>]

Word(w) == <<"", w>>
Bare(key) == <<key, None>>
Compile(cpp, options) == options \o <<Bare("-c"), Word(cpp), Bare("-o"), Word(xobj)>>

MCSubDirs == {<<cxx, sys>>}

MCCwd == [i \in Invocations |-> src]

MCOwnPchs == {<<inc, p>>}

\* Two sources with the same options, written in two ways, what is linked, and
\* an own pch.
AlikeCmdLine ==
  (i1 :> Compile(xcpp, <<<<"-I", inc>>, Bare("-Wall"), Bare("-iquote"), Word(inc2),
                         Bare("-include"), Word(q), Bare("-MMD"), Bare("-MP")>>)) @@
  (i2 :> Compile(ycpp, <<Bare("-Xclang"), Bare("-I"), Bare("-Xclang"), Word(inc),
                         <<"-iquote", inc2>>, <<"-include", q>>, Bare("-MD"), Bare("-MT"),
                         Word(xexe), Bare("-MF"), Word(xdep)>>)) @@
  (i3 :> <<Bare("-o"), Word(xexe), Word(xobj)>>) @@
  (i4 :> <<<<"-I", inc>>, <<"-iquote", inc2>>, Word(q), Bare("-o"), Word(pgch)>>)

\* What is proved of such instances holds of this one.
ASSUME InstanceAgrees == Agreeing /\ SourcesAgree /\ DepsAgree

=============================================================================
