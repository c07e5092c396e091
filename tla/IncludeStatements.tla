------------------------- MODULE IncludeStatements --------------------------
(***************************************************************************)
(* How the own includes parser finds the #include directives of a file.    *)
(*                                                                         *)
(* A file is a sequence of tokens.  An #include is one token with its      *)
(* argument, other directives are "#if" and "#endif", and what matters     *)
(* besides is "//", "/*", "*/" and the end of a line, "nl".                *)
(***************************************************************************)
EXTENDS Naturals, SequencesExt

IsInclude(token) == token.kind = "#include"
HasHash(token) == token.kind \in {"#include", "#if", "#endif"}
HasSlash(token) == token.kind \in {"//", "/*", "*/"}

(***************************************************************************)
(* Nothing is looked for after the line of the last directive, nor after   *)
(* the one before if that is an #endif.                                    *)
(***************************************************************************)
BufferSize(buffer) ==
  LET Hash == {k \in DOMAIN buffer : HasHash(buffer[k])}
      last == IF Hash = {} THEN 0 ELSE Max(Hash)
      lastHash == IF last > 0 /\ buffer[last].kind = "#endif"
                  THEN Max({0} \cup (Hash \ {last})) ELSE last
      Newlines == {k \in DOMAIN buffer : k > lastHash /\ buffer[k].kind = "nl"}
  IN IF lastHash = 0 \/ Newlines = {} THEN Len(buffer) ELSE Min(Newlines)

\* Stands for what a scan never gets to.
Endless == [kind |-> "endless"]

(***************************************************************************)
(* The scan from an offset on.  It looks for the next '#' and skips the    *)
(* comments that begin before it.  A line comment without the end of its   *)
(* line sends it back to the start of the file, where it finds the same:   *)
(* it is in an endless loop.                                               *)
(***************************************************************************)
collectIncludeStatementsInFile(buffer) ==
  LET bufferSize == BufferSize(buffer)
      First(k, Test(_)) == Min({n \in k..bufferSize : Test(buffer[n])} \cup {bufferSize + 1})
      scan[k \in 1..(bufferSize + 2)] ==
        LET nextHash == First(k, HasHash)
            nextSlash == First(k, HasSlash)
            newLine == First(nextSlash, LAMBDA t : t.kind = "nl")
            closing == First(nextSlash, LAMBDA t : t.kind = "*/")
        IN CASE nextHash > bufferSize -> <<>>
             [] nextHash < nextSlash ->
                  (IF IsInclude(buffer[nextHash]) THEN <<buffer[nextHash]>> ELSE <<>>)
                    \o scan[nextHash + 1]
             [] nextSlash < nextHash /\ buffer[nextSlash].kind = "//" ->
                  IF newLine > bufferSize THEN <<Endless>> ELSE scan[newLine + 1]
             [] nextSlash < nextHash /\ buffer[nextSlash].kind = "/*" ->
                  IF closing > bufferSize THEN <<>> ELSE scan[closing + 1]
             [] nextSlash < nextHash /\ buffer[nextSlash].kind = "*/" -> scan[nextSlash + 1]
  IN scan[1]

(***************************************************************************)
(* The reference: an #include counts unless the last comment that begins   *)
(* before it, outside any other, is still open.                            *)
(***************************************************************************)
RefStatements(buffer) ==
  LET from[k \in 1..(Len(buffer) + 1), open \in {"none", "//", "/*"}] ==
        IF k > Len(buffer) THEN <<>>
        ELSE CASE open = "none" /\ buffer[k].kind \in {"//", "/*"} -> from[k+1, buffer[k].kind]
               [] open = "none" /\ IsInclude(buffer[k]) -> <<buffer[k]>> \o from[k+1, open]
               [] open = "//" /\ buffer[k].kind = "nl" -> from[k+1, "none"]
               [] open = "/*" /\ buffer[k].kind = "*/" -> from[k+1, "none"]
               [] OTHER -> from[k+1, open]
  IN from[1, "none"]

=============================================================================
