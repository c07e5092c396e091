----------------------------- MODULE ObjCacheKey ------------------------------
(***************************************************************************)
(* When the server answers a session with a .o that was compiled before:   *)
(* the key of the obj cache, and the sessions that look it up and save     *)
(* under it.  What the cache does with its entries is FileCache.           *)
(*                                                                         *)
(* A sha256 stands for the contents of a file and so for its size; two     *)
(* contents never have the same one.                                       *)
(***************************************************************************)
EXTENDS Naturals, SequencesExt

CONSTANTS
  Sessions,
  Contents,     \* what may be in a file, for each file
  Cpp,          \* the .cpp, by its name without the directory
  Headers,      \* a sequence: what the .cpp includes, in order of appearance
  CxxArgs,      \* what a session may be compiled with: sequences of words
  WithCoverage  \* sessions with coverage: their .o is not for the cache

VARIABLES
  disk,        \* what is in the files of the client
  objCache,    \* the objects by their keys
  status,      \* "new", "compiling" or "closed", of a session
  session,     \* its arguments and the contents of its files, or None
  answered     \* the object that it was answered with, or None

vars == <<disk, objCache, status, session, answered>>

None == "none"
Files == {Cpp} \cup ToSet(Headers)

Init ==
  /\ disk \in [Files -> UNION {Contents[file] : file \in Files}]
  /\ \A file \in Files : disk[file] \in Contents[file]
  /\ objCache = <<>>
  /\ status = [s \in Sessions |-> "new"]
  /\ session = [s \in Sessions |-> None]
  /\ answered = [s \in Sessions |-> None]

\* The xor of some numbers: what is there an even number of times cancels out.
Xor(numbers) ==
  {n \in ToSet(numbers) : Cardinality({k \in DOMAIN numbers : numbers[k] = n}) % 2 = 1}

(***************************************************************************)
(* MakeObjCacheKey: the arguments are hashed one after the other without a *)
(* separator, and their count apart; the files of the session are xored.   *)
(***************************************************************************)
MakeObjCacheKey(cxxArgs, sessionFiles) ==
  [hash |-> <<FlattenSeq(cxxArgs), Cpp>>, argsCount |-> Len(cxxArgs),
   filesCount |-> Len(sessionFiles), xor |-> Xor(sessionFiles)]

\* What a compiler makes of it.
Compiled(s) == [cxxArgs |-> s.cxxArgs, files |-> s.files]

KeyOf(s) == MakeObjCacheKey(s.cxxArgs, s.files)

\* What the .cpp includes and itself, as they are now.
SessionFiles == [k \in DOMAIN Headers |-> disk[Headers[k]]] \o <<disk[Cpp]>>

Edit(file) ==
  /\ \E contents \in Contents[file] \ {disk[file]} : disk' = [disk EXCEPT ![file] = contents]
  /\ UNCHANGED <<objCache, status, session, answered>>

\* A hit is closed with the .o of the cache, nothing is uploaded or compiled.
StartCompilationSession(s) ==
  /\ status[s] = "new"
  /\ \E cxxArgs \in CxxArgs :
       LET new == [cxxArgs |-> cxxArgs, files |-> SessionFiles]
           hit == s \notin WithCoverage /\ KeyOf(new) \in DOMAIN objCache
       IN /\ session' = [session EXCEPT ![s] = new]
          /\ status' = [status EXCEPT ![s] = IF hit THEN "closed" ELSE "compiling"]
          /\ answered' = IF hit THEN [answered EXCEPT ![s] = objCache[KeyOf(new)]] ELSE answered
  /\ UNCHANGED <<disk, objCache>>

\* The .o is saved unless the compiler had something to say, or another is there.
EndCompiling(s) ==
  /\ status[s] = "compiling"
  /\ status' = [status EXCEPT ![s] = "closed"]
  /\ answered' = [answered EXCEPT ![s] = Compiled(session[s])]
  /\ \E silent \in BOOLEAN :
       objCache' = IF s \in WithCoverage \/ ~ silent THEN objCache
                   ELSE objCache @@ (KeyOf(session[s]) :> Compiled(session[s]))
  /\ UNCHANGED <<disk, session>>

Next ==
  \/ \E file \in Files : Edit(file)
  \/ \E s \in Sessions : StartCompilationSession(s) \/ EndCompiling(s)

Spec == Init /\ [][Next]_vars

-----------------------------------------------------------------------------
(***************************************************************************)
(* "We want to reuse a ready .o file if and only if" the .cpp and all its  *)
(* dependencies "are the same (their count, order, size, sha256)" and the  *)
(* options are (obj-cache.go:40-43): whatever is edited between sessions,  *)
(* each is answered with the .o of its own files.                          *)
(***************************************************************************)
ReusedOnlyIfTheSame ==
  \A s \in Sessions : status[s] = "closed" => answered[s] = Compiled(session[s])

=============================================================================
