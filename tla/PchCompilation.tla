--------------------------- MODULE PchCompilation ---------------------------
(***************************************************************************)
(* How nocc-server turns a .nocc-pch file into a real .gch: one hash of    *)
(* own pch, which several clients upload, each of them maybe more than     *)
(* once.                                                                   *)
(*                                                                         *)
(* Nothing but the existence of its directory says that a pch is being     *)
(* compiled, and the mutex of PchCompilation only protects the list.  A    *)
(* file keeps its identity when its name is removed or linked elsewhere:   *)
(* a .gch is named by the upload whose compiler has created it.            *)
(***************************************************************************)
EXTENDS Naturals, FiniteSets

CONSTANTS
  Uploads,    \* uploads of a .nocc-pch with the hash
  Clients,
  ClientOf,   \* who uploads it
  NoPch       \* "no file"

ASSUME PchAssumption ==
  /\ ClientOf \in [Uploads -> Clients]
  /\ NoPch \notin Uploads

VARIABLES
  stage,      \* where CompileOwnPchOnServer is for an upload
  rootDir,    \* whether rootDir exists
  pchFile,    \* the file at realPchFile
  writers,    \* the compilers that have opened a file for writing
  finished,   \* uploads whose compiler has ended with code 0
  listed,     \* compiledPchList has the hash
  inSrcCache, \* src cache has the .nocc-pch
  fileState,  \* state of the .nocc-pch of a client
  linking,    \* clients that are to be given the .gch of a .nocc-pch from src cache
  linked,     \* the .gch in the directory of a client
  crossed,    \* history: two uploads were busy in rootDir at the same time
  again       \* history: uploads that compile what was listed when they came

pchVars == <<stage, rootDir, pchFile, writers, finished, listed, inSrcCache, fileState,
             linking, linked, crossed, again>>

PchInit ==
  /\ stage = [u \in Uploads |-> "idle"]
  /\ rootDir = FALSE /\ pchFile = NoPch
  /\ writers = [u \in Uploads |-> {}] /\ finished = {}
  /\ listed = FALSE /\ inSrcCache = FALSE
  /\ fileState = [c \in Clients |-> "created"]
  /\ linking = {} /\ linked = [c \in Clients |-> NoPch]
  /\ crossed = FALSE /\ again = {}

Proceed(u, from, to) ==
  /\ stage[u] = from
  /\ stage' = [stage EXCEPT ![u] = to]

InRootDir == {u \in Uploads : stage[u] \in {"remove", "extract", "compile", "compiling", "list"}}

(***************************************************************************)
(* StartCompilationSession: a .nocc-pch from src cache is taken for        *)
(* uploaded at once, and only then its .gch is linked, if there is one: an *)
(* error is ignored.  A file that isn't in src cache is to be uploaded,    *)
(* again after an error or when it seems to hang.                          *)
(***************************************************************************)
StartFromSrcCache(c) ==
  /\ inSrcCache /\ fileState[c] = "created"
  /\ fileState' = [fileState EXCEPT ![c] = "uploaded"]
  /\ linking' = linking \cup {c}
  /\ UNCHANGED <<stage, rootDir, pchFile, writers, finished, listed, inSrcCache, linked,
                 crossed, again>>

\* CreateHardLinkFromRealPch has a file to link and a free name for it.
CanLink(c) == listed /\ pchFile # NoPch /\ linked[c] = NoPch

LinkFromSrcCache(c) ==
  /\ c \in linking
  /\ linking' = linking \ {c}
  /\ linked' = IF CanLink(c) THEN [linked EXCEPT ![c] = pchFile] ELSE linked
  /\ UNCHANGED <<stage, rootDir, pchFile, writers, finished, listed, inSrcCache, fileState,
                 crossed, again>>

\* Mutant of Receive: it goes to the src cache on arrival.
ReceiveAndSave(u) ==
  LET c == ClientOf[u] IN
    /\ fileState[c] \in {"created", "uploading", "error"}
    /\ Proceed(u, "idle", "stat")
    /\ fileState' = [fileState EXCEPT ![c] = "uploading"]
    /\ inSrcCache' = TRUE
    /\ UNCHANGED <<rootDir, pchFile, writers, finished, listed, linking, linked, crossed, again>>

Receive(u) ==
  LET c == ClientOf[u] IN
    /\ \/ fileState[c] = "created" /\ ~ inSrcCache
       \/ fileState[c] \in {"uploading", "error"}
    /\ Proceed(u, "idle", "stat")
    /\ fileState' = [fileState EXCEPT ![c] = "uploading"]
    /\ UNCHANGED <<rootDir, pchFile, writers, finished, listed, inSrcCache, linking, linked,
                   crossed, again>>

Fail(u) == fileState' = [fileState EXCEPT ![ClientOf[u]] = "error"]

\* ParseOwnPchFile can't make anything of the file.
ParseFails(u) ==
  /\ Proceed(u, "stat", "failed")
  /\ Fail(u)
  /\ UNCHANGED <<rootDir, pchFile, writers, finished, listed, inSrcCache, linking, linked,
                 crossed, again>>

(***************************************************************************)
(* "If rootDir already exists then another client already started (and     *)
(* maybe finished) compiling this pch": to look and to create it are two   *)
(* steps.                                                                  *)
(***************************************************************************)
StatRootDir(u) ==
  /\ Proceed(u, "stat", IF rootDir THEN "wait" ELSE "extract")
  /\ crossed' = (crossed \/ (~ rootDir /\ InRootDir # {}))
  /\ again' = IF ~ rootDir /\ listed THEN again \cup {u} ELSE again
  /\ UNCHANGED <<rootDir, pchFile, writers, finished, listed, inSrcCache, fileState, linking,
                 linked>>

\* waitUntilCompiled returns true.
SeeListed(u) ==
  /\ listed
  /\ Proceed(u, "wait", "link")
  /\ UNCHANGED <<rootDir, pchFile, writers, finished, listed, inSrcCache, fileState, linking,
                 linked, crossed, again>>

\* Mutant of GiveUpWaiting: no end of the ten seconds.
WaitWithoutEnd(u) == SeeListed(u)

\* It returns false: the list had no such hash when the ten seconds were over.
GiveUpWaiting(u) ==
  /\ ~ listed
  /\ Proceed(u, "wait", "remove")
  /\ crossed' = (crossed \/ InRootDir # {})
  /\ UNCHANGED <<rootDir, pchFile, writers, finished, listed, inSrcCache, fileState, linking,
                 linked, again>>

RemoveRootDir(u) ==
  /\ Proceed(u, "remove", "extract")
  /\ rootDir' = FALSE /\ pchFile' = NoPch
  /\ UNCHANGED <<writers, finished, listed, inSrcCache, fileState, linking, linked, crossed,
                 again>>

(***************************************************************************)
(* ExtractAllDepsToRootDir makes the directory first; what follows may     *)
(* fail and leaves it.                                                     *)
(***************************************************************************)
ExtractAllDeps(u) ==
  /\ rootDir' = TRUE
  /\ \/ Proceed(u, "extract", "compile") /\ UNCHANGED fileState
     \/ Proceed(u, "extract", "failed") /\ Fail(u)
  /\ UNCHANGED <<pchFile, writers, finished, listed, inSrcCache, linking, linked, crossed,
                 again>>

\* Mutant of StartCompiling: the pch is listed before it is compiled.
StartCompilingListed(u) ==
  /\ rootDir
  /\ Proceed(u, "compile", "compiling")
  /\ listed' = TRUE
  /\ pchFile' = IF pchFile = NoPch THEN u ELSE pchFile
  /\ writers' = [writers EXCEPT ![pchFile'] = @ \cup {u}]
  /\ UNCHANGED <<rootDir, finished, inSrcCache, fileState, linking, linked, crossed, again>>

(***************************************************************************)
(* The compiler opens its output: a file that is there is truncated and    *)
(* shared with the one that writes it.  In a directory that isn't there    *)
(* any more it can't be started.                                           *)
(***************************************************************************)
StartCompiling(u) ==
  /\ rootDir
  /\ Proceed(u, "compile", "compiling")
  /\ pchFile' = IF pchFile = NoPch THEN u ELSE pchFile
  /\ writers' = [writers EXCEPT ![pchFile'] = @ \cup {u}]
  /\ UNCHANGED <<rootDir, finished, listed, inSrcCache, fileState, linking, linked, crossed,
                 again>>

CannotStart(u) ==
  /\ ~ rootDir
  /\ Proceed(u, "compile", "failed")
  /\ Fail(u)
  /\ UNCHANGED <<rootDir, pchFile, writers, finished, listed, inSrcCache, linking, linked,
                 crossed, again>>

\* A compiler that fails removes the file it was told to write; rootDir stays.
EndCompiling(u) ==
  \/ /\ Proceed(u, "compiling", "list")
     /\ finished' = finished \cup {u}
     /\ UNCHANGED <<rootDir, pchFile, writers, listed, inSrcCache, fileState, linking, linked,
                    crossed, again>>
  \/ /\ Proceed(u, "compiling", "failed")
     /\ pchFile' = NoPch
     /\ Fail(u)
     /\ UNCHANGED <<rootDir, writers, finished, listed, inSrcCache, linking, linked, crossed,
                    again>>

\* Mutant of AddToList: nobody learns of the compilation.
AddNothing(u) ==
  /\ Proceed(u, "list", "link")
  /\ UNCHANGED <<rootDir, pchFile, writers, finished, listed, inSrcCache, fileState, linking,
                 linked, crossed, again>>

AddToList(u) ==
  /\ Proceed(u, "list", "link")
  /\ listed' = TRUE
  /\ UNCHANGED <<rootDir, pchFile, writers, finished, inSrcCache, fileState, linking, linked,
                 crossed, again>>

(***************************************************************************)
(* CreateHardLinkFromRealPch fails when there is no .gch any more, and     *)
(* when the client has one already.                                        *)
(***************************************************************************)
CreateHardLink(u) ==
  LET c == ClientOf[u] IN
    \/ /\ CanLink(c)
       /\ Proceed(u, "link", "linked")
       /\ linked' = [linked EXCEPT ![c] = pchFile]
       /\ UNCHANGED <<rootDir, pchFile, writers, finished, listed, inSrcCache, fileState,
                      linking, crossed, again>>
    \/ /\ ~ CanLink(c)
       /\ Proceed(u, "link", "failed")
       /\ Fail(u)
       /\ UNCHANGED <<rootDir, pchFile, writers, finished, listed, inSrcCache, linking,
                      linked, crossed, again>>

(***************************************************************************)
(* The rest of UploadFileStream: the file is uploaded, which the client is *)
(* told; then it goes to src cache, which may fail.                        *)
(***************************************************************************)
FileUploaded(u) ==
  /\ Proceed(u, "linked", "save")
  /\ fileState' = [fileState EXCEPT ![ClientOf[u]] = "uploaded"]
  /\ UNCHANGED <<rootDir, pchFile, writers, finished, listed, inSrcCache, linking, linked,
                 crossed, again>>

SaveFileToCache(u) ==
  /\ Proceed(u, "save", "done")
  /\ inSrcCache' \in {inSrcCache, TRUE}
  /\ UNCHANGED <<rootDir, pchFile, writers, finished, listed, fileState, linking, linked,
                 crossed, again>>

Compile(u) ==
  \/ ParseFails(u) \/ StatRootDir(u) \/ SeeListed(u) \/ GiveUpWaiting(u) \/ RemoveRootDir(u)
  \/ ExtractAllDeps(u) \/ StartCompiling(u) \/ CannotStart(u) \/ EndCompiling(u)
  \/ AddToList(u) \/ CreateHardLink(u) \/ FileUploaded(u) \/ SaveFileToCache(u)

PchNext ==
  \/ \E u \in Uploads : Receive(u) \/ Compile(u)
  \/ \E c \in Clients : StartFromSrcCache(c) \/ LinkFromSrcCache(c)

PchSpec == PchInit /\ [][PchNext]_pchVars

\* A handler goes on, ten seconds pass, and a compiler ends.
PchFairSpec == PchSpec /\ \A u \in Uploads : WF_pchVars(Compile(u))

-----------------------------------------------------------------------------
PchTypeOK ==
  /\ stage \in [Uploads -> {"idle", "stat", "wait", "remove", "extract", "compile",
                            "compiling", "list", "link", "linked", "save", "done", "failed"}]
  /\ rootDir \in BOOLEAN /\ listed \in BOOLEAN /\ inSrcCache \in BOOLEAN
  /\ pchFile \in Uploads \cup {NoPch}
  /\ pchFile # NoPch => rootDir
  /\ writers \in [Uploads -> SUBSET Uploads]
  /\ finished \subseteq Uploads /\ again \subseteq Uploads
  /\ fileState \in [Clients -> {"created", "uploading", "uploaded", "error"}]
  /\ linking \subseteq Clients
  /\ linked \in [Clients -> Uploads \cup {NoPch}]
  /\ crossed \in BOOLEAN

(***************************************************************************)
(* Unless two uploads were busy with it at the same time, a .gch that a    *)
(* client can use was written by one compiler, which has ended well; a     *)
(* compilation that failed before, and was done again by one who waited    *)
(* for it in vain, leaves nothing behind.                                  *)
(***************************************************************************)
LinkedIsComplete ==
  \A c \in Clients :
    ~ crossed /\ linked[c] # NoPch
      => writers[linked[c]] = {linked[c]} /\ linked[c] \in finished

(***************************************************************************)
(* Under the same condition a .nocc-pch that is taken for uploaded has its *)
(* .gch beside it.  One from src cache is taken for uploaded before the    *)
(* link (nocc-server.go:188, :191), so until its session has made the link *)
(* it may lack it, and not longer: the error that is ignored there does    *)
(* not happen.  UploadedIsUsable says it without that window.              *)
(***************************************************************************)
UploadedHasPch ==
  \A c \in Clients \ linking :
    ~ crossed /\ fileState[c] = "uploaded" => linked[c] # NoPch

(***************************************************************************)
(* "The pch would be uploaded and compiled remotely only once"             *)
(* (own-pch-files.go:47): under the same condition one compiler at most    *)
(* ends well, and nobody who comes later compiles it again.                *)
(***************************************************************************)
CompiledOnce == ~ crossed => Cardinality(finished) <= 1 /\ again = {}

(***************************************************************************)
(* Every upload of a pch gets its answer, in particular one that waits for *)
(* a compilation that has failed.                                          *)
(***************************************************************************)
EveryUploadIsAnswered ==
  \A u \in Uploads : (stage[u] = "stat") ~> (stage[u] \in {"save", "done", "failed"})

(***************************************************************************)
(* "The first call created dir and started cxx, and the second call has    *)
(* just to wait until a resulting .gch/.pch becomes existing"              *)
(* (pch-compilation.go:100).                                               *)
(***************************************************************************)
OneCompilesAtATime == Cardinality({u \in Uploads : stage[u] = "compiling"}) <= 1

(***************************************************************************)
(* "This makes #include "all-headers.h" inside 1.cpp work as expected"     *)
(* (pch-compilation.go:118): a session starts the compiler when the state  *)
(* of each of its files is uploaded, so there has to be a .gch then.       *)
(***************************************************************************)
UploadedIsUsable ==
  \A c \in Clients : ~ crossed /\ fileState[c] = "uploaded" => linked[c] # NoPch

(***************************************************************************)
(* "we recreate /path/to/all-headers.h and /path/to/all-headers.gch as     *)
(* hard links" (pch-compilation.go:117): also for a client that uploads    *)
(* its .nocc-pch once more, because the first upload seemed to hang.       *)
(***************************************************************************)
CompiledIsLinked == \A u \in Uploads : ~ crossed /\ stage[u] = "link" => CanLink(ClientOf[u])

=============================================================================
