-------------------------- MODULE SessionAdmission --------------------------
(***************************************************************************)
(* How nocc-server lets a compilation session in: StartCompilationSession  *)
(* up to the point where it looks at files, and the caches of what the     *)
(* server's compilers are, filled by the first sessions that ask.          *)
(*                                                                         *)
(* One compiler name.  The outcome of running the compiler isn't always    *)
(* the same, because its run may time out.                                 *)
(***************************************************************************)
EXTENDS ClientsStorage

CONSTANTS
  Sessions,          \* StartCompilationSession calls
  CoverageSessions,  \* those with a CoverageObjFile
  Untargeted,        \* those whose client doesn't know its own target
  CxxOutcomes,       \* what a run of `cxx -dumpmachine` may tell here
  CoverageOutcomes   \* what the coverage probe may tell here

ASSUME SessionAdmissionAssumption ==
  /\ CoverageSessions \subseteq Sessions /\ Untargeted \subseteq Sessions
  /\ None \notin Sessions
  /\ CxxOutcomes \subseteq {"same", "other", "undetected", "missing"}
  /\ CoverageOutcomes \subseteq {"same", "other", "broken"}

VARIABLES
  step,           \* where a session's handler is
  client,         \* the client it has found
  byName,         \* CxxCapabilityCache.byName
  detected,       \* history: all that detectCxxCapability has told
  coverageMu,     \* who holds it
  coverageByName, \* CxxCapabilityCache.coverageByName
  probes,         \* history: how often probeCoverage ran
  dirsMade        \* clients with something in client.dirs

admissionVars == <<step, client, byName, detected, coverageMu, coverageByName,
                   probes, dirsMade>>
vars == <<storageVars, admissionVars>>

Init ==
  /\ StorageInit
  /\ step = [s \in Sessions |-> "idle"]
  /\ client = [s \in Sessions |-> None]
  /\ byName = "unknown" /\ detected = {}
  /\ coverageMu = None /\ coverageByName = "unknown" /\ probes = 0
  /\ dirsMade = {}

Step(s, from, to) ==
  /\ ~ panicked
  /\ step[s] = from
  /\ step' = [step EXCEPT ![s] = to]

\* A client that doesn't know its target is served for whichever.
Suits(s) == {"same", "undetected"} \cup (IF s \in Untargeted THEN {"other"} ELSE {})

AfterCxx(s, capability) ==
  IF capability \notin Suits(s) THEN "refused"
  ELSE IF s \in CoverageSessions THEN "coverage" ELSE "create"

(***************************************************************************)
(* A client that is not in the table gets Unauthenticated.                 *)
(***************************************************************************)
FindClient(s) ==
  /\ Step(s, "idle", IF table = None THEN "refused" ELSE "check")
  /\ client' = [client EXCEPT ![s] = table]
  /\ UNCHANGED <<storageVars, byName, detected, coverageMu, coverageByName, probes, dirsMade>>

(***************************************************************************)
(* CheckCompilerMatchesClient: what is known of the compiler counts; else  *)
(* it is run, by every session that comes before the first has stored what *)
(* it told.                                                                *)
(***************************************************************************)
CheckKnownCompiler(s) ==
  /\ byName # "unknown"
  /\ Step(s, "check", AfterCxx(s, byName))
  /\ UNCHANGED <<storageVars, client, byName, detected, coverageMu, coverageByName,
                 probes, dirsMade>>

\* Mutant of StartDetecting: the result is entered before it is known.
StartDetectingEarly(s) ==
  /\ byName = "unknown"
  /\ Step(s, "check", "detect")
  /\ byName' = "undetected"
  /\ UNCHANGED <<storageVars, client, detected, coverageMu, coverageByName, probes, dirsMade>>

StartDetecting(s) ==
  /\ byName = "unknown"
  /\ Step(s, "check", "detect")
  /\ UNCHANGED <<storageVars, client, byName, detected, coverageMu, coverageByName,
                 probes, dirsMade>>

Detect(s) ==
  \E capability \in CxxOutcomes :
    /\ Step(s, "detect", AfterCxx(s, capability))
    /\ byName' = capability
    /\ detected' = detected \cup {capability}
    /\ UNCHANGED <<storageVars, client, coverageMu, coverageByName, probes, dirsMade>>

\* Mutant of EnterCoverage: another probe of the compiler is not waited for.
EnterCoverageUnlocked(s) ==
  /\ Step(s, "coverage", "probe")
  /\ UNCHANGED <<storageVars, client, byName, detected, coverageMu, coverageByName,
                 probes, dirsMade>>

(***************************************************************************)
(* CheckCoverageMatchesClient holds its mutex while it probes.             *)
(***************************************************************************)
EnterCoverage(s) ==
  /\ coverageMu = None
  /\ Step(s, "coverage", "probe")
  /\ coverageMu' = s
  /\ UNCHANGED <<storageVars, client, byName, detected, coverageByName, probes, dirsMade>>

AfterCoverage(capability) == IF capability = "same" THEN "create" ELSE "refused"

CheckKnownCoverage(s) ==
  /\ coverageByName # "unknown"
  /\ Step(s, "probe", AfterCoverage(coverageByName))
  /\ coverageMu' = None
  /\ UNCHANGED <<storageVars, client, byName, detected, coverageByName, probes, dirsMade>>

StartProbingCoverage(s) ==
  /\ coverageByName = "unknown"
  /\ Step(s, "probe", "probing")
  /\ probes' = probes + 1
  /\ UNCHANGED <<storageVars, client, byName, detected, coverageMu, coverageByName, dirsMade>>

EndProbingCoverage(s) ==
  \E capability \in CoverageOutcomes :
    /\ Step(s, "probing", AfterCoverage(capability))
    /\ coverageByName' = capability
    /\ coverageMu' = None
    /\ UNCHANGED <<storageVars, client, byName, detected, probes, dirsMade>>

(***************************************************************************)
(* CreateNewSession, for the client found before, and MkdirAllForSession:  *)
(* the directories of the session that the client doesn't have yet, all of *)
(* them for its first session, are made, the working directory with them   *)
(* if it is not there any more.                                            *)
(***************************************************************************)
CreateSession(s) ==
  /\ \/ Step(s, "create", "mkdir")
     \/ client[s] \in dirsMade /\ Step(s, "create", "created")
  /\ UNCHANGED <<storageVars, client, byName, detected, coverageMu, coverageByName, probes,
                 dirsMade>>

MkdirAllForSession(s) ==
  /\ Step(s, "mkdir", "created")
  /\ dirsMade' = dirsMade \cup {client[s]}
  /\ workingDir' = IF workingDir = None THEN Stray ELSE workingDir
  /\ UNCHANGED <<table, closed, oldDirs, inactive, pc, victim, reply, stopping, panicked,
                 atRisk, client, byName, detected, coverageMu, coverageByName, probes>>

(***************************************************************************)
(* lastSeen is set when a file of it arrives or an .o of it is sent.       *)
(***************************************************************************)
SeeClient(s) ==
  /\ step[s] = "created"
  /\ client[s] \in inactive
  /\ inactive' = inactive \ {client[s]}
  /\ UNCHANGED <<table, closed, workingDir, oldDirs, pc, victim, reply, stopping, panicked,
                 atRisk, admissionVars>>

SessionStep(s) ==
  \/ FindClient(s) \/ CheckKnownCompiler(s) \/ StartDetecting(s) \/ Detect(s)
  \/ EnterCoverage(s) \/ CheckKnownCoverage(s)
  \/ StartProbingCoverage(s) \/ EndProbingCoverage(s)
  \/ CreateSession(s) \/ MkdirAllForSession(s) \/ SeeClient(s)

Next ==
  \/ StorageNext /\ UNCHANGED admissionVars
  \/ \E s \in Sessions : SessionStep(s)

Spec == Init /\ [][Next]_vars

-----------------------------------------------------------------------------
TypeOK ==
  /\ StorageTypeOK
  /\ step \in [Sessions -> {"idle", "check", "detect", "coverage", "probe", "probing",
                            "create", "mkdir", "created", "refused"}]
  /\ client \in [Sessions -> Starts \cup {None}]
  /\ \A s \in Sessions : step[s] \notin {"idle", "refused"} => client[s] # None
  /\ byName \in CxxOutcomes \cup {"unknown"}
  /\ detected \subseteq CxxOutcomes
  /\ coverageMu \in Sessions \cup {None}
  /\ coverageByName \in CoverageOutcomes \cup {"unknown"}
  /\ probes \in Nat
  /\ dirsMade \subseteq Starts

(***************************************************************************)
(* No session is let in on the word of a server that has only ever found   *)
(* its compiler to be for another target than the client's, or missing:    *)
(* one that runs beside the first look at the compiler waits for a look of *)
(* its own.  (One look that times out does let in every later session.)    *)
(***************************************************************************)
AdmittedOnEvidence ==
  \A s \in Sessions :
    step[s] \in {"coverage", "probe", "probing", "create", "mkdir", "created"}
      => detected \cap Suits(s) # {}

(***************************************************************************)
(* Coverage sessions that come together wait for one probe "rather than    *)
(* all running it": the compiler is probed once per server.                *)
(***************************************************************************)
CoverageProbedOnce == probes <= 1

=============================================================================
