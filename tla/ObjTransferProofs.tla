------------------------- MODULE ObjTransferProofs -------------------------
(***************************************************************************)
(* Proofs about ObjTransfer, for any attempts, streams and sizes and any   *)
(* number of failures, breaks and interrupts.                              *)
(***************************************************************************)
EXTENDS ObjTransfer, SequenceTheorems, TLAPS

(***************************************************************************)
(* The chunks of a session in closed form: how many of them the .o and the *)
(* .gcno make, and how many bytes of either the first j of them have.      *)
(***************************************************************************)
Pieces(size) == (size + ChunkSize - 1) \div ChunkSize
Filled(size, j) == IF j * ChunkSize <= size THEN j * ChunkSize ELSE size

ObjChunks(a) == Pieces(ObjSize[a])
NotesChunks(a) == Pieces(NotesSize[a])
LastChunk(a) == IF ExitCode[a] = "ok" THEN ObjChunks(a) + NotesChunks(a) ELSE 1

ObjPart(a, j) == Filled(ObjSize[a], j)
NotesPart(a, j) == IF j <= ObjChunks(a) THEN 0 ELSE Filled(NotesSize[a], j - ObjChunks(a))

Byte == Attempts \X {"obj", "notes"} \X Nat
Chunk == [session : Attempts, body : Seq(Byte)]
File == Seq(Byte) \cup {None}

Transfer ==
  [at : {"write", "chunks", "notes", "obj", "end"}, session : Attempts, known : BOOLEAN,
   received : Nat, objLeft : Nat, tmp : Seq(Byte), notes : Seq(Byte),
   errWrite : BOOLEAN, errRecv : BOOLEAN]

Typed ==
  /\ result \in [Attempts -> {"unmade", "none", "done", "failed", "error"}]
  /\ sent \subseteq Attempts
  /\ wire \in [Streams -> Seq(Chunk)] /\ broken \subseteq Streams
  /\ receiving \in [Streams -> Transfer \cup {Idle}]
  /\ obj \in [Requests -> File] /\ notes \in [Requests -> File]
  /\ failures \in Nat /\ breaks \in Nat /\ interrupts \in Nat
  /\ saved \in [Attempts -> {"none", "notes", "both", "overtaken"}]

-----------------------------------------------------------------------------
\* Chunk d may come after chunk c.
Follows(c, d) ==
  \E j \in 1 .. LastChunk(c.session) :
    /\ c = Chunks(c.session)[j]
    /\ d = IF j < LastChunk(c.session) THEN Chunks(c.session)[j + 1] ELSE Chunks(d.session)[1]

IsOf(s, c) ==
  /\ Stream[c.session] = s
  /\ \E j \in 1 .. LastChunk(c.session) : c = Chunks(c.session)[j]

EndsSession(c) == c = Chunks(c.session)[LastChunk(c.session)]
StartsSession(c) == c = Chunks(c.session)[1]

\* The chunks w come from stream s, of sessions in S, one after the other.
Orderly(s, w, S) ==
  /\ \A k \in 1 .. Len(w) : IsOf(s, w[k]) /\ w[k].session \in S
  /\ \A k \in 1 .. Len(w) - 1 : Follows(w[k], w[k + 1])

Complete(w) == w = <<>> \/ EndsSession(w[Len(w)])

(***************************************************************************)
(* Of a stream that isn't broken the client will read whole sessions.      *)
(***************************************************************************)
WireOk(s) == Orderly(s, wire[s], sent) /\ (s \in broken \/ Complete(wire[s]))

\* The transfer t has taken the first j chunks of its session.
Progress(t, j) ==
  /\ t.received = ObjPart(t.session, j) + NotesPart(t.session, j)
  /\ t.objLeft = ObjSize[t.session] - ObjPart(t.session, j)
  /\ t.notes = SubSeq(Notes(t.session), 1, NotesPart(t.session, j))
  /\ t.errWrite \/ t.tmp = SubSeq(Obj(t.session), 1, ObjPart(t.session, j))

\* What comes next over s is what follows chunk j of session a.
Coming(s, a, j) ==
  IF j < LastChunk(a)
  THEN IF wire[s] = <<>> THEN s \in broken ELSE Head(wire[s]) = Chunks(a)[j + 1]
  ELSE wire[s] # <<>> => StartsSession(Head(wire[s]))

StepOk(s) ==
  IF receiving[s].at = "chunks"
  THEN \E j \in 1 .. LastChunk(receiving[s].session) :
         Progress(receiving[s], j) /\ Coming(s, receiving[s].session, j)
  ELSE wire[s] # <<>> => StartsSession(Head(wire[s]))

(***************************************************************************)
(* A transfer that has gone without an error has both files.               *)
(***************************************************************************)
OfTransfer(s, t) ==
  /\ Stream[t.session] = s /\ t.session \in sent /\ ExitCode[t.session] = "ok"
  /\ t.known => result[t.session] \in {"none", "error"}
  /\ t.at = "write" =>
       t.tmp = Obj(t.session) /\ NotesSize[t.session] = 0 /\ ObjSize[t.session] <= ChunkSize
  /\ t.at \in {"write", "chunks"} => ~ t.errRecv
  /\ t.at \in {"notes", "obj"} /\ ~ t.errRecv =>
       t.notes = Notes(t.session) /\ (t.errWrite \/ t.tmp = Obj(t.session))
  /\ t.errRecv => s \in broken /\ wire[s] = <<>>

StreamOk(s) == WireOk(s) /\ StepOk(s) /\ (receiving[s] # Idle => OfTransfer(s, receiving[s]))

\* The .gcno of a is saved, and who replaces it marks a as overtaken.
HasNotes(a) ==
  saved[a] = "overtaken" \/ (saved[a] = "notes" /\ notes[Request[a]] = Notes(a))

\* What NotesBeforeObj says of an .o that is there.
NotesFit(a) ==
  \/ notes[Request[a]] = Notes(a)
  \/ saved[a] = "overtaken"
  \/ \E b \in Siblings(a) \ {a} : saved[b] = "notes" /\ notes[Request[a]] = Notes(b)

SavedNotes ==
  \A s \in Streams :
    LET t == receiving[s] IN
    t.at = "obj" /\ MayRename(t) /\ t.known
      /\ Request[t.session] \in WantsNotes /\ NotesSize[t.session] > 0 => HasNotes(t.session)

Kept(a) ==
  \/ obj[Request[a]] \in {Obj(b) : b \in Siblings(a)}
  \/ \E b \in Siblings(a) \ {a} : Endangers(b)

SavedObj ==
  \A s \in Streams :
    LET t == receiving[s] IN
    t.at = "end" /\ t.known /\ ~ t.errWrite /\ ~ t.errRecv => Kept(t.session)

Files == SavedNotes /\ NotesBeforeObj /\ SavedObj /\ DoneIsWhole

Inv == Typed /\ (\A s \in Streams : StreamOk(s)) /\ Files

-----------------------------------------------------------------------------
(* Arithmetic of chunks *)

\* The smaller of two numbers.
LEMMA MinOfTwo ==
  ASSUME NEW x \in Nat, NEW y \in Nat
  PROVE  Min({x, y}) = IF x <= y THEN x ELSE y
<1>1. \E m \in {x, y} : \A z \in {x, y} : m =< z
  BY SMT
<1>2. /\ Min({x, y}) \in {x, y}
      /\ \A z \in {x, y} : Min({x, y}) =< z
  BY <1>1, Zenon DEF Min
<1> QED  BY <1>2, SMT

\* The pieces of a file are as many as are needed for all of it.
LEMMA PiecesSuffice ==
  ASSUME NEW size \in Nat
  PROVE  /\ Pieces(size) \in Nat
         /\ Pieces(size) * ChunkSize >= size
         /\ Pieces(size) * ChunkSize < size + ChunkSize
<1> DEFINE n == size + ChunkSize - 1
<1>1. ChunkSize \in Nat \ {0} /\ n \in Nat
  BY ObjTransferAssumption, SMT
<1> HIDE DEF n
<1>2. /\ n \div ChunkSize \in Nat
      /\ (n \div ChunkSize) * ChunkSize <= n
      /\ n < (n \div ChunkSize) * ChunkSize + ChunkSize
  BY <1>1, SMT
<1> QED  BY <1>1, <1>2, ObjTransferAssumption, SMT DEF n, Pieces

(***************************************************************************)
(* What the pieces of a file fill grows piece by piece up to its size.     *)
(***************************************************************************)
LEMMA FilledUp ==
  ASSUME NEW size \in Nat
  PROVE  /\ Filled(size, 0) = 0 /\ Filled(size, Pieces(size)) = size
         /\ \A j \in Nat : Filled(size, j) \in 0 .. size
         /\ \A j \in Nat : j >= Pieces(size) => Filled(size, j) = size
         /\ \A j \in Nat :
              j < Pieces(size) => Filled(size, j) < size /\ Filled(size, j) = j * ChunkSize
         /\ \A j \in Nat : j < Pieces(size) => Filled(size, j) < Filled(size, j + 1)
<1>1. ChunkSize \in Nat \ {0}
  BY ObjTransferAssumption
<1>2. /\ Pieces(size) \in Nat
      /\ Pieces(size) * ChunkSize >= size
      /\ Pieces(size) * ChunkSize < size + ChunkSize
  BY PiecesSuffice
<1>3. Filled(size, 0) = 0 /\ Filled(size, Pieces(size)) = size
  BY <1>1, <1>2, SMT DEF Filled
<1>4. ASSUME NEW j \in Nat PROVE Filled(size, j) \in 0 .. size
  <2>1. j * ChunkSize \in Nat
    BY <1>1, SMT
  <2> QED  BY <2>1, SMT DEF Filled
<1>5. ASSUME NEW j \in Nat, j >= Pieces(size) PROVE Filled(size, j) = size
  <2>1. j * ChunkSize \in Nat /\ j * ChunkSize >= Pieces(size) * ChunkSize
    BY <1>1, <1>2, <1>5, SMT
  <2> QED  BY <2>1, <1>2, <1>1, SMT DEF Filled
<1>6. ASSUME NEW j \in Nat, j < Pieces(size)
      PROVE  Filled(size, j) < size /\ Filled(size, j) = j * ChunkSize
  <2>1. j * ChunkSize \in Nat /\ j * ChunkSize + ChunkSize <= Pieces(size) * ChunkSize
    BY <1>1, <1>2, <1>6, SMT
  <2>2. Pieces(size) * ChunkSize \in Nat
    BY <1>1, <1>2, SMT
  <2> QED  BY <2>1, <2>2, <1>2, <1>1, SMT DEF Filled
<1>7. ASSUME NEW j \in Nat, j < Pieces(size)
      PROVE  Filled(size, j) < Filled(size, j + 1)
  <2>1. (j + 1) * ChunkSize = j * ChunkSize + ChunkSize /\ j * ChunkSize \in Nat
    BY <1>1, SMT
  <2> QED  BY <2>1, <1>6, <1>7, <1>1, SMT DEF Filled
<1> QED  BY <1>3, <1>4, <1>5, <1>6, <1>7

\* No piece is filled twice.
LEMMA FilledGrows ==
  ASSUME NEW size \in Nat, NEW j \in Nat, NEW k \in Nat, j < k, j < Pieces(size)
  PROVE  Filled(size, j) < Filled(size, k)
<1>1. ChunkSize \in Nat \ {0} /\ Filled(size, j) < size /\ Filled(size, j) = j * ChunkSize
  BY ObjTransferAssumption, FilledUp
<1>2. j * ChunkSize \in Nat /\ k * ChunkSize \in Nat /\ k * ChunkSize >= j * ChunkSize + ChunkSize
  BY <1>1, SMT
<1> QED  BY <1>1, <1>2, SMT DEF Filled

-----------------------------------------------------------------------------
(* Files and their chunks *)

LEMMA BytesAre ==
  ASSUME NEW a \in Attempts, NEW file \in {"obj", "notes"}, NEW size \in Nat
  PROVE  /\ Bytes(a, file, size) \in Seq(Byte)
         /\ Len(Bytes(a, file, size)) = size
         /\ \A k \in 1 .. size : Bytes(a, file, size)[k] = <<a, file, k>>
<1>1. \A k \in 1 .. size : <<a, file, k>> \in Byte
  BY DEF Byte
<1>2. Bytes(a, file, size) \in Seq(Byte)
  BY <1>1, SMT DEF Bytes
<1>3. DOMAIN Bytes(a, file, size) = 1 .. size
  BY DEF Bytes
<1>4. Len(Bytes(a, file, size)) = size
  BY <1>2, <1>3, SMT
<1> QED  BY <1>2, <1>4, Zenon DEF Bytes

LEMMA FilesAre ==
  ASSUME NEW a \in Attempts
  PROVE  /\ Obj(a) \in Seq(Byte) /\ Len(Obj(a)) = ObjSize[a]
         /\ \A k \in 1 .. ObjSize[a] : Obj(a)[k] = <<a, "obj", k>>
         /\ Notes(a) \in Seq(Byte) /\ Len(Notes(a)) = NotesSize[a]
         /\ \A k \in 1 .. NotesSize[a] : Notes(a)[k] = <<a, "notes", k>>
         /\ ObjSize[a] \in Nat \ {0} /\ NotesSize[a] \in Nat
<1>1. ObjSize[a] \in Nat \ {0} /\ NotesSize[a] \in Nat
  BY ObjTransferAssumption
<1> QED  BY <1>1, BytesAre DEF Obj, Notes

\* The files of two attempts differ.
LEMMA ObjsDiffer ==
  ASSUME NEW a \in Attempts, NEW b \in Attempts, Obj(a) = Obj(b)
  PROVE  a = b
<1>1. 1 \in 1 .. ObjSize[a] /\ 1 \in 1 .. ObjSize[b]
  BY FilesAre, SMT
<1>2. Obj(a)[1] = <<a, "obj", 1>>
  BY <1>1, FilesAre, Zenon
<1>3. Obj(b)[1] = <<b, "obj", 1>>
  BY <1>1, FilesAre, Zenon
<1> QED  BY <1>2, <1>3

(***************************************************************************)
(* A file is chopped into adjacent pieces.                                 *)
(***************************************************************************)
LEMMA ChoppedIs ==
  ASSUME NEW bytes \in Seq(Byte)
  PROVE  /\ Chopped(bytes) \in Seq(Seq(Byte))
         /\ Len(Chopped(bytes)) = Pieces(Len(bytes))
         /\ \A k \in 1 .. Pieces(Len(bytes)) :
              Chopped(bytes)[k]
                = SubSeq(bytes, Filled(Len(bytes), k - 1) + 1, Filled(Len(bytes), k))
<1> DEFINE size == Len(bytes)
<1> DEFINE Piece(k) == SubSeq(bytes, Filled(size, k - 1) + 1, Filled(size, k))
<1>1. size \in Nat /\ ChunkSize \in Nat \ {0}
  BY LenProperties, ObjTransferAssumption
<1>2. Pieces(size) \in Nat
  BY <1>1, PiecesSuffice
<1>3. ASSUME NEW k \in 1 .. Pieces(size)
      PROVE  SubSeq(bytes, (k - 1) * ChunkSize + 1, Min({k * ChunkSize, size})) = Piece(k)
  <2>1. k - 1 \in Nat /\ k - 1 < Pieces(size) /\ k * ChunkSize \in Nat
    BY <1>1, <1>2, SMT
  <2>2. Filled(size, k - 1) = (k - 1) * ChunkSize
    BY <2>1, <1>1, FilledUp
  <2>3. Min({k * ChunkSize, size}) = Filled(size, k)
    BY <2>1, <1>1, MinOfTwo DEF Filled
  <2> QED  BY <2>2, <2>3
<1>4. ASSUME NEW k \in 1 .. Pieces(size) PROVE Piece(k) \in Seq(Byte)
  <2>1. k \in Nat /\ k - 1 \in Nat
    BY <1>2, SMT
  <2>2. Filled(size, k - 1) \in 0 .. size /\ Filled(size, k) \in 0 .. size
    BY <2>1, <1>1, FilledUp
  <2>3. /\ Filled(size, k - 1) + 1 \in Int /\ Filled(size, k) \in Int
        /\ \A i \in Filled(size, k - 1) + 1 .. Filled(size, k) : i \in 1 .. Len(bytes)
    BY <2>2, <1>1, SMT
  <2>4. \A i \in Filled(size, k - 1) + 1 .. Filled(size, k) : bytes[i] \in Byte
    BY <2>3, ElementOfSeq
  <2> QED  BY <2>3, <2>4, SubSeqProperties
<1>5. Chopped(bytes) = [k \in 1 .. Pieces(size) |-> Piece(k)]
  BY <1>3, Zenon DEF Chopped, Pieces
<1> HIDE DEF Piece
<1>6. Chopped(bytes) \in Seq(Seq(Byte)) /\ DOMAIN Chopped(bytes) = 1 .. Pieces(size)
  BY <1>4, <1>5, <1>2, SMT
<1>7. Len(Chopped(bytes)) = Pieces(size)
  BY <1>6, <1>2, SMT
<1> QED  BY <1>5, <1>6, <1>7, Zenon DEF Piece

LEMMA ChunksFacts ==
  ASSUME NEW a \in Attempts
  PROVE  /\ ObjChunks(a) \in Nat \ {0} /\ NotesChunks(a) \in Nat
         /\ LastChunk(a) \in Nat \ {0}
         /\ ExitCode[a] = "ok" => LastChunk(a) = ObjChunks(a) + NotesChunks(a)
<1>1. /\ ObjSize[a] \in Nat \ {0} /\ NotesSize[a] \in Nat /\ ChunkSize \in Nat \ {0}
  BY FilesAre, ObjTransferAssumption
<1>2. /\ ObjChunks(a) \in Nat /\ NotesChunks(a) \in Nat
      /\ ObjChunks(a) * ChunkSize >= ObjSize[a]
  BY <1>1, PiecesSuffice DEF ObjChunks, NotesChunks
<1>3. ObjChunks(a) # 0
  <2>1. 0 * ChunkSize = 0
    BY <1>1, SMT
  <2> QED  BY <2>1, <1>1, <1>2, SMT
<1> QED  BY <1>2, <1>3, SMT DEF LastChunk

\* The bytes of chunk number j.
Piece(a, j) ==
  IF ExitCode[a] # "ok" THEN <<>>
  ELSE IF j <= ObjChunks(a) THEN SubSeq(Obj(a), ObjPart(a, j - 1) + 1, ObjPart(a, j))
  ELSE SubSeq(Notes(a), NotesPart(a, j - 1) + 1, NotesPart(a, j))

(***************************************************************************)
(* Chunks cuts both files where ObjPart and NotesPart say.                 *)
(***************************************************************************)
LEMMA ChunksAre ==
  ASSUME NEW a \in Attempts
  PROVE  /\ Chunks(a) \in Seq(Chunk) /\ Len(Chunks(a)) = LastChunk(a)
         /\ \A j \in 1 .. LastChunk(a) : Chunks(a)[j] = [session |-> a, body |-> Piece(a, j)]
<1>1. /\ ObjChunks(a) \in Nat /\ NotesChunks(a) \in Nat /\ LastChunk(a) \in Nat \ {0}
  BY ChunksFacts
<1> DEFINE bodies ==
      IF ExitCode[a] = "ok" THEN Chopped(Obj(a)) \o Chopped(Notes(a)) ELSE <<<<>>>>
<1>2. /\ bodies \in Seq(Seq(Byte)) /\ Len(bodies) = LastChunk(a)
      /\ \A j \in 1 .. LastChunk(a) : bodies[j] = Piece(a, j)
  <2>1. CASE ExitCode[a] # "ok"
    BY <2>1, SMT DEF LastChunk, Piece
  <2>2. CASE ExitCode[a] = "ok"
    <3> DEFINE o == Chopped(Obj(a))
               n == Chopped(Notes(a))
    <3>1. /\ o \in Seq(Seq(Byte)) /\ Len(o) = ObjChunks(a)
          /\ n \in Seq(Seq(Byte)) /\ Len(n) = NotesChunks(a)
          /\ \A k \in 1 .. ObjChunks(a) :
               o[k] = SubSeq(Obj(a), ObjPart(a, k - 1) + 1, ObjPart(a, k))
          /\ \A k \in 1 .. NotesChunks(a) :
               n[k] = SubSeq(Notes(a), Filled(NotesSize[a], k - 1) + 1, Filled(NotesSize[a], k))
      <4>1. /\ Obj(a) \in Seq(Byte) /\ Len(Obj(a)) = ObjSize[a]
            /\ Notes(a) \in Seq(Byte) /\ Len(Notes(a)) = NotesSize[a]
        BY FilesAre
      <4>2. /\ o \in Seq(Seq(Byte)) /\ Len(o) = Pieces(ObjSize[a])
            /\ \A k \in 1 .. Pieces(ObjSize[a]) :
                 o[k] = SubSeq(Obj(a), Filled(ObjSize[a], k - 1) + 1, Filled(ObjSize[a], k))
        BY <4>1, ChoppedIs, Zenon
      <4>3. /\ n \in Seq(Seq(Byte)) /\ Len(n) = Pieces(NotesSize[a])
            /\ \A k \in 1 .. Pieces(NotesSize[a]) :
                 n[k] = SubSeq(Notes(a), Filled(NotesSize[a], k - 1) + 1, Filled(NotesSize[a], k))
        BY <4>1, ChoppedIs, Zenon
      <4> QED  BY <4>2, <4>3, Zenon DEF ObjChunks, NotesChunks, ObjPart
    <3> HIDE DEF o, n
    <3>2. /\ o \o n \in Seq(Seq(Byte)) /\ Len(o \o n) = ObjChunks(a) + NotesChunks(a)
          /\ \A j \in 1 .. ObjChunks(a) + NotesChunks(a) :
               (o \o n)[j] = IF j <= ObjChunks(a) THEN o[j] ELSE n[j - ObjChunks(a)]
      <4>1. /\ o \o n \in Seq(Seq(Byte)) /\ Len(o \o n) = Len(o) + Len(n)
            /\ \A j \in 1 .. Len(o) + Len(n) :
                 (o \o n)[j] = IF j <= Len(o) THEN o[j] ELSE n[j - Len(o)]
        BY <3>1, ConcatProperties, Zenon
      <4> QED  BY <4>1, <3>1, Zenon
    <3>3. LastChunk(a) = ObjChunks(a) + NotesChunks(a)
      BY <2>2 DEF LastChunk
    <3>4. ASSUME NEW j \in 1 .. LastChunk(a) PROVE (o \o n)[j] = Piece(a, j)
      <4>1. CASE j <= ObjChunks(a)
        <5>1. j \in 1 .. ObjChunks(a) /\ (o \o n)[j] = o[j]
          BY <4>1, <3>2, <3>3, <1>1, SMT
        <5> QED  BY <5>1, <4>1, <3>1, <2>2 DEF Piece
      <4>2. CASE ~ (j <= ObjChunks(a))
        <5>1. /\ (o \o n)[j] = n[j - ObjChunks(a)] /\ j - ObjChunks(a) \in 1 .. NotesChunks(a)
              /\ (j - 1) - ObjChunks(a) = (j - ObjChunks(a)) - 1
          BY <4>2, <3>2, <3>3, <1>1, SMT
        <5>2. NotesPart(a, j) = Filled(NotesSize[a], j - ObjChunks(a))
          BY <4>2 DEF NotesPart
        <5>3. NotesPart(a, j - 1) = Filled(NotesSize[a], (j - ObjChunks(a)) - 1)
          <6>1. CASE j - 1 <= ObjChunks(a)
            <7>1. (j - ObjChunks(a)) - 1 = 0
              BY <6>1, <4>2, <1>1, <3>3, SMT
            <7>2. Filled(NotesSize[a], 0) = 0
              BY FilledUp, FilesAre
            <7> QED  BY <7>1, <7>2, <6>1 DEF NotesPart
          <6>2. CASE ~ (j - 1 <= ObjChunks(a))
            BY <6>2, <5>1 DEF NotesPart
          <6> QED  BY <6>1, <6>2
        <5> QED  BY <5>1, <5>2, <5>3, <4>2, <3>1, <2>2 DEF Piece
      <4> QED  BY <4>1, <4>2
    <3> QED  BY <3>2, <3>3, <3>4, <2>2 DEF o, n
  <2> QED  BY <2>1, <2>2
<1>3. Chunks(a) = [k \in DOMAIN bodies |-> [session |-> a, body |-> bodies[k]]]
  BY DEF Chunks
<1> HIDE DEF bodies
<1>4. DOMAIN bodies = 1 .. LastChunk(a)
  BY <1>2, LenProperties
<1>5. \A j \in 1 .. LastChunk(a) : bodies[j] \in Seq(Byte)
  BY <1>2, ElementOfSeq
<1>6. Chunks(a) = [k \in 1 .. LastChunk(a) |-> [session |-> a, body |-> bodies[k]]]
  BY <1>3, <1>4, Zenon
<1>7. \A k \in 1 .. LastChunk(a) : [session |-> a, body |-> bodies[k]] \in Chunk
  BY <1>5 DEF Chunk
<1>8. Chunks(a) \in Seq(Chunk)
  BY <1>6, <1>7, <1>1, SMT
<1>9. Len(Chunks(a)) = LastChunk(a)
  BY <1>8, <1>6, <1>1, SMT
<1> QED  BY <1>2, <1>6, <1>8, <1>9, Zenon

LEMMA ChunkIs ==
  ASSUME NEW a \in Attempts, NEW j \in 1 .. LastChunk(a)
  PROVE  Chunks(a)[j].session = a /\ Chunks(a)[j].body = Piece(a, j)
<1>1. Chunks(a)[j] = [session |-> a, body |-> Piece(a, j)]
  BY ChunksAre
<1>2. /\ [session |-> a, body |-> Piece(a, j)].session = a
      /\ [session |-> a, body |-> Piece(a, j)].body = Piece(a, j)
  OBVIOUS
<1> QED  BY <1>1, <1>2

(***************************************************************************)
(* First the .o comes, to its end, then the .gcno.                         *)
(***************************************************************************)
LEMMA PartsGrow ==
  ASSUME NEW a \in Attempts, ExitCode[a] = "ok"
  PROVE  /\ ObjPart(a, 0) = 0 /\ NotesPart(a, 0) = 0
         /\ \A j \in Nat :
              ObjPart(a, j) \in 0 .. ObjSize[a] /\ NotesPart(a, j) \in 0 .. NotesSize[a]
         /\ \A j \in Nat : j <= ObjChunks(a) => NotesPart(a, j) = 0
         /\ \A j \in Nat : j >= ObjChunks(a) => ObjPart(a, j) = ObjSize[a]
         /\ \A j \in Nat : j < ObjChunks(a) => ObjPart(a, j) < ObjPart(a, j + 1)
         /\ \A j \in Nat : j >= ObjChunks(a) /\ j < LastChunk(a)
                             => NotesPart(a, j) < NotesPart(a, j + 1)
         /\ NotesPart(a, LastChunk(a)) = NotesSize[a]
<1>1. /\ ObjChunks(a) \in Nat \ {0} /\ NotesChunks(a) \in Nat
      /\ LastChunk(a) = ObjChunks(a) + NotesChunks(a)
  BY ChunksFacts
<1>2. ObjSize[a] \in Nat \ {0} /\ NotesSize[a] \in Nat
  BY FilesAre
<1>3. ObjPart(a, 0) = 0 /\ NotesPart(a, 0) = 0
  <2>1. 0 <= ObjChunks(a)
    BY <1>1, SMT
  <2> QED  BY <2>1, <1>2, FilledUp DEF ObjPart, NotesPart
<1>4. ASSUME NEW j \in Nat
      PROVE  ObjPart(a, j) \in 0 .. ObjSize[a] /\ NotesPart(a, j) \in 0 .. NotesSize[a]
  <2>1. ObjPart(a, j) \in 0 .. ObjSize[a]
    BY <1>2, FilledUp DEF ObjPart
  <2>2. CASE j <= ObjChunks(a)
    BY <2>1, <2>2, <1>2, SMT DEF NotesPart
  <2>3. CASE ~ (j <= ObjChunks(a))
    <3>1. j - ObjChunks(a) \in Nat
      BY <2>3, <1>1, SMT
    <3> QED  BY <3>1, <2>1, <2>3, <1>2, FilledUp DEF NotesPart
  <2> QED  BY <2>2, <2>3
<1>5. ASSUME NEW j \in Nat, j <= ObjChunks(a) PROVE NotesPart(a, j) = 0
  BY <1>5 DEF NotesPart
<1>6. ASSUME NEW j \in Nat, j >= ObjChunks(a) PROVE ObjPart(a, j) = ObjSize[a]
  BY <1>6, <1>2, FilledUp DEF ObjPart, ObjChunks
<1>7. ASSUME NEW j \in Nat, j < ObjChunks(a) PROVE ObjPart(a, j) < ObjPart(a, j + 1)
  BY <1>7, <1>2, FilledUp DEF ObjPart, ObjChunks
<1>8. ASSUME NEW j \in Nat, j >= ObjChunks(a), j < LastChunk(a)
      PROVE  NotesPart(a, j) < NotesPart(a, j + 1)
  <2> DEFINE i == j - ObjChunks(a)
  <2>1. /\ i \in Nat /\ i < NotesChunks(a)
        /\ (j + 1) - ObjChunks(a) = i + 1 /\ ~ (j + 1 <= ObjChunks(a))
    BY <1>1, <1>8, SMT
  <2>2. Filled(NotesSize[a], i) < Filled(NotesSize[a], i + 1)
    BY <2>1, <1>2, FilledUp DEF NotesChunks
  <2>3. NotesPart(a, j + 1) = Filled(NotesSize[a], i + 1)
    BY <2>1 DEF NotesPart
  <2>4. NotesPart(a, j) = Filled(NotesSize[a], i)
    <3>1. CASE j <= ObjChunks(a)
      <4>1. i = 0
        BY <3>1, <1>1, <1>8, SMT
      <4> QED  BY <4>1, <3>1, <1>2, FilledUp DEF NotesPart
    <3>2. CASE ~ (j <= ObjChunks(a))
      BY <3>2 DEF NotesPart
    <3> QED  BY <3>1, <3>2
  <2> QED  BY <2>2, <2>3, <2>4
<1>9. NotesPart(a, LastChunk(a)) = NotesSize[a]
  <2>1. Filled(NotesSize[a], NotesChunks(a)) = NotesSize[a] /\ Filled(NotesSize[a], 0) = 0
    BY <1>2, FilledUp DEF NotesChunks
  <2>2. LastChunk(a) - ObjChunks(a) = NotesChunks(a)
    BY <1>1, SMT
  <2>3. CASE LastChunk(a) <= ObjChunks(a)
    <3>1. NotesChunks(a) = 0
      BY <1>1, <2>3, SMT
    <3> QED  BY <3>1, <2>1, <2>3 DEF NotesPart
  <2>4. CASE ~ (LastChunk(a) <= ObjChunks(a))
    BY <2>4, <2>1, <2>2 DEF NotesPart
  <2> QED  BY <2>3, <2>4
<1> QED  BY <1>3, <1>4, <1>5, <1>6, <1>7, <1>8, <1>9

(***************************************************************************)
(* A chunk is a piece of its file, of at least a byte.                     *)
(***************************************************************************)
LEMMA PieceIs ==
  ASSUME NEW a \in Attempts, ExitCode[a] = "ok", NEW j \in 1 .. LastChunk(a)
  PROVE  /\ Piece(a, j) \in Seq(Byte)
         /\ j <= ObjChunks(a) =>
              /\ Piece(a, j) = SubSeq(Obj(a), ObjPart(a, j - 1) + 1, ObjPart(a, j))
              /\ Len(Piece(a, j)) = ObjPart(a, j) - ObjPart(a, j - 1)
              /\ Piece(a, j)[1] = <<a, "obj", ObjPart(a, j - 1) + 1>>
              /\ ObjPart(a, j - 1) < ObjPart(a, j)
         /\ j > ObjChunks(a) =>
              /\ Piece(a, j) = SubSeq(Notes(a), NotesPart(a, j - 1) + 1, NotesPart(a, j))
              /\ Len(Piece(a, j)) = NotesPart(a, j) - NotesPart(a, j - 1)
              /\ Piece(a, j)[1] = <<a, "notes", NotesPart(a, j - 1) + 1>>
              /\ NotesPart(a, j - 1) < NotesPart(a, j)
<1>1. ObjChunks(a) \in Nat \ {0} /\ LastChunk(a) \in Nat \ {0}
  BY ChunksFacts
<1>2. j \in Nat /\ j - 1 \in Nat /\ (j - 1) + 1 = j /\ j - 1 < LastChunk(a)
  BY <1>1, SMT
<1>3. CASE j <= ObjChunks(a)
  <2>1. Piece(a, j) = SubSeq(Obj(a), ObjPart(a, j - 1) + 1, ObjPart(a, j))
    BY <1>3 DEF Piece
  <2>2. j - 1 < ObjChunks(a)
    BY <1>1, <1>2, <1>3, SMT
  <2>3. /\ ObjPart(a, j - 1) \in 0 .. ObjSize[a] /\ ObjPart(a, j) \in 0 .. ObjSize[a]
        /\ ObjPart(a, j - 1) < ObjPart(a, j)
    BY <1>2, <2>2, PartsGrow
  <2>4. /\ Obj(a) \in Seq(Byte) /\ Len(Obj(a)) = ObjSize[a] /\ ObjSize[a] \in Nat
        /\ \A k \in 1 .. ObjSize[a] : Obj(a)[k] = <<a, "obj", k>>
    BY FilesAre
  <2> DEFINE m == ObjPart(a, j - 1) + 1
             n == ObjPart(a, j)
  <2>5. m \in 1 .. ObjSize[a] /\ n \in 1 .. ObjSize[a] /\ m <= n /\ m \in Int /\ n \in Int
        /\ m .. n \subseteq 1 .. ObjSize[a] /\ n - m + 1 = n - ObjPart(a, j - 1)
        /\ 1 \in 1 .. n - m + 1 /\ m + 1 - 1 = m
    BY <2>3, <2>4, SMT
  <2> HIDE DEF m, n
  <2>6. \A i \in m .. n : Obj(a)[i] \in Byte
    BY <2>4, <2>5, ElementOfSeq
  <2>7. /\ SubSeq(Obj(a), m, n) \in Seq(Byte)
        /\ Len(SubSeq(Obj(a), m, n)) = n - m + 1
        /\ SubSeq(Obj(a), m, n)[1] = Obj(a)[m]
    BY <2>5, <2>6, SubSeqProperties
  <2>8. Piece(a, j)[1] = <<a, "obj", m>>
    BY <2>1, <2>4, <2>5, <2>7, Zenon DEF m, n
  <2>9. Piece(a, j) \in Seq(Byte) /\ Len(Piece(a, j)) = n - ObjPart(a, j - 1)
    BY <2>1, <2>5, <2>7, Zenon DEF m, n
  <2>10. ~ (j > ObjChunks(a))
    BY <1>1, <1>2, <1>3, SMT
  <2> QED  BY <2>1, <2>3, <2>8, <2>9, <2>10, Zenon DEF m, n
<1>4. CASE j > ObjChunks(a)
  <2>1. ~ (j <= ObjChunks(a)) /\ j - 1 >= ObjChunks(a)
    BY <1>1, <1>2, <1>4, SMT
  <2>2. Piece(a, j) = SubSeq(Notes(a), NotesPart(a, j - 1) + 1, NotesPart(a, j))
    BY <2>1 DEF Piece
  <2>3. /\ NotesPart(a, j - 1) \in 0 .. NotesSize[a] /\ NotesPart(a, j) \in 0 .. NotesSize[a]
        /\ NotesPart(a, j - 1) < NotesPart(a, j)
    BY <1>2, <2>1, PartsGrow
  <2>4. /\ Notes(a) \in Seq(Byte) /\ Len(Notes(a)) = NotesSize[a] /\ NotesSize[a] \in Nat
        /\ \A k \in 1 .. NotesSize[a] : Notes(a)[k] = <<a, "notes", k>>
    BY FilesAre
  <2> DEFINE m == NotesPart(a, j - 1) + 1
             n == NotesPart(a, j)
  <2>5. m \in 1 .. NotesSize[a] /\ n \in 1 .. NotesSize[a] /\ m <= n /\ m \in Int /\ n \in Int
        /\ m .. n \subseteq 1 .. NotesSize[a] /\ n - m + 1 = n - NotesPart(a, j - 1)
        /\ 1 \in 1 .. n - m + 1 /\ m + 1 - 1 = m
    BY <2>3, <2>4, SMT
  <2> HIDE DEF m, n
  <2>6. \A i \in m .. n : Notes(a)[i] \in Byte
    BY <2>4, <2>5, ElementOfSeq
  <2>7. /\ SubSeq(Notes(a), m, n) \in Seq(Byte)
        /\ Len(SubSeq(Notes(a), m, n)) = n - m + 1
        /\ SubSeq(Notes(a), m, n)[1] = Notes(a)[m]
    BY <2>5, <2>6, SubSeqProperties
  <2>8. Piece(a, j)[1] = <<a, "notes", m>>
    BY <2>2, <2>4, <2>5, <2>7, Zenon DEF m, n
  <2>9. Piece(a, j) \in Seq(Byte) /\ Len(Piece(a, j)) = n - NotesPart(a, j - 1)
    BY <2>2, <2>5, <2>7, Zenon DEF m, n
  <2> QED  BY <2>1, <2>2, <2>3, <2>8, <2>9, Zenon DEF m, n
<1> QED  BY <1>1, <1>2, <1>3, <1>4, SMT

\* A chunk tells its number.
LEMMA ChunksDiffer ==
  ASSUME NEW a \in Attempts, NEW j \in 1 .. LastChunk(a), NEW k \in 1 .. LastChunk(a),
         Chunks(a)[j] = Chunks(a)[k]
  PROVE  j = k
<1>1. /\ ObjChunks(a) \in Nat \ {0} /\ LastChunk(a) \in Nat \ {0} /\ NotesChunks(a) \in Nat
      /\ ExitCode[a] = "ok" => LastChunk(a) = ObjChunks(a) + NotesChunks(a)
  BY ChunksFacts
<1>2. CASE ExitCode[a] # "ok"
  BY <1>2, SMT DEF LastChunk
<1>3. CASE ExitCode[a] = "ok"
  <2>1. ASSUME NEW x \in 1 .. LastChunk(a), NEW y \in 1 .. LastChunk(a), x < y,
               Piece(a, x) = Piece(a, y)
        PROVE  FALSE
    <3>1. /\ x \in Nat /\ y \in Nat /\ x - 1 \in Nat /\ y - 1 \in Nat /\ x - 1 < y - 1
      BY <1>1, <2>1, SMT
    <3>2. CASE x <= ObjChunks(a) /\ y <= ObjChunks(a)
      <4>1. x - 1 < ObjChunks(a)
        BY <3>1, <3>2, <1>1, SMT
      <4>2. ObjSize[a] \in Nat
        BY FilesAre
      <4>3. ObjPart(a, x - 1) < ObjPart(a, y - 1)
        BY <4>1, <4>2, <3>1, FilledGrows DEF ObjPart, ObjChunks
      <4>4. Piece(a, x)[1] = <<a, "obj", ObjPart(a, x - 1) + 1>>
        BY <3>2, <1>3, PieceIs
      <4>5. Piece(a, y)[1] = <<a, "obj", ObjPart(a, y - 1) + 1>>
        BY <3>2, <1>3, PieceIs
      <4>6. ObjPart(a, x - 1) \in Nat /\ ObjPart(a, y - 1) \in Nat
        BY <3>1, <1>3, <4>2, PartsGrow, SMT
      <4> QED  BY <4>3, <4>4, <4>5, <4>6, <2>1, SMT
    <3>3. CASE x <= ObjChunks(a) /\ y > ObjChunks(a)
      <4>1. Piece(a, x)[1] = <<a, "obj", ObjPart(a, x - 1) + 1>>
        BY <3>3, <1>3, PieceIs
      <4>2. Piece(a, y)[1] = <<a, "notes", NotesPart(a, y - 1) + 1>>
        BY <3>3, <1>3, PieceIs
      <4> QED  BY <4>1, <4>2, <2>1, SMT
    <3>4. CASE x > ObjChunks(a)
      <4>1. /\ y > ObjChunks(a) /\ x - 1 - ObjChunks(a) \in Nat /\ y - 1 - ObjChunks(a) \in Nat
            /\ x - 1 - ObjChunks(a) < y - 1 - ObjChunks(a)
            /\ x - 1 - ObjChunks(a) < NotesChunks(a)
            /\ ~ (y - 1 <= ObjChunks(a))
        BY <3>1, <3>4, <1>1, <1>3, SMT
      <4>2. NotesSize[a] \in Nat
        BY FilesAre
      <4>3. Filled(NotesSize[a], x - 1 - ObjChunks(a)) < Filled(NotesSize[a], y - 1 - ObjChunks(a))
        BY <4>1, <4>2, FilledGrows DEF NotesChunks
      <4>4. NotesPart(a, x - 1) = Filled(NotesSize[a], x - 1 - ObjChunks(a))
        <5>1. CASE x - 1 <= ObjChunks(a)
          <6>1. x - 1 - ObjChunks(a) = 0
            BY <5>1, <4>1, <3>1, <1>1, SMT
          <6> QED  BY <6>1, <5>1, <4>2, FilledUp DEF NotesPart
        <5>2. CASE ~ (x - 1 <= ObjChunks(a))
          BY <5>2 DEF NotesPart
        <5> QED  BY <5>1, <5>2
      <4>5. NotesPart(a, y - 1) = Filled(NotesSize[a], y - 1 - ObjChunks(a))
        BY <4>1 DEF NotesPart
      <4>6. Piece(a, x)[1] = <<a, "notes", NotesPart(a, x - 1) + 1>>
        BY <3>4, <1>3, PieceIs
      <4>7. Piece(a, y)[1] = <<a, "notes", NotesPart(a, y - 1) + 1>>
        BY <4>1, <1>3, PieceIs
      <4>8. NotesPart(a, x - 1) \in Nat /\ NotesPart(a, y - 1) \in Nat
        BY <3>1, <1>3, <4>2, PartsGrow, SMT
      <4> QED  BY <4>3, <4>4, <4>5, <4>6, <4>7, <4>8, <2>1, SMT
    <3> QED  BY <3>1, <3>2, <3>3, <3>4, <1>1, SMT
  <2>2. Piece(a, j) = Piece(a, k)
    <3>1. [session |-> a, body |-> Piece(a, j)] = [session |-> a, body |-> Piece(a, k)]
      BY ChunksAre, Zenon
    <3>2. [session |-> a, body |-> Piece(a, j)].body = [session |-> a, body |-> Piece(a, k)].body
      BY <3>1, Zenon
    <3> QED  BY <3>1, <3>2
  <2> QED  BY <2>1, <2>2, <1>1, SMT
<1> QED  BY <1>2, <1>3

-----------------------------------------------------------------------------
(* What a transfer makes of the chunks *)

LEMMA TransferFields ==
  ASSUME NEW t \in Transfer
  PROVE  /\ t.at \in {"write", "chunks", "notes", "obj", "end"} /\ t.session \in Attempts
         /\ t.known \in BOOLEAN /\ t.received \in Nat /\ t.objLeft \in Nat
         /\ t.tmp \in Seq(Byte) /\ t.notes \in Seq(Byte)
         /\ t.errWrite \in BOOLEAN /\ t.errRecv \in BOOLEAN
BY DEF Transfer

LEMMA NewTransferIs ==
  ASSUME NEW a \in Attempts, ExitCode[a] = "ok", NEW at \in {"write", "chunks"}
  PROVE  /\ NewTransfer(a, at) \in Transfer
         /\ NewTransfer(a, at).at = at /\ NewTransfer(a, at).session = a
         /\ NewTransfer(a, at).known = (a \in Active) /\ ~ NewTransfer(a, at).errRecv
         /\ Progress(NewTransfer(a, at), 0)
<1>1. /\ ObjSize[a] \in Nat /\ <<>> \in Seq(Byte)
  BY FilesAre
<1>2. /\ NewTransfer(a, at) \in Transfer
      /\ NewTransfer(a, at).at = at /\ NewTransfer(a, at).session = a
      /\ NewTransfer(a, at).known = (a \in Active) /\ ~ NewTransfer(a, at).errRecv
      /\ NewTransfer(a, at).received = 0 /\ NewTransfer(a, at).objLeft = ObjSize[a]
      /\ NewTransfer(a, at).tmp = <<>> /\ NewTransfer(a, at).notes = <<>>
  BY <1>1 DEF NewTransfer, Transfer
<1>3. ObjPart(a, 0) = 0 /\ NotesPart(a, 0) = 0
  BY PartsGrow
<1>4. SubSeq(Obj(a), 1, 0) = <<>> /\ SubSeq(Notes(a), 1, 0) = <<>>
  BY SubSeqEmpty
<1>5. Progress(NewTransfer(a, at), 0)
  BY <1>1, <1>2, <1>3, <1>4, SMT DEF Progress
<1> QED  BY <1>2, <1>5

(***************************************************************************)
(* Take splits the bytes between the two files as Chunks joined them, and  *)
(* counts on when it can't write.                                          *)
(***************************************************************************)
LEMMA TakeIs ==
  ASSUME NEW t \in Transfer, ExitCode[t.session] = "ok",
         NEW j \in Nat, j < LastChunk(t.session), Progress(t, j),
         NEW succeeds \in BOOLEAN
  PROVE  LET u == Take(t, Piece(t.session, j + 1), succeeds) IN
         /\ u \in Transfer
         /\ u.at = t.at /\ u.session = t.session /\ u.known = t.known /\ u.errRecv = t.errRecv
         /\ Progress(u, j + 1)
<1> DEFINE a == t.session
           body == Piece(a, j + 1)
           n == Min({Len(body), t.objLeft})
           u == Take(t, body, succeeds)
<1>1. /\ a \in Attempts /\ t.received \in Nat /\ t.objLeft \in Nat /\ t.errWrite \in BOOLEAN
      /\ t.tmp \in Seq(Byte) /\ t.notes \in Seq(Byte)
  BY TransferFields
<1>2. /\ Obj(a) \in Seq(Byte) /\ Len(Obj(a)) = ObjSize[a]
      /\ Notes(a) \in Seq(Byte) /\ Len(Notes(a)) = NotesSize[a]
      /\ ObjSize[a] \in Nat \ {0} /\ NotesSize[a] \in Nat
  BY <1>1, FilesAre
<1>3. /\ ObjChunks(a) \in Nat \ {0} /\ LastChunk(a) \in Nat \ {0}
      /\ j + 1 \in 1 .. LastChunk(a) /\ (j + 1) - 1 = j /\ j + 1 \in Nat
  BY <1>1, ChunksFacts, SMT
<1>4. /\ ObjPart(a, j) \in 0 .. ObjSize[a] /\ ObjPart(a, j + 1) \in 0 .. ObjSize[a]
      /\ NotesPart(a, j) \in 0 .. NotesSize[a] /\ NotesPart(a, j + 1) \in 0 .. NotesSize[a]
  BY <1>1, <1>3, PartsGrow
<1>5. body \in Seq(Byte) /\ Len(body) \in Nat
  BY <1>1, <1>3, PieceIs, LenProperties
<1>6. /\ t.received = ObjPart(a, j) + NotesPart(a, j)
      /\ t.objLeft = ObjSize[a] - ObjPart(a, j)
      /\ t.notes = SubSeq(Notes(a), 1, NotesPart(a, j))
      /\ t.errWrite \/ t.tmp = SubSeq(Obj(a), 1, ObjPart(a, j))
  BY Zenon DEF Progress
<1>7. n = IF Len(body) <= t.objLeft THEN Len(body) ELSE t.objLeft
  BY <1>1, <1>5, MinOfTwo
<1> HIDE DEF a, body, n, u
<1>8. /\ SubSeq(body, 1, n) \in Seq(Byte) /\ SubSeq(body, n + 1, Len(body)) \in Seq(Byte)
      /\ n \in Nat /\ n <= t.objLeft
  <2>1. n \in 0 .. Len(body) /\ n \in Int /\ n + 1 \in Int /\ 1 \in Int /\ Len(body) \in Int
        /\ n <= t.objLeft
    BY <1>1, <1>5, <1>7, SMT
  <2>2. /\ \A i \in 1 .. n : i \in 1 .. Len(body)
        /\ \A i \in n + 1 .. Len(body) : i \in 1 .. Len(body)
    BY <2>1, SMT
  <2>3. /\ \A i \in 1 .. n : body[i] \in Byte
        /\ \A i \in n + 1 .. Len(body) : body[i] \in Byte
    BY <2>2, <1>5, ElementOfSeq
  <2>4. SubSeq(body, 1, n) \in Seq(Byte)
    BY <2>1, <2>3, SubSeqProperties
  <2>5. SubSeq(body, n + 1, Len(body)) \in Seq(Byte)
    BY <2>1, <2>3, SubSeqProperties
  <2> QED  BY <2>1, <2>4, <2>5, SMT
<1> DEFINE objBytes == SubSeq(body, 1, n)
           noteBytes == SubSeq(body, n + 1, Len(body))
<1>9. u = [t EXCEPT !.tmp = IF t.errWrite \/ ~ succeeds THEN @ ELSE @ \o objBytes,
                    !.notes = @ \o noteBytes,
                    !.objLeft = @ - n,
                    !.received = @ + Len(body),
                    !.errWrite = t.errWrite \/ ~ succeeds]
  BY Zenon DEF Take, n, u
<1> HIDE DEF objBytes, noteBytes
<1>10. /\ t.tmp \o objBytes \in Seq(Byte) /\ t.notes \o noteBytes \in Seq(Byte)
       /\ t.objLeft - n \in Nat /\ t.received + Len(body) \in Nat
  <2>1. objBytes \in Seq(Byte) /\ noteBytes \in Seq(Byte)
    BY <1>8 DEF objBytes, noteBytes
  <2>2. t.tmp \o objBytes \in Seq(Byte)
    BY <2>1, <1>1, ConcatProperties
  <2>3. t.notes \o noteBytes \in Seq(Byte)
    BY <2>1, <1>1, ConcatProperties
  <2> QED  BY <2>2, <2>3, <1>1, <1>5, <1>8, SMT
<1>11. /\ u \in Transfer
       /\ u.at = t.at /\ u.session = t.session /\ u.known = t.known /\ u.errRecv = t.errRecv
       /\ u.received = t.received + Len(body) /\ u.objLeft = t.objLeft - n
       /\ u.notes = t.notes \o noteBytes
       /\ u.errWrite = (t.errWrite \/ ~ succeeds)
       /\ u.errWrite \/ u.tmp = t.tmp \o objBytes
  BY <1>1, <1>9, <1>10 DEF Transfer
<1>12. /\ u.received = ObjPart(a, j + 1) + NotesPart(a, j + 1)
       /\ u.objLeft = ObjSize[a] - ObjPart(a, j + 1)
       /\ u.notes = SubSeq(Notes(a), 1, NotesPart(a, j + 1))
       /\ u.errWrite \/ u.tmp = SubSeq(Obj(a), 1, ObjPart(a, j + 1))
  <2>1. CASE j + 1 <= ObjChunks(a)
    <3>1. /\ body = SubSeq(Obj(a), ObjPart(a, j) + 1, ObjPart(a, j + 1))
          /\ Len(body) = ObjPart(a, j + 1) - ObjPart(a, j)
      BY <2>1, <1>1, <1>3, PieceIs DEF body, a
    <3>2. /\ NotesPart(a, j) = 0 /\ NotesPart(a, j + 1) = 0
      <4>1. j <= ObjChunks(a) /\ j + 1 <= ObjChunks(a)
        BY <2>1, <1>3, SMT
      <4> QED  BY <4>1, <1>1, <1>3, PartsGrow DEF a
    <3>3. n = Len(body)
      BY <3>1, <1>4, <1>6, <1>7, <1>2, SMT
    <3>4. objBytes = body
      BY <3>3, <1>5, SubSeqFull DEF objBytes
    <3>5. noteBytes = <<>>
      <4>1. Len(body) < n + 1 /\ n + 1 \in Int /\ Len(body) \in Int
        BY <3>3, <1>5, SMT
      <4> QED  BY <4>1, SubSeqEmpty DEF noteBytes
    <3>6. u.notes = SubSeq(Notes(a), 1, NotesPart(a, j + 1))
      BY <3>2, <3>5, <1>1, <1>6, <1>11, ConcatEmptySeq
    <3>7. SubSeq(Obj(a), 1, ObjPart(a, j)) \o body = SubSeq(Obj(a), 1, ObjPart(a, j + 1))
      <4>1. /\ 1 \in 1 .. Len(Obj(a)) + 1 /\ ObjPart(a, j) \in 1 - 1 .. Len(Obj(a))
            /\ ObjPart(a, j + 1) \in ObjPart(a, j) .. Len(Obj(a))
        BY <3>1, <1>2, <1>4, <1>5, SMT
      <4> QED  BY <4>1, <3>1, <1>2, ConcatAdjacentSubSeq
    <3>8. u.errWrite \/ u.tmp = SubSeq(Obj(a), 1, ObjPart(a, j + 1))
      BY <3>4, <3>7, <1>1, <1>6, <1>11, Zenon
    <3>9. /\ u.received = ObjPart(a, j + 1) + NotesPart(a, j + 1)
          /\ u.objLeft = ObjSize[a] - ObjPart(a, j + 1)
      <4>1. /\ t.received = ObjPart(a, j) + NotesPart(a, j)
            /\ t.objLeft = ObjSize[a] - ObjPart(a, j)
            /\ u.received = t.received + Len(body) /\ u.objLeft = t.objLeft - n
            /\ Len(body) = ObjPart(a, j + 1) - ObjPart(a, j)
        BY <1>6, <1>11, <3>1
      <4>2. ObjPart(a, j) \in Int /\ ObjPart(a, j + 1) \in Int /\ ObjSize[a] \in Int
        BY <1>2, <1>4, SMT
      <4>3. u.received = ObjPart(a, j + 1)
        BY <4>1, <4>2, <3>2, SMT
      <4>4. u.objLeft = ObjSize[a] - ObjPart(a, j + 1)
        BY <4>1, <4>2, <3>3, SMT
      <4> QED  BY <4>2, <4>3, <4>4, <3>2, SMT
    <3> QED  BY <3>6, <3>8, <3>9
  <2>2. CASE j + 1 > ObjChunks(a)
    <3>1. /\ body = SubSeq(Notes(a), NotesPart(a, j) + 1, NotesPart(a, j + 1))
          /\ Len(body) = NotesPart(a, j + 1) - NotesPart(a, j)
      BY <2>2, <1>1, <1>3, PieceIs DEF body, a
    <3>2. j >= ObjChunks(a) /\ j + 1 >= ObjChunks(a)
      BY <2>2, <1>3, SMT
    <3>3. ObjPart(a, j) = ObjSize[a] /\ ObjPart(a, j + 1) = ObjSize[a]
      BY <3>2, <1>1, <1>3, PartsGrow DEF a
    <3>4. n = 0 /\ t.objLeft = 0
      BY <3>3, <1>2, <1>5, <1>6, <1>7, SMT
    <3>5. objBytes = <<>>
      <4>1. n < 1 /\ n \in Int /\ 1 \in Int
        BY <3>4, SMT
      <4> QED  BY <4>1, SubSeqEmpty DEF objBytes
    <3>6. noteBytes = body
      <4>1. n + 1 = 1
        BY <3>4
      <4> QED  BY <4>1, <1>5, SubSeqFull DEF noteBytes
    <3>7. SubSeq(Notes(a), 1, NotesPart(a, j)) \o body = SubSeq(Notes(a), 1, NotesPart(a, j + 1))
      <4>1. /\ 1 \in 1 .. Len(Notes(a)) + 1 /\ NotesPart(a, j) \in 1 - 1 .. Len(Notes(a))
            /\ NotesPart(a, j + 1) \in NotesPart(a, j) .. Len(Notes(a))
        BY <3>1, <1>2, <1>4, <1>5, SMT
      <4> QED  BY <4>1, <3>1, <1>2, ConcatAdjacentSubSeq
    <3>8. u.notes = SubSeq(Notes(a), 1, NotesPart(a, j + 1))
      BY <3>6, <3>7, <1>6, <1>11, Zenon
    <3>9. t.tmp \o objBytes = t.tmp
      BY <3>5, <1>1, ConcatEmptySeq
    <3>10. u.errWrite \/ u.tmp = SubSeq(Obj(a), 1, ObjPart(a, j + 1))
      BY <3>3, <3>9, <1>1, <1>6, <1>11, Zenon
    <3>11. /\ u.received = ObjPart(a, j + 1) + NotesPart(a, j + 1)
           /\ u.objLeft = ObjSize[a] - ObjPart(a, j + 1)
      <4>1. /\ t.received = ObjPart(a, j) + NotesPart(a, j)
            /\ u.received = t.received + Len(body) /\ u.objLeft = t.objLeft - n
            /\ Len(body) = NotesPart(a, j + 1) - NotesPart(a, j)
        BY <1>6, <1>11, <3>1
      <4> QED  BY <4>1, <3>3, <3>4, <1>2, <1>4, SMT
    <3> QED  BY <3>8, <3>10, <3>11
  <2> QED  BY <2>1, <2>2, <1>3, SMT
<1>13. Progress(u, j + 1)
  <2>1. u.session = a
    BY <1>11 DEF a
  <2> QED  BY <2>1, <1>12, Zenon DEF Progress
<1> QED  BY <1>11, <1>13 DEF u, body, a

(***************************************************************************)
(* The client stops reading when the last chunk has come, and has then the *)
(* two files.                                                              *)
(***************************************************************************)
LEMMA ReadToTheEnd ==
  ASSUME NEW t \in Transfer, ExitCode[t.session] = "ok",
         NEW j \in 1 .. LastChunk(t.session), Progress(t, j)
  PROVE  /\ MoreToRead(t) <=> j < LastChunk(t.session)
         /\ j = LastChunk(t.session) =>
              t.notes = Notes(t.session) /\ (t.errWrite \/ t.tmp = Obj(t.session))
<1> DEFINE a == t.session
<1>1. a \in Attempts
  BY TransferFields
<1>2. /\ Obj(a) \in Seq(Byte) /\ Len(Obj(a)) = ObjSize[a]
      /\ Notes(a) \in Seq(Byte) /\ Len(Notes(a)) = NotesSize[a]
      /\ ObjSize[a] \in Nat \ {0} /\ NotesSize[a] \in Nat
  BY <1>1, FilesAre
<1>3. /\ ObjChunks(a) \in Nat \ {0} /\ NotesChunks(a) \in Nat /\ LastChunk(a) \in Nat \ {0}
      /\ LastChunk(a) = ObjChunks(a) + NotesChunks(a) /\ j \in Nat
  BY <1>1, ChunksFacts, SMT
<1>4. /\ t.received = ObjPart(a, j) + NotesPart(a, j)
      /\ t.notes = SubSeq(Notes(a), 1, NotesPart(a, j))
      /\ t.errWrite \/ t.tmp = SubSeq(Obj(a), 1, ObjPart(a, j))
  BY Zenon DEF Progress
<1>5. ObjPart(a, j) \in 0 .. ObjSize[a] /\ NotesPart(a, j) \in 0 .. NotesSize[a]
  BY <1>1, <1>3, PartsGrow
<1>6. CASE j = LastChunk(a)
  <2>1. ObjPart(a, j) = ObjSize[a] /\ NotesPart(a, j) = NotesSize[a]
    <3>1. j >= ObjChunks(a)
      BY <1>3, <1>6, SMT
    <3> QED  BY <3>1, <1>1, <1>3, <1>6, PartsGrow
  <2>2. ~ MoreToRead(t)
    BY <2>1, <1>2, <1>4, SMT DEF MoreToRead
  <2>3. SubSeq(Obj(a), 1, ObjSize[a]) = Obj(a) /\ SubSeq(Notes(a), 1, NotesSize[a]) = Notes(a)
    BY <1>2, SubSeqFull
  <2>4. ~ (j < LastChunk(a))
    BY <1>3, <1>6, SMT
  <2> QED  BY <2>1, <2>2, <2>3, <2>4, <1>4, <1>6, Zenon
<1>7. CASE j # LastChunk(a)
  <2>1. j < LastChunk(a)
    BY <1>3, <1>7, SMT
  <2>2. CASE j < ObjChunks(a)
    <3>1. ObjPart(a, j) < ObjPart(a, j + 1) /\ ObjPart(a, j + 1) \in 0 .. ObjSize[a]
      <4>1. j + 1 \in Nat
        BY <1>3, SMT
      <4> QED  BY <4>1, <2>2, <1>1, <1>3, PartsGrow
    <3> QED  BY <3>1, <2>1, <1>2, <1>3, <1>4, <1>5, <1>7, SMT DEF MoreToRead
  <2>3. CASE ~ (j < ObjChunks(a))
    <3>1. NotesPart(a, j) < NotesPart(a, j + 1) /\ NotesPart(a, j + 1) \in 0 .. NotesSize[a]
      <4>1. j + 1 \in Nat /\ j >= ObjChunks(a)
        BY <2>3, <1>3, SMT
      <4> QED  BY <4>1, <2>1, <1>1, <1>3, PartsGrow
    <3>2. ObjPart(a, j) = ObjSize[a]
      <4>1. j >= ObjChunks(a)
        BY <2>3, <1>3, SMT
      <4> QED  BY <4>1, <1>1, <1>3, PartsGrow
    <3> QED  BY <3>1, <3>2, <2>1, <1>2, <1>3, <1>4, <1>5, <1>7, SMT DEF MoreToRead
  <2> QED  BY <2>2, <2>3
<1> QED  BY <1>6, <1>7

(***************************************************************************)
(* A body that is saved at once is all that the session sends.             *)
(***************************************************************************)
LEMMA WholeIsAll ==
  ASSUME NEW a \in Attempts, ExitCode[a] = "ok", IsWhole(a, Piece(a, 1))
  PROVE  /\ Piece(a, 1) = Obj(a) /\ LastChunk(a) = 1
         /\ NotesSize[a] = 0 /\ ObjSize[a] <= ChunkSize
<1>1. /\ ObjSize[a] \in Nat \ {0} /\ NotesSize[a] = 0 /\ ChunkSize \in Nat \ {0}
      /\ Obj(a) \in Seq(Byte) /\ Len(Obj(a)) = ObjSize[a]
      /\ Len(Piece(a, 1)) >= ObjSize[a] + NotesSize[a]
  BY FilesAre, ObjTransferAssumption DEF IsWhole
<1>2. /\ ObjChunks(a) \in Nat \ {0} /\ NotesChunks(a) \in Nat
      /\ LastChunk(a) = ObjChunks(a) + NotesChunks(a)
  BY ChunksFacts
<1>3. /\ 1 \in 1 .. LastChunk(a) /\ 1 <= ObjChunks(a) /\ 1 - 1 = 0
  BY <1>2, SMT
<1>4. ObjPart(a, 0) = 0 /\ ObjPart(a, 1) \in 0 .. ObjSize[a]
  BY PartsGrow
<1>5. /\ Piece(a, 1) = SubSeq(Obj(a), ObjPart(a, 0) + 1, ObjPart(a, 1))
      /\ Len(Piece(a, 1)) = ObjPart(a, 1) - ObjPart(a, 0)
  BY <1>3, PieceIs
<1>6. ObjPart(a, 1) = ObjSize[a] /\ ObjPart(a, 0) + 1 = 1
  BY <1>1, <1>4, <1>5, SMT
<1>7. Piece(a, 1) = Obj(a)
  BY <1>1, <1>5, <1>6, SubSeqFull
<1>8. ObjChunks(a) = 1
  <2>1. 1 < ObjChunks(a) => ObjPart(a, 1) < ObjSize[a]
    BY <1>1, FilledUp DEF ObjChunks, ObjPart
  <2> QED  BY <2>1, <1>2, <1>6, <1>1, SMT
<1>9. NotesChunks(a) = 0
  <2>1. NotesChunks(a) * ChunkSize < 0 + ChunkSize
    BY <1>1, PiecesSuffice DEF NotesChunks
  <2>2. NotesChunks(a) >= 1 => NotesChunks(a) * ChunkSize >= ChunkSize
    BY <1>1, <1>2, SMT
  <2>3. NotesChunks(a) * ChunkSize \in Nat
    BY <1>1, <1>2, SMT
  <2> QED  BY <2>1, <2>2, <2>3, <1>1, <1>2, SMT
<1>10. ObjSize[a] <= ChunkSize
  <2>1. ObjChunks(a) * ChunkSize >= ObjSize[a]
    BY <1>1, PiecesSuffice DEF ObjChunks
  <2> QED  BY <2>1, <1>8, <1>1, SMT
<1> QED  BY <1>1, <1>2, <1>7, <1>8, <1>9, <1>10, SMT

-----------------------------------------------------------------------------
(* Streams *)

LEMMA Constants ==
  \A a \in Attempts : /\ Request[a] \in Requests /\ Stream[a] \in Streams
                      /\ ExitCode[a] \in {"ok", "error", "killed"}
BY ObjTransferAssumption DEF Requests, Streams

\* The goroutine of a stream is idle or about a transfer.
LEMMA AtTransfer ==
  ASSUME Typed, NEW s \in Streams
  PROVE  /\ receiving[s] # Idle => receiving[s] \in Transfer
         /\ receiving[s].at # "idle" => receiving[s] \in Transfer /\ receiving[s] # Idle
         /\ receiving[s] = Idle => receiving[s].at = "idle"
<1>1. receiving[s] \in Transfer \cup {Idle}
  BY DEF Typed
<1>2. Idle.at = "idle"
  BY DEF Idle
<1> QED  BY <1>1, <1>2

(***************************************************************************)
(* What happens on other streams leaves a stream alone.                    *)
(***************************************************************************)
LEMMA OtherStream ==
  ASSUME NEW s \in Streams, StreamOk(s),
         wire'[s] = wire[s], s \in broken' <=> s \in broken, receiving'[s] = receiving[s],
         sent \subseteq sent',
         \A a \in Attempts : Stream[a] = s /\ result[a] \in {"none", "error"}
                               => result'[a] \in {"none", "error"},
         receiving[s] # Idle => receiving[s].session \in Attempts
  PROVE  StreamOk(s)'
<1>1. WireOk(s)'
  <2>1. Orderly(s, wire[s], sent')
    BY DEF StreamOk, WireOk, Orderly
  <2> QED  BY <2>1, Zenon DEF StreamOk, WireOk, Complete
<1>2. StepOk(s)'
  BY Zenon DEF StreamOk, StepOk, Coming, StartsSession
<1>3. receiving'[s] # Idle => OfTransfer(s, receiving[s])'
  <2>1. SUFFICES ASSUME receiving'[s] # Idle PROVE OfTransfer(s, receiving[s])'
    OBVIOUS
  <2>2. OfTransfer(s, receiving[s]) /\ receiving[s].session \in Attempts
    BY <2>1, Zenon DEF StreamOk
  <2> QED  BY <2>2, Zenon DEF OfTransfer
<1> QED  BY <1>1, <1>2, <1>3, Zenon DEF StreamOk

(***************************************************************************)
(* Of orderly chunks the first is read, and what comes next follows it.    *)
(***************************************************************************)
LEMMA OrderlyTail ==
  ASSUME NEW s, NEW S \in SUBSET Attempts, NEW w \in Seq(Chunk), w # <<>>, Orderly(s, w, S)
  PROVE  /\ Orderly(s, Tail(w), S) /\ Tail(w) \in Seq(Chunk)
         /\ Complete(w) => Complete(Tail(w))
         /\ IsOf(s, Head(w)) /\ Head(w).session \in S
         /\ Tail(w) = <<>> /\ Complete(w) => EndsSession(Head(w))
         /\ Tail(w) # <<>> => Follows(Head(w), Head(Tail(w)))
<1>1. /\ Len(w) \in Nat \ {0} /\ Tail(w) \in Seq(Chunk) /\ Len(Tail(w)) = Len(w) - 1
      /\ \A k \in 1 .. Len(Tail(w)) : Tail(w)[k] = w[k + 1]
      /\ Head(w) = w[1]
      /\ Tail(w) # <<>> => Len(Tail(w)) \in Nat \ {0} /\ Head(Tail(w)) = Tail(w)[1]
      /\ Len(<<>>) = 0
  <2>1. /\ Tail(w) \in Seq(Chunk) /\ Len(Tail(w)) = Len(w) - 1
        /\ \A k \in 1 .. Len(Tail(w)) : Tail(w)[k] = w[k + 1]
    BY HeadTailProperties
  <2>2. /\ Len(w) \in Nat \ {0} /\ Len(<<>>) = 0
        /\ Tail(w) # <<>> => Len(Tail(w)) \in Nat \ {0}
    BY <2>1, EmptySeq
  <2>3. \A v : Head(v) = v[1]
    OBVIOUS
  <2> QED  BY <2>1, <2>2, <2>3
<1>2. /\ \A k \in 1 .. Len(w) : IsOf(s, w[k]) /\ w[k].session \in S
      /\ \A k \in 1 .. Len(w) - 1 : Follows(w[k], w[k + 1])
  BY DEF Orderly
<1>3. \A k \in 1 .. Len(Tail(w)) : IsOf(s, Tail(w)[k]) /\ Tail(w)[k].session \in S
  <2>1. \A k \in 1 .. Len(Tail(w)) : k + 1 \in 1 .. Len(w)
    BY <1>1, SMT
  <2> QED  BY <2>1, <1>1, <1>2
<1>4. \A k \in 1 .. Len(Tail(w)) - 1 : Follows(Tail(w)[k], Tail(w)[k + 1])
  <2>1. \A k \in 1 .. Len(Tail(w)) - 1 :
          /\ k + 1 \in 1 .. Len(w) - 1 /\ k \in 1 .. Len(Tail(w)) /\ k + 1 \in 1 .. Len(Tail(w))
    BY <1>1, SMT
  <2> QED  BY <2>1, <1>1, <1>2
<1>5. Complete(w) => Complete(Tail(w))
  <2>1. SUFFICES ASSUME Tail(w) # <<>>, Complete(w) PROVE EndsSession(Tail(w)[Len(Tail(w))])
    BY Zenon DEF Complete
  <2>2. Len(Tail(w)) \in 1 .. Len(Tail(w)) /\ Len(Tail(w)) + 1 = Len(w)
    BY <2>1, <1>1, SMT
  <2>3. EndsSession(w[Len(w)])
    BY <2>1 DEF Complete
  <2> QED  BY <2>2, <2>3, <1>1
<1>6. IsOf(s, Head(w)) /\ Head(w).session \in S
  <2>1. 1 \in 1 .. Len(w)
    BY <1>1, SMT
  <2> QED  BY <2>1, <1>1, <1>2
<1>7. Tail(w) = <<>> /\ Complete(w) => EndsSession(Head(w))
  <2>1. SUFFICES ASSUME Tail(w) = <<>>, Complete(w) PROVE EndsSession(Head(w))
    OBVIOUS
  <2>2. Len(Tail(w)) = 0
    BY <2>1, <1>1, Zenon
  <2>3. Len(w) = 1
    BY <2>2, <1>1, SMT
  <2> QED  BY <2>1, <2>3, <1>1, Zenon DEF Complete
<1>8. Tail(w) # <<>> => Follows(Head(w), Head(Tail(w)))
  <2>1. SUFFICES ASSUME Tail(w) # <<>> PROVE Follows(Head(w), Head(Tail(w)))
    OBVIOUS
  <2>2. 1 \in 1 .. Len(w) - 1 /\ 1 \in 1 .. Len(Tail(w))
    BY <2>1, <1>1, SMT
  <2> QED  BY <2>1, <2>2, <1>1, <1>2
<1> QED  BY <1>1, <1>3, <1>4, <1>5, <1>6, <1>7, <1>8, Zenon DEF Orderly

\* When a stream breaks, what is left is orderly.
LEMMA OrderlyPrefix ==
  ASSUME NEW s, NEW S, NEW w \in Seq(Chunk), NEW n \in 0 .. Len(w), Orderly(s, w, S)
  PROVE  /\ Orderly(s, SubSeq(w, 1, n), S) /\ SubSeq(w, 1, n) \in Seq(Chunk)
         /\ SubSeq(w, 1, n) # <<>> => w # <<>> /\ Head(SubSeq(w, 1, n)) = Head(w)
<1> DEFINE v == SubSeq(w, 1, n)
<1>1. Len(w) \in Nat
  BY LenProperties
<1>2. 1 \in Int /\ n \in Int /\ n - 1 + 1 = n /\ n \in Nat
      /\ \A i \in 1 .. n : i \in 1 .. Len(w) /\ 1 + i - 1 = i
  BY <1>1, SMT
<1>3. \A i \in 1 .. n : w[i] \in Chunk
  BY <1>2, ElementOfSeq
<1>4. /\ v \in Seq(Chunk) /\ Len(v) = (IF 1 <= n THEN n - 1 + 1 ELSE 0)
      /\ \A i \in 1 .. n - 1 + 1 : v[i] = w[1 + i - 1]
  BY <1>2, <1>3, SubSeqProperties
<1>5. Len(v) = n /\ \A i \in 1 .. n : v[i] = w[i]
  BY <1>2, <1>4, SMT
<1>6. \A k \in 1 .. n - 1 : k \in 1 .. Len(w) - 1 /\ k \in 1 .. n /\ k + 1 \in 1 .. n
  BY <1>1, <1>2, SMT
<1>7. Orderly(s, v, S)
  BY <1>2, <1>5, <1>6 DEF Orderly
<1>8. v # <<>> => w # <<>> /\ Head(v) = Head(w)
  <2>1. SUFFICES ASSUME v # <<>> PROVE w # <<>> /\ Head(v) = Head(w)
    OBVIOUS
  <2>2. Len(v) \in Nat \ {0} /\ Len(<<>>) = 0
    BY <2>1, <1>4, EmptySeq
  <2>3. 1 \in 1 .. n /\ w # <<>>
    BY <2>2, <1>1, <1>2, <1>5, SMT
  <2>4. Head(v) = v[1] /\ Head(w) = w[1]
    BY <2>1, <2>3, <1>4, HeadTailProperties
  <2> QED  BY <2>3, <2>4, <1>5
<1> QED  BY <1>4, <1>7, <1>8

\* A session may be sent after complete ones.
LEMMA OrderlyJoin ==
  ASSUME NEW a \in Attempts, NEW S, NEW w \in Seq(Chunk), Orderly(Stream[a], w, S), Complete(w)
  PROVE  /\ Orderly(Stream[a], w \o Chunks(a), S \cup {a})
         /\ w \o Chunks(a) \in Seq(Chunk) /\ Complete(w \o Chunks(a))
         /\ w \o Chunks(a) # <<>>
         /\ Head(w \o Chunks(a)) = IF w = <<>> THEN Chunks(a)[1] ELSE Head(w)
<1> DEFINE s == Stream[a]
           cs == Chunks(a)
           v == w \o cs
           n == Len(w)
           last == LastChunk(a)
<1>1. /\ cs \in Seq(Chunk) /\ Len(cs) = last /\ last \in Nat \ {0}
      /\ \A k \in 1 .. last : cs[k].session = a
  BY ChunksAre, ChunksFacts, ChunkIs
<1>2. n \in Nat /\ (w = <<>> => n = 0) /\ (w # <<>> => n \in Nat \ {0})
  BY LenProperties, EmptySeq
<1>3. /\ v \in Seq(Chunk) /\ Len(v) = n + last
      /\ \A k \in 1 .. n + last : v[k] = IF k <= n THEN w[k] ELSE cs[k - n]
  BY <1>1, ConcatProperties
<1>4. /\ \A k \in 1 .. n : IsOf(s, w[k]) /\ w[k].session \in S
      /\ \A k \in 1 .. n - 1 : Follows(w[k], w[k + 1])
      /\ w = <<>> \/ EndsSession(w[n])
  BY DEF Orderly, Complete
<1> HIDE DEF s, cs, v, n, last
<1>5. /\ \A k \in 1 .. n : v[k] = w[k]
      /\ \A k \in n + 1 .. n + last : v[k] = cs[k - n] /\ k - n \in 1 .. last
  <2>1. /\ \A k \in 1 .. n : k <= n /\ k \in 1 .. n + last
        /\ \A k \in n + 1 .. n + last : ~ (k <= n) /\ k \in 1 .. n + last /\ k - n \in 1 .. last
    BY <1>1, <1>2, SMT
  <2> QED  BY <2>1, <1>3
<1>6. \A k \in 1 .. last : IsOf(s, cs[k])
  BY <1>1, Zenon DEF IsOf, s, cs, last
<1>7. \A k \in 1 .. Len(v) : IsOf(s, v[k]) /\ v[k].session \in S \cup {a}
  <2>1. \A k \in 1 .. n + last : k \in 1 .. n \/ k \in n + 1 .. n + last
    BY <1>1, <1>2, SMT
  <2>2. \A k \in 1 .. n : IsOf(s, v[k]) /\ v[k].session \in S \cup {a}
    BY <1>4, <1>5
  <2>3. \A k \in n + 1 .. n + last : IsOf(s, v[k]) /\ v[k].session \in S \cup {a}
    BY <1>1, <1>5, <1>6
  <2> QED  BY <2>1, <2>2, <2>3, <1>3
<1>8. ASSUME NEW k \in 1 .. Len(v) - 1 PROVE Follows(v[k], v[k + 1])
  <2>1. k \in 1 .. n + last - 1 /\ k \in Nat
    BY <1>3, <1>1, <1>2, SMT
  <2>2. CASE k < n
    <3>1. k \in 1 .. n - 1 /\ k \in 1 .. n /\ k + 1 \in 1 .. n
      BY <2>1, <2>2, <1>2, SMT
    <3> QED  BY <3>1, <1>4, <1>5
  <2>3. CASE k = n
    <3>1. /\ n \in 1 .. n /\ n + 1 \in n + 1 .. n + last /\ (n + 1) - n = 1 /\ 1 \in 1 .. last
          /\ n # 0
      BY <2>1, <2>3, <1>1, <1>2, SMT
    <3>2. v[n] = w[n] /\ v[n + 1] = cs[1]
      BY <3>1, <1>5
    <3>3. EndsSession(w[n]) /\ IsOf(s, w[n])
      BY <3>1, <1>2, <1>4
    <3>4. PICK j \in 1 .. LastChunk(w[n].session) : w[n] = Chunks(w[n].session)[j]
      BY <3>3 DEF IsOf
    <3>5. LastChunk(w[n].session) \in Nat \ {0}
      <4>1. w[n] \in Chunk
        BY <3>1, ElementOfSeq DEF n
      <4> QED  BY <4>1, ChunksFacts DEF Chunk
    <3>6. /\ LastChunk(w[n].session) \in 1 .. LastChunk(w[n].session)
          /\ ~ (LastChunk(w[n].session) < LastChunk(w[n].session))
      BY <3>5, SMT
    <3>7. cs[1] = Chunks(cs[1].session)[1]
      BY <3>1, <1>1 DEF cs
    <3> QED  BY <3>2, <3>3, <3>6, <3>7, <2>3, Zenon DEF Follows, EndsSession
  <2>4. CASE k > n
    <3>1. /\ k \in n + 1 .. n + last /\ k + 1 \in n + 1 .. n + last /\ (k + 1) - n = (k - n) + 1
          /\ k - n \in 1 .. last /\ k - n < last
      BY <2>1, <2>4, <1>1, <1>2, SMT
    <3>2. v[k] = cs[k - n] /\ v[k + 1] = cs[(k - n) + 1] /\ v[k].session = a
      BY <3>1, <1>1, <1>5
    <3> QED  BY <3>1, <3>2, Zenon DEF Follows, cs, last
  <2> QED  BY <2>1, <2>2, <2>3, <2>4, <1>2, SMT
<1>9. Orderly(s, v, S \cup {a})
  BY <1>7, <1>8 DEF Orderly
<1>10. Complete(v) /\ v # <<>>
  <2>1. n + last \in n + 1 .. n + last /\ (n + last) - n = last /\ n + last # 0
        /\ last \in 1 .. last
    BY <1>1, <1>2, SMT
  <2>2. v[Len(v)] = cs[last] /\ cs[last].session = a
    BY <2>1, <1>1, <1>3, <1>5
  <2>3. v # <<>>
    BY <2>1, <1>3, EmptySeq
  <2> QED  BY <2>2, <2>3, Zenon DEF Complete, EndsSession, cs, last
<1>11. Head(v) = IF w = <<>> THEN cs[1] ELSE Head(w)
  <2>1. Head(v) = v[1]
    BY <1>3, <1>10, HeadTailProperties
  <2>2. CASE w = <<>>
    <3>1. 1 \in n + 1 .. n + last /\ 1 - n = 1
      BY <2>2, <1>1, <1>2, SMT
    <3> QED  BY <3>1, <2>1, <2>2, <1>5
  <2>3. CASE w # <<>>
    <3>1. 1 \in 1 .. n
      BY <2>3, <1>2, SMT
    <3>2. Head(w) = w[1]
      BY <2>3, HeadTailProperties
    <3> QED  BY <3>1, <3>2, <2>1, <2>3, <1>5
  <2> QED  BY <2>2, <2>3
<1> QED  BY <1>3, <1>9, <1>10, <1>11 DEF s, cs, v

(***************************************************************************)
(* The client reads a chunk.                                               *)
(***************************************************************************)
LEMMA ReadOne ==
  ASSUME Typed, NEW s \in Streams, WireOk(s), wire[s] # <<>>, Read(s),
         broken' = broken, sent' = sent,
         NEW a \in Attempts, NEW j \in 1 .. LastChunk(a), Head(wire[s]) = Chunks(a)[j]
  PROVE  /\ WireOk(s)' /\ wire' \in [Streams -> Seq(Chunk)]
         /\ \A r \in Streams : r # s => wire'[r] = wire[r]
         /\ Stream[a] = s /\ a \in sent
         /\ Coming(s, a, j)'
<1> DEFINE w == wire[s]
<1>1. /\ w \in Seq(Chunk) /\ w # <<>> /\ wire \in [Streams -> Seq(Chunk)]
      /\ sent \in SUBSET Attempts /\ Orderly(s, w, sent) /\ (s \in broken \/ Complete(w))
      /\ wire' = [wire EXCEPT ![s] = Tail(w)]
      /\ Head(w) = Chunks(a)[j]
  BY DEF Typed, WireOk, Read
<1> HIDE DEF w
<1>2. /\ Orderly(s, Tail(w), sent) /\ Tail(w) \in Seq(Chunk)
      /\ Complete(w) => Complete(Tail(w))
      /\ IsOf(s, Head(w)) /\ Head(w).session \in sent
      /\ Tail(w) = <<>> /\ Complete(w) => EndsSession(Head(w))
      /\ Tail(w) # <<>> => Follows(Head(w), Head(Tail(w)))
  BY <1>1, OrderlyTail
<1>3. /\ wire' \in [Streams -> Seq(Chunk)] /\ wire'[s] = Tail(w)
      /\ \A r \in Streams : r # s => wire'[r] = wire[r]
  BY <1>1, <1>2
<1>4. WireOk(s)'
  BY <1>1, <1>2, <1>3, Zenon DEF WireOk
<1>5. Head(w).session = a /\ Stream[a] = s /\ a \in sent
  BY <1>1, <1>2, ChunkIs DEF IsOf
<1>6. Coming(s, a, j)'
  <2>1. LastChunk(a) \in Nat \ {0}
    BY ChunksFacts
  <2>2. CASE Tail(w) = <<>>
    <3>1. s \in broken \/ Head(w) = Chunks(a)[LastChunk(a)]
      BY <2>2, <1>1, <1>2, <1>5, Zenon DEF EndsSession
    <3>2. j < LastChunk(a) => s \in broken
      <4>1. SUFFICES ASSUME j < LastChunk(a), s \notin broken PROVE FALSE
        OBVIOUS
      <4>2. LastChunk(a) \in 1 .. LastChunk(a)
        BY <2>1, SMT
      <4>3. j = LastChunk(a)
        BY <4>1, <4>2, <3>1, <1>1, ChunksDiffer
      <4> QED  BY <4>1, <4>3, <2>1, SMT
    <3> QED  BY <3>2, <2>2, <1>3, Zenon DEF Coming
  <2>3. CASE Tail(w) # <<>>
    <3>1. Follows(Head(w), Head(Tail(w)))
      BY <2>3, <1>2
    <3>2. PICK i \in 1 .. LastChunk(a) :
            /\ Head(w) = Chunks(a)[i]
            /\ Head(Tail(w)) = IF i < LastChunk(a) THEN Chunks(a)[i + 1]
                               ELSE Chunks(Head(Tail(w)).session)[1]
      BY <3>1, <1>5, Zenon DEF Follows
    <3>3. i = j
      BY <3>2, <1>1, ChunksDiffer
    <3> QED  BY <3>2, <3>3, <2>3, <1>3, Zenon DEF Coming, StartsSession
  <2> QED  BY <2>2, <2>3
<1> QED  BY <1>3, <1>4, <1>5, <1>6

Results == [Attempts -> {"unmade", "none", "done", "failed", "error"}]

\* A transfer on stream s decides on an attempt of this stream only.
LEMMA WithResultIs ==
  ASSUME Typed, NEW a \in Attempts, NEW v \in {"done", "failed", "error"}
  PROVE  /\ WithResult(a, v) \in Results
         /\ \A b \in Attempts : b # a => WithResult(a, v)[b] = result[b]
         /\ WithResult(a, v)[a] = IF result[a] = "none" THEN v ELSE result[a]
<1>1. result \in Results
  BY DEF Typed, Results
<1>2. CASE a \in Active
  <2>1. WithResult(a, v) = [result EXCEPT ![a] = v] /\ result[a] = "none"
    BY <1>2 DEF WithResult, Active
  <2> QED  BY <2>1, <1>1 DEF Results
<1>3. CASE a \notin Active
  <2>1. WithResult(a, v) = result /\ result[a] # "none"
    BY <1>3 DEF WithResult, Active
  <2> QED  BY <2>1, <1>1
<1> QED  BY <1>2, <1>3

LEMMA RecreatedIs ==
  ASSUME NEW s, NEW results \in Results
  PROVE  /\ Recreated(s, results) \in Results
         /\ \A b \in Attempts : Recreated(s, results)[b]
              = IF results[b] = "none" /\ Stream[b] = s THEN "error" ELSE results[b]
BY DEF Recreated, Results

(***************************************************************************)
(* A step of stream s leaves the others as they are.                       *)
(***************************************************************************)
LEMMA OtherStreams ==
  ASSUME Inv, NEW s \in Streams,
         \A r \in Streams : r # s => /\ wire'[r] = wire[r] /\ receiving'[r] = receiving[r]
                                     /\ r \in broken' <=> r \in broken,
         sent' = sent,
         \A a \in Attempts : Stream[a] # s => result'[a] = result[a]
  PROVE  \A r \in Streams : r # s => StreamOk(r)'
<1>1. SUFFICES ASSUME NEW r \in Streams, r # s PROVE StreamOk(r)'
  OBVIOUS
<1>2. Typed /\ StreamOk(r)
  BY DEF Inv
<1>3. receiving[r] # Idle => receiving[r].session \in Attempts
  BY <1>2, AtTransfer, TransferFields
<1> QED  BY <1>1, <1>2, <1>3, OtherStream

-----------------------------------------------------------------------------
(* Files *)

\* What endangers an .o does so from then on.
LEMMA EndangersStays ==
  ASSUME sent \subseteq sent'
  PROVE  \A b : Endangers(b) => Endangers(b)'
BY Zenon DEF Endangers

LEMMA KeptStays ==
  ASSUME NEW a \in Attempts, Kept(a), sent \subseteq sent',
         obj'[Request[a]] = obj[Request[a]]
  PROVE  Kept(a)'
BY EndangersStays, Zenon DEF Kept

(***************************************************************************)
(* A step that writes no file, ends no transfer and answers nothing as     *)
(* done.                                                                   *)
(***************************************************************************)
LEMMA FilesKept ==
  ASSUME Typed, Files, obj' = obj, notes' = notes, sent \subseteq sent',
         saved' = saved,
         \A a \in Attempts : result'[a] = "done" => result[a] = "done",
         \A s \in Streams : receiving'[s] = receiving[s] \/ receiving'[s].at \notin {"obj", "end"}
  PROVE  Files'
<1>1. SavedNotes'
  BY Zenon DEF Files, SavedNotes, HasNotes, MayRename
<1>2. NotesBeforeObj'
  BY Zenon DEF Files, NotesBeforeObj
<1>3. SavedObj'
  <2>1. SUFFICES ASSUME NEW s \in Streams, receiving[s].at = "end", receiving'[s] = receiving[s],
                        receiving[s].known, ~ receiving[s].errWrite, ~ receiving[s].errRecv
                 PROVE  Kept(receiving[s].session)'
    BY Zenon DEF SavedObj
  <2>2. receiving[s] \in Transfer
    BY <2>1, AtTransfer, Zenon
  <2>3. receiving[s].session \in Attempts
    BY <2>2, TransferFields
  <2>4. Kept(receiving[s].session)
    BY <2>1 DEF Files, SavedObj
  <2> QED  BY <2>1, <2>3, <2>4, KeptStays, Zenon DEF Kept
<1>4. DoneIsWhole'
  <2>1. SUFFICES ASSUME NEW a \in Attempts, result'[a] = "done" PROVE Kept(a)'
    BY Zenon DEF DoneIsWhole, Kept
  <2>2. Kept(a)
    BY <2>1, Zenon DEF Files, DoneIsWhole, Kept
  <2> QED  BY <2>1, <2>2, KeptStays, Zenon
<1> QED  BY <1>1, <1>2, <1>3, <1>4 DEF Files

-----------------------------------------------------------------------------
(* The steps of attempts, servers and the network *)

LEMMA InvFacts ==
  ASSUME Inv
  PROVE  /\ Typed /\ Files
         /\ \A s \in Streams : WireOk(s) /\ StepOk(s)
         /\ \A s \in Streams : receiving[s] # Idle => OfTransfer(s, receiving[s])
BY DEF Inv, StreamOk

LEMMA AttemptSteps ==
  ASSUME Inv, NEW a \in Attempts, StartAttempt(a) \/ ForceInterrupt(a)
  PROVE  Inv'
<1>1. /\ UNCHANGED <<sent, wire, broken, receiving, obj, notes, failures, breaks, saved>>
      /\ interrupts' \in Nat
      /\ \/ result[a] = "unmade" /\ result' = [result EXCEPT ![a] = "none"]
         \/ result[a] = "none" /\ result' = [result EXCEPT ![a] = "error"]
  <2>1. interrupts \in Nat
    BY DEF Inv, Typed
  <2> QED  BY <2>1, SMT DEF StartAttempt, ForceInterrupt, Active
<1>2. Typed /\ Files /\ result \in Results
  BY DEF Inv, Typed, Results
<1>3. /\ result' \in Results
      /\ \A b \in Attempts : result'[b] = "done" => result[b] = "done"
      /\ \A b \in Attempts : result[b] \in {"none", "error"} => result'[b] \in {"none", "error"}
  BY <1>1, <1>2 DEF Results
<1>4. Typed'
  BY <1>1, <1>2, <1>3 DEF Typed, Results
<1>5. Files'
  BY <1>1, <1>2, <1>3, FilesKept
<1>6. ASSUME NEW s \in Streams PROVE StreamOk(s)'
  <2>1. StreamOk(s)
    BY DEF Inv
  <2>2. receiving[s] # Idle => receiving[s].session \in Attempts
    BY <1>2, AtTransfer, TransferFields
  <2> QED  BY <1>1, <1>3, <2>1, <2>2, OtherStream
<1> QED  BY <1>4, <1>5, <1>6 DEF Inv

\* A server queues all chunks of a session at once.
LEMMA ServerSendsKeeps ==
  ASSUME Inv, NEW a \in Attempts, ServerSends(a)
  PROVE  Inv'
<1> DEFINE s == Stream[a]
           w == wire[s]
<1>1. /\ sent' = sent \cup {a}
      /\ wire' = IF s \in broken THEN wire ELSE [wire EXCEPT ![s] = w \o Chunks(a)]
      /\ UNCHANGED <<result, broken, receiving, obj, notes, failures, breaks, interrupts, saved>>
  BY DEF ServerSends
<1>2. s \in Streams
  BY Constants
<1>3. /\ Typed /\ Files /\ wire \in [Streams -> Seq(Chunk)] /\ sent \subseteq Attempts
      /\ WireOk(s) /\ StepOk(s) /\ w \in Seq(Chunk)
      /\ receiving[s] # Idle => OfTransfer(s, receiving[s])
  BY <1>2, InvFacts DEF Typed
<1>4. s \notin broken =>
        /\ Orderly(s, w \o Chunks(a), sent')
        /\ w \o Chunks(a) \in Seq(Chunk) /\ Complete(w \o Chunks(a))
        /\ w \o Chunks(a) # <<>>
        /\ Head(w \o Chunks(a)) = IF w = <<>> THEN Chunks(a)[1] ELSE Head(w)
  BY <1>1, <1>3, OrderlyJoin DEF WireOk
<1>5. /\ wire' \in [Streams -> Seq(Chunk)]
      /\ \A r \in Streams : r # s => wire'[r] = wire[r]
      /\ wire'[s] = IF s \in broken THEN w ELSE w \o Chunks(a)
  BY <1>1, <1>2, <1>3, <1>4
<1>6. Typed'
  BY <1>1, <1>3, <1>5 DEF Typed
<1>7. Files'
  BY <1>1, <1>3, FilesKept
<1>8. ASSUME NEW r \in Streams, r # s \/ s \in broken PROVE StreamOk(r)'
  <2>1. wire'[r] = wire[r]
    BY <1>5, <1>8
  <2>2. StreamOk(r)
    BY DEF Inv
  <2>3. receiving[r] # Idle => receiving[r].session \in Attempts
    BY <1>3, AtTransfer, TransferFields
  <2> QED  BY <1>1, <2>1, <2>2, <2>3, OtherStream
<1>9. ASSUME s \notin broken PROVE StreamOk(s)'
  <2>1. wire'[s] = w \o Chunks(a)
    BY <1>5, <1>9
  <2>2. WireOk(s)'
    BY <2>1, <1>4, <1>9, Zenon DEF WireOk
  <2>3. StartsSession(Chunks(a)[1])
    <3>1. 1 \in 1 .. LastChunk(a)
      BY ChunksFacts, SMT
    <3> QED  BY <3>1, ChunkIs DEF StartsSession
  <2>4. w # <<>> => Head(wire'[s]) = Head(w)
    BY <2>1, <1>4, <1>9
  <2>5. w = <<>> => StartsSession(Head(wire'[s]))
    BY <2>1, <2>3, <1>4, <1>9
  <2>6. StepOk(s)'
    <3>1. CASE receiving[s].at = "chunks"
      <4>1. PICK j \in 1 .. LastChunk(receiving[s].session) :
              Progress(receiving[s], j) /\ Coming(s, receiving[s].session, j)
        BY <3>1, <1>3 DEF StepOk
      <4>2. Coming(s, receiving[s].session, j)'
        BY <4>1, <2>1, <2>4, <2>5, <1>1, <1>4, <1>9, Zenon DEF Coming
      <4> QED  BY <4>1, <4>2, <3>1, <1>1, Zenon DEF StepOk
    <3>2. CASE receiving[s].at # "chunks"
      BY <3>2, <2>4, <2>5, <1>1, <1>3, Zenon DEF StepOk
    <3> QED  BY <3>1, <3>2
  <2>7. receiving'[s] # Idle => OfTransfer(s, receiving[s])'
    BY <1>1, <1>3, <1>9, Zenon DEF OfTransfer
  <2> QED  BY <2>2, <2>6, <2>7 DEF StreamOk
<1> QED  BY <1>2, <1>6, <1>7, <1>8, <1>9 DEF Inv

LEMMA StreamBreaksKeeps ==
  ASSUME Inv, NEW s \in Streams, StreamBreaks(s)
  PROVE  Inv'
<1>1. PICK n \in 0 .. Len(wire[s]) : wire' = [wire EXCEPT ![s] = SubSeq(wire[s], 1, n)]
  BY Zenon DEF StreamBreaks
<1>2. /\ broken' = broken \cup {s} /\ s \notin broken /\ breaks' = breaks + 1
      /\ UNCHANGED <<result, sent, receiving, obj, notes, failures, interrupts, saved>>
  BY DEF StreamBreaks
<1> DEFINE w == wire[s]
<1>3. /\ Typed /\ Files /\ wire \in [Streams -> Seq(Chunk)] /\ sent \subseteq Attempts
      /\ WireOk(s) /\ StepOk(s) /\ w \in Seq(Chunk) /\ breaks \in Nat
      /\ receiving[s] # Idle => OfTransfer(s, receiving[s])
  BY InvFacts DEF Typed
<1>4. /\ Orderly(s, SubSeq(w, 1, n), sent) /\ SubSeq(w, 1, n) \in Seq(Chunk)
      /\ SubSeq(w, 1, n) # <<>> => w # <<>> /\ Head(SubSeq(w, 1, n)) = Head(w)
  BY <1>3, OrderlyPrefix DEF WireOk
<1>5. /\ wire' \in [Streams -> Seq(Chunk)] /\ wire'[s] = SubSeq(w, 1, n)
      /\ \A r \in Streams : r # s => wire'[r] = wire[r]
  BY <1>1, <1>3, <1>4
<1>6. Typed'
  <2>1. breaks' \in Nat
    BY <1>2, <1>3, SMT
  <2> QED  BY <2>1, <1>2, <1>3, <1>5 DEF Typed
<1>7. Files'
  BY <1>2, <1>3, FilesKept
<1>8. \A r \in Streams : r # s => StreamOk(r)'
  BY <1>2, <1>5, OtherStreams
<1>9. StreamOk(s)'
  <2>1. WireOk(s)'
    BY <1>2, <1>4, <1>5, Zenon DEF WireOk
  <2>2. s \in broken' /\ (wire'[s] # <<>> => w # <<>> /\ Head(wire'[s]) = Head(w))
    BY <1>2, <1>4, <1>5
  <2>3. StepOk(s)'
    <3>1. CASE receiving[s].at = "chunks"
      <4>1. PICK j \in 1 .. LastChunk(receiving[s].session) :
              Progress(receiving[s], j) /\ Coming(s, receiving[s].session, j)
        BY <3>1, <1>3 DEF StepOk
      <4>2. Coming(s, receiving[s].session, j)'
        BY <4>1, <2>2, <1>2, Zenon DEF Coming
      <4> QED  BY <4>1, <4>2, <3>1, <1>2, Zenon DEF StepOk
    <3>2. CASE receiving[s].at # "chunks"
      BY <3>2, <2>2, <1>2, <1>3, Zenon DEF StepOk
    <3> QED  BY <3>1, <3>2
  <2>4. receiving'[s] # Idle => OfTransfer(s, receiving[s])'
    BY <1>2, <1>3, Zenon DEF OfTransfer
  <2> QED  BY <2>1, <2>3, <2>4 DEF StreamOk
<1> QED  BY <1>6, <1>7, <1>8, <1>9 DEF Inv

-----------------------------------------------------------------------------
(* The steps of the client's goroutines *)

\* It stays with the invariants that a step of stream s leaves on s itself.
LEMMA Assembled ==
  ASSUME Inv, NEW s \in Streams, Typed', Files', StreamOk(s)',
         \A r \in Streams : r # s => /\ wire'[r] = wire[r] /\ receiving'[r] = receiving[r]
                                     /\ r \in broken' <=> r \in broken,
         sent' = sent,
         \A a \in Attempts : Stream[a] # s => result'[a] = result[a]
  PROVE  Inv'
<1>1. \A r \in Streams : r # s => StreamOk(r)'
  BY OtherStreams
<1> QED  BY <1>1 DEF Inv

LEMMA FirstChunkIs ==
  ASSUME Inv, NEW s \in Streams, NEW a \in Attempts, FirstChunkOf(s, a),
         broken' = broken, sent' = sent
  PROVE  /\ Head(wire[s]) = Chunks(a)[1] /\ Head(wire[s]).body = Piece(a, 1)
         /\ 1 \in 1 .. LastChunk(a)
         /\ WireOk(s)' /\ wire' \in [Streams -> Seq(Chunk)]
         /\ \A r \in Streams : r # s => wire'[r] = wire[r]
         /\ Stream[a] = s /\ a \in sent
         /\ Coming(s, a, 1)'
<1>1. /\ receiving[s] = Idle /\ wire[s] # <<>> /\ Head(wire[s]).session = a /\ Read(s)
  BY DEF FirstChunkOf
<1>2. Typed /\ WireOk(s) /\ StepOk(s)
  BY InvFacts
<1>3. receiving[s].at # "chunks"
  BY <1>1, <1>2, AtTransfer
<1>4. Head(wire[s]) = Chunks(a)[1]
  BY <1>1, <1>2, <1>3 DEF StepOk, StartsSession
<1>5. 1 \in 1 .. LastChunk(a)
  BY ChunksFacts, SMT
<1>6. Head(wire[s]).body = Piece(a, 1)
  BY <1>4, <1>5, ChunkIs
<1>7. /\ WireOk(s)' /\ wire' \in [Streams -> Seq(Chunk)]
      /\ \A r \in Streams : r # s => wire'[r] = wire[r]
      /\ Stream[a] = s /\ a \in sent
      /\ Coming(s, a, 1)'
  BY <1>1, <1>2, <1>4, <1>5, ReadOne
<1> QED  BY <1>4, <1>5, <1>6, <1>7

LEMMA ReceiveFailureKeeps ==
  ASSUME Inv, NEW s \in Streams, NEW a \in Attempts, ReceiveFailure(s, a)
  PROVE  Inv'
<1>1. /\ FirstChunkOf(s, a) /\ ExitCode[a] # "ok"
      /\ UNCHANGED <<sent, broken, receiving, obj, notes, failures, breaks, interrupts, saved>>
  BY DEF ReceiveFailure
<1>2. PICK v \in {"failed", "error"} : result' = WithResult(a, v)
  BY DEF ReceiveFailure
<1>3. Typed /\ Files
  BY InvFacts
<1>4. /\ WireOk(s)' /\ wire' \in [Streams -> Seq(Chunk)]
      /\ \A r \in Streams : r # s => wire'[r] = wire[r]
      /\ Stream[a] = s /\ Coming(s, a, 1)'
  BY <1>1, FirstChunkIs
<1>5. /\ result' \in Results
      /\ \A b \in Attempts : b # a => result'[b] = result[b]
      /\ result'[a] # "done" \/ result[a] = "done"
  BY <1>2, <1>3, WithResultIs
<1>6. Typed'
  BY <1>1, <1>3, <1>4, <1>5 DEF Typed, Results
<1>7. Files'
  BY <1>1, <1>3, <1>5, FilesKept, Zenon
<1>8. StreamOk(s)'
  <2>1. receiving[s] = Idle /\ receiving[s].at # "chunks"
    BY <1>1, <1>3, AtTransfer DEF FirstChunkOf
  <2>2. ~ (1 < LastChunk(a))
    BY <1>1, SMT DEF LastChunk
  <2>3. StepOk(s)'
    BY <2>1, <2>2, <1>1, <1>4, Zenon DEF StepOk, Coming
  <2> QED  BY <2>1, <2>3, <1>1, <1>4, Zenon DEF StreamOk
<1> QED  BY <1>1, <1>4, <1>5, <1>6, <1>7, <1>8, Assembled, Zenon

(***************************************************************************)
(* Where another attempt's .o is written, the .o of an attempt is still a  *)
(* whole one, or endangered by that other one.                             *)
(***************************************************************************)
LEMMA KeptBySibling ==
  ASSUME Typed, NEW a \in Attempts, NEW c \in Attempts, c # a, Kept(c), sent' = sent,
         \A r \in Requests : r # Request[a] => obj'[r] = obj[r],
         obj'[Request[a]] = Obj(a) \/ Endangers(a)
  PROVE  Kept(c)'
<1>1. CASE Request[c] = Request[a]
  <2>1. a \in Siblings(c) /\ a \in Siblings(c) \ {c}
    BY <1>1 DEF Siblings
  <2>2. CASE obj'[Request[a]] = Obj(a)
    BY <2>1, <2>2, <1>1, Zenon DEF Kept
  <2>3. CASE Endangers(a)
    BY <2>1, <2>3, <1>1, EndangersStays, Zenon DEF Kept
  <2> QED  BY <2>2, <2>3
<1>2. CASE Request[c] # Request[a]
  BY <1>2, KeptStays, Constants, Zenon
<1> QED  BY <1>1, <1>2

\* Obj(a) is not the empty file that os.WriteFile begins with.
LEMMA ObjNotEmpty ==
  \A a \in Attempts : Obj(a) # <<>> /\ Obj(a) # None
<1>1. SUFFICES ASSUME NEW a \in Attempts PROVE Obj(a) # <<>> /\ Obj(a) # None
  OBVIOUS
<1>2. Len(Obj(a)) # 0 /\ Len(<<>>) = 0
  BY FilesAre, EmptySeq
<1>3. None \notin {Obj(b) : b \in Attempts}
  BY ObjTransferAssumption
<1> QED  BY <1>2, <1>3, Zenon

LEMMA ReceiveAtOnceKeeps ==
  ASSUME Inv, NEW s \in Streams, NEW a \in Attempts, ReceiveAtOnce(s, a)
  PROVE  Inv'
<1> DEFINE n == NewTransfer(a, "write")
           t == [n EXCEPT !.tmp = Head(wire[s]).body]
<1>1. /\ FirstChunkOf(s, a) /\ ExitCode[a] = "ok" /\ IsWhole(a, Head(wire[s]).body)
      /\ receiving' = [receiving EXCEPT ![s] = t]
      /\ obj' = IF a \in Active THEN [obj EXCEPT ![Request[a]] = <<>>] ELSE obj
      /\ UNCHANGED <<result, sent, broken, notes, failures, breaks, interrupts, saved>>
  BY Zenon DEF ReceiveAtOnce, Go
<1>2. Typed /\ Files /\ Request[a] \in Requests
  BY InvFacts, Constants
<1>3. /\ Head(wire[s]).body = Piece(a, 1)
      /\ WireOk(s)' /\ wire' \in [Streams -> Seq(Chunk)]
      /\ \A r \in Streams : r # s => wire'[r] = wire[r]
      /\ Stream[a] = s /\ a \in sent /\ Coming(s, a, 1)'
  BY <1>1, FirstChunkIs
<1>4. /\ Piece(a, 1) = Obj(a) /\ LastChunk(a) = 1
      /\ NotesSize[a] = 0 /\ ObjSize[a] <= ChunkSize
  BY <1>1, <1>3, WholeIsAll
<1>5. /\ n \in Transfer /\ n.at = "write" /\ n.session = a /\ n.known = (a \in Active)
      /\ ~ n.errRecv
  BY <1>1, NewTransferIs
<1>6. /\ t \in Transfer /\ t.at = "write" /\ t.session = a /\ t.known = (a \in Active)
      /\ ~ t.errRecv /\ t.tmp = Obj(a) /\ t # Idle
  <2>1. t = [n EXCEPT !.tmp = Obj(a)] /\ Obj(a) \in Seq(Byte)
    BY <1>3, <1>4, FilesAre
  <2> HIDE DEF n
  <2> QED  BY <2>1, <1>5 DEF Transfer, Idle
<1> HIDE DEF n, t
<1>7. /\ receiving' \in [Streams -> Transfer \cup {Idle}] /\ receiving'[s] = t
      /\ \A r \in Streams : r # s => receiving'[r] = receiving[r]
  BY <1>1, <1>2, <1>6 DEF Typed
<1>8. /\ obj' \in [Requests -> File]
      /\ \A r \in Requests : r # Request[a] => obj'[r] = obj[r]
      /\ obj' = obj \/ (a \in Active /\ obj'[Request[a]] = <<>>)
  <2>1. obj \in [Requests -> File] /\ <<>> \in File
    BY <1>2 DEF Typed, File
  <2> QED  BY <2>1, <1>1, <1>2
<1>9. Typed'
  BY <1>1, <1>2, <1>3, <1>7, <1>8 DEF Typed
<1>10. Endangers(a)
  BY <1>3, <1>4 DEF Endangers
<1>11. StreamOk(s)'
  <2>1. OfTransfer(s, receiving[s])'
    <3>1. a \in Active => result'[a] = "none"
      BY <1>1 DEF Active
    <3> QED  BY <3>1, <1>1, <1>3, <1>4, <1>6, <1>7 DEF OfTransfer
  <2>2. StepOk(s)'
    <3>1. ~ (1 < LastChunk(a)) /\ t.at # "chunks"
      BY <1>4, <1>6, SMT
    <3> QED  BY <3>1, <1>3, <1>7, Zenon DEF StepOk, Coming
  <2> QED  BY <2>1, <2>2, <1>3 DEF StreamOk
<1>12. Files'
  <2>1. CASE obj' = obj
    <3>1. \A r \in Streams : receiving'[r] = receiving[r] \/ receiving'[r].at \notin {"obj", "end"}
      BY <1>6, <1>7
    <3> QED  BY <2>1, <3>1, <1>1, <1>2, FilesKept
  <2>2. CASE a \in Active /\ obj'[Request[a]] = <<>>
    <3>1. SavedNotes'
      <4>1. \A r \in Streams : receiving'[r] = receiving[r] \/ receiving'[r].at # "obj"
        BY <1>6, <1>7
      <4> QED  BY <4>1, <1>1, <1>2, Zenon DEF Files, SavedNotes, HasNotes, MayRename
    <3>2. NotesBeforeObj'
      <4>1. SUFFICES ASSUME NEW b \in Attempts, Request[b] \in WantsNotes, NotesSize[b] > 0,
                            obj'[Request[b]] = Obj(b)
                     PROVE  NotesFit(b)'
        BY Zenon DEF NotesBeforeObj, NotesFit
      <4>2. Request[b] # Request[a]
        BY <4>1, <2>2, ObjNotEmpty
      <4>3. obj[Request[b]] = Obj(b)
        BY <4>1, <4>2, <1>8, Constants
      <4> QED  BY <4>1, <4>3, <1>1, <1>2, Zenon DEF Files, NotesBeforeObj, NotesFit
    <3>3. \A c \in Attempts : c # a /\ Kept(c) => Kept(c)'
      BY <1>1, <1>2, <1>8, <1>10, KeptBySibling, Zenon
    <3>4. SavedObj'
      <4>1. SUFFICES ASSUME NEW r \in Streams, receiving'[r].at = "end", receiving'[r].known,
                            ~ receiving'[r].errWrite, ~ receiving'[r].errRecv
                     PROVE  Kept(receiving[r].session)'
        BY Zenon DEF SavedObj
      <4>2. r # s /\ receiving'[r] = receiving[r]
        BY <4>1, <1>6, <1>7
      <4>3. receiving[r] \in Transfer /\ receiving[r] # Idle
        BY <4>1, <4>2, <1>2, AtTransfer
      <4>4. receiving[r].session \in Attempts /\ Stream[receiving[r].session] = r
        BY <4>3, TransferFields, InvFacts DEF OfTransfer
      <4>5. receiving[r].session # a /\ Kept(receiving[r].session)
        BY <4>1, <4>2, <4>4, <1>2, <1>3 DEF Files, SavedObj
      <4> QED  BY <4>2, <4>4, <4>5, <3>3, Zenon DEF Kept
    <3>5. DoneIsWhole'
      <4>1. SUFFICES ASSUME NEW c \in Attempts, result'[c] = "done" PROVE Kept(c)'
        BY Zenon DEF DoneIsWhole, Kept
      <4>2. c # a /\ Kept(c)
        BY <4>1, <2>2, <1>1, <1>2, Zenon DEF Files, DoneIsWhole, Kept, Active
      <4> QED  BY <4>2, <3>3
    <3> QED  BY <3>1, <3>2, <3>4, <3>5 DEF Files
  <2> QED  BY <2>1, <2>2, <1>8
<1> QED  BY <1>1, <1>3, <1>7, <1>9, <1>11, <1>12, Assembled, Zenon

\* A write is counted if it fails.
LEMMA WriteCounted ==
  ASSUME Typed, NEW succeeds \in BOOLEAN, CountWrite(succeeds)
  PROVE  failures' \in Nat
BY SMT DEF Typed, CountWrite

LEMMA OutcomesAreBoolean == WriteOutcomes \subseteq BOOLEAN
BY DEF WriteOutcomes

LEMMA ReceiveFirstKeeps ==
  ASSUME Inv, NEW s \in Streams, NEW a \in Attempts, ReceiveFirst(s, a)
  PROVE  Inv'
<1> DEFINE n == NewTransfer(a, "chunks")
<1>1. /\ FirstChunkOf(s, a) /\ ExitCode[a] = "ok"
      /\ UNCHANGED <<result, sent, broken, obj, notes, breaks, interrupts, saved>>
  BY Zenon DEF ReceiveFirst
<1>2. PICK succeeds \in BOOLEAN :
        /\ CountWrite(succeeds)
        /\ receiving' = [receiving EXCEPT ![s] = Take(n, Head(wire[s]).body, succeeds)]
  BY OutcomesAreBoolean, Zenon DEF ReceiveFirst, Go
<1>3. Typed /\ Files /\ failures' \in Nat
  BY <1>2, InvFacts, WriteCounted
<1>4. /\ Head(wire[s]).body = Piece(a, 1) /\ 1 \in 1 .. LastChunk(a)
      /\ WireOk(s)' /\ wire' \in [Streams -> Seq(Chunk)]
      /\ \A r \in Streams : r # s => wire'[r] = wire[r]
      /\ Stream[a] = s /\ a \in sent /\ Coming(s, a, 1)'
  BY <1>1, FirstChunkIs
<1>5. /\ n \in Transfer /\ n.at = "chunks" /\ n.session = a /\ n.known = (a \in Active)
      /\ ~ n.errRecv /\ Progress(n, 0)
  BY <1>1, NewTransferIs
<1> HIDE DEF n
<1> DEFINE t == Take(n, Piece(a, 0 + 1), succeeds)
<1>6. /\ t \in Transfer /\ t.at = "chunks" /\ t.session = a /\ t.known = (a \in Active)
      /\ ~ t.errRecv /\ Progress(t, 1) /\ t # Idle
  <2>1. 0 < LastChunk(n.session) /\ 0 + 1 = 1
    BY <1>5, ChunksFacts, SMT
  <2>2. /\ t \in Transfer /\ t.at = n.at /\ t.session = n.session /\ t.known = n.known
        /\ t.errRecv = n.errRecv /\ Progress(t, 0 + 1)
    BY <2>1, <1>1, <1>5, TakeIs
  <2> HIDE DEF t
  <2> QED  BY <2>1, <2>2, <1>5 DEF Idle
<1>7. receiving' = [receiving EXCEPT ![s] = t]
  <2>1. 0 + 1 = 1
    OBVIOUS
  <2> QED  BY <2>1, <1>2, <1>4
<1> HIDE DEF t
<1>8. /\ receiving' \in [Streams -> Transfer \cup {Idle}] /\ receiving'[s] = t
      /\ \A r \in Streams : r # s => receiving'[r] = receiving[r]
  BY <1>3, <1>6, <1>7 DEF Typed
<1>9. Typed'
  BY <1>1, <1>3, <1>4, <1>8 DEF Typed
<1>10. Files'
  <2>1. \A r \in Streams : receiving'[r] = receiving[r] \/ receiving'[r].at \notin {"obj", "end"}
    BY <1>6, <1>8
  <2> QED  BY <2>1, <1>1, <1>3, FilesKept
<1>11. StreamOk(s)'
  <2>1. OfTransfer(s, receiving[s])'
    <3>1. a \in Active => result'[a] = "none"
      BY <1>1 DEF Active
    <3> QED  BY <3>1, <1>1, <1>4, <1>6, <1>8 DEF OfTransfer
  <2>2. StepOk(s)'
    BY <1>4, <1>6, <1>8, Zenon DEF StepOk, Coming
  <2> QED  BY <2>1, <2>2, <1>4 DEF StreamOk
<1> QED  BY <1>1, <1>4, <1>8, <1>9, <1>10, <1>11, Assembled, Zenon

LEMMA ReceiveNextKeeps ==
  ASSUME Inv, NEW s \in Streams, ReceiveNext(s)
  PROVE  Inv'
<1> DEFINE t == receiving[s]
           a == t.session
<1>1. /\ t.at = "chunks" /\ MoreToRead(t)
      /\ wire[s] # <<>> /\ Head(wire[s]).session = a /\ Read(s)
      /\ UNCHANGED <<result, sent, broken, obj, notes, breaks, interrupts, saved>>
  BY Zenon DEF ReceiveNext
<1>2. PICK succeeds \in BOOLEAN :
        /\ CountWrite(succeeds)
        /\ receiving' = [receiving EXCEPT ![s] = Take(t, Head(wire[s]).body, succeeds)]
  BY OutcomesAreBoolean, Zenon DEF ReceiveNext, Go
<1>3. Typed /\ Files /\ failures' \in Nat /\ WireOk(s) /\ StepOk(s)
  BY <1>2, InvFacts, WriteCounted
<1>4. t \in Transfer /\ t # Idle /\ OfTransfer(s, t) /\ a \in Attempts
  BY <1>1, <1>3, AtTransfer, InvFacts, TransferFields
<1>5. PICK j \in 1 .. LastChunk(a) : Progress(t, j) /\ Coming(s, a, j)
  BY <1>1, <1>3, Zenon DEF StepOk
<1>6. ExitCode[a] = "ok" /\ j < LastChunk(a) /\ LastChunk(a) \in Nat \ {0}
  BY <1>1, <1>4, <1>5, ReadToTheEnd, ChunksFacts DEF OfTransfer
<1>7. Head(wire[s]) = Chunks(a)[j + 1] /\ j + 1 \in 1 .. LastChunk(a) /\ j \in Nat
  <2>1. j + 1 \in 1 .. LastChunk(a) /\ j \in Nat
    BY <1>6, SMT
  <2> QED  BY <2>1, <1>1, <1>5, <1>6, Zenon DEF Coming
<1>8. Head(wire[s]).body = Piece(a, j + 1)
  BY <1>4, <1>7, ChunkIs
<1> DEFINE u == Take(t, Piece(a, j + 1), succeeds)
<1>9. /\ u \in Transfer /\ u.at = "chunks" /\ u.session = a /\ u.known = t.known
      /\ u.errRecv = t.errRecv /\ Progress(u, j + 1) /\ u # Idle
  <2>1. /\ u \in Transfer /\ u.at = t.at /\ u.session = t.session /\ u.known = t.known
        /\ u.errRecv = t.errRecv /\ Progress(u, j + 1)
    BY <1>4, <1>5, <1>6, <1>7, TakeIs
  <2> HIDE DEF u
  <2> QED  BY <2>1, <1>1 DEF Idle
<1>10. receiving' = [receiving EXCEPT ![s] = u]
  BY <1>2, <1>8
<1> HIDE DEF u
<1>11. /\ receiving' \in [Streams -> Transfer \cup {Idle}] /\ receiving'[s] = u
       /\ \A r \in Streams : r # s => receiving'[r] = receiving[r]
  BY <1>3, <1>9, <1>10 DEF Typed
<1>12. ASSUME NEW b \in Attempts, b = a
       PROVE  /\ WireOk(s)' /\ wire' \in [Streams -> Seq(Chunk)]
              /\ \A r \in Streams : r # s => wire'[r] = wire[r]
              /\ Coming(s, b, j + 1)'
  BY <1>1, <1>3, <1>7, <1>12, ReadOne
<1>13. PICK b \in Attempts : b = a
  BY <1>4
<1>14. Typed'
  BY <1>1, <1>3, <1>11, <1>12, <1>13 DEF Typed
<1>15. Files'
  <2>1. \A r \in Streams : receiving'[r] = receiving[r] \/ receiving'[r].at \notin {"obj", "end"}
    BY <1>9, <1>11
  <2> QED  BY <2>1, <1>1, <1>3, FilesKept
<1>16. StreamOk(s)'
  <2>1. OfTransfer(s, receiving[s])'
    BY <1>1, <1>4, <1>9, <1>11 DEF OfTransfer
  <2>2. StepOk(s)'
    BY <1>7, <1>9, <1>11, <1>12, <1>13, Zenon DEF StepOk, Coming
  <2> QED  BY <2>1, <2>2, <1>12, <1>13 DEF StreamOk
<1> QED  BY <1>1, <1>11, <1>12, <1>13, <1>14, <1>15, <1>16, Assembled, Zenon

\* The end of the chunks, one way or the other.
LEMMA EndOfChunksKeeps ==
  ASSUME Inv, NEW s \in Streams, ReceiveNothing(s) \/ ReceivedAll(s)
  PROVE  Inv'
<1> DEFINE t == receiving[s]
           a == t.session
           u == receiving'[s]
<1>1. /\ t.at = "chunks"
      /\ UNCHANGED <<result, sent, wire, broken, obj, notes, failures, breaks, interrupts, saved>>
  BY Zenon DEF ReceiveNothing, ReceivedAll
<1>2. Typed /\ Files /\ WireOk(s) /\ StepOk(s)
  BY InvFacts
<1>3. t \in Transfer /\ t # Idle /\ OfTransfer(s, t) /\ a \in Attempts
  BY <1>1, <1>2, AtTransfer, InvFacts, TransferFields
<1>4. PICK j \in 1 .. LastChunk(a) : Progress(t, j) /\ Coming(s, a, j)
  BY <1>1, <1>2, Zenon DEF StepOk
<1>5. /\ MoreToRead(t) <=> j < LastChunk(a)
      /\ j = LastChunk(a) => t.notes = Notes(a) /\ (t.errWrite \/ t.tmp = Obj(a))
      /\ LastChunk(a) \in Nat \ {0}
  BY <1>3, <1>4, ReadToTheEnd, ChunksFacts DEF OfTransfer
<1>6. /\ u \in Transfer /\ u.at = "notes" /\ u.session = a /\ u.known = t.known /\ u # Idle
      /\ u.notes = t.notes /\ u.tmp = t.tmp /\ u.errWrite = t.errWrite
      /\ receiving' \in [Streams -> Transfer \cup {Idle}]
      /\ \A r \in Streams : r # s => receiving'[r] = receiving[r]
      /\ \/ u.errRecv /\ s \in broken /\ wire[s] = <<>>
         \/ ~ u.errRecv /\ ~ MoreToRead(t)
  <2>1. receiving \in [Streams -> Transfer \cup {Idle}]
    BY <1>2 DEF Typed
  <2>2. CASE ReceiveNothing(s)
    <3>1. /\ receiving' = [receiving EXCEPT ![s] = [t EXCEPT !.at = "notes", !.errRecv = TRUE]]
          /\ s \in broken /\ wire[s] = <<>>
      BY <2>2, Zenon DEF ReceiveNothing, Go
    <3>2. u = [t EXCEPT !.at = "notes", !.errRecv = TRUE]
      BY <2>1, <3>1
    <3> HIDE DEF t, u
    <3>3. /\ u \in Transfer /\ u.at = "notes" /\ u.session = t.session /\ u.known = t.known
          /\ u.notes = t.notes /\ u.tmp = t.tmp /\ u.errWrite = t.errWrite /\ u.errRecv /\ u # Idle
      BY <1>3, <3>2 DEF Transfer, Idle
    <3> QED  BY <3>1, <3>2, <3>3, <2>1
  <2>3. CASE ReceivedAll(s)
    <3>1. /\ receiving' = [receiving EXCEPT ![s] = [t EXCEPT !.at = "notes"]]
          /\ ~ MoreToRead(t) /\ ~ t.errRecv
      BY <2>3, <1>1, <1>3, Zenon DEF ReceivedAll, Go, OfTransfer
    <3>2. u = [t EXCEPT !.at = "notes"]
      BY <2>1, <3>1
    <3> HIDE DEF t, u
    <3>3. /\ u \in Transfer /\ u.at = "notes" /\ u.session = t.session /\ u.known = t.known
          /\ u.notes = t.notes /\ u.tmp = t.tmp /\ u.errWrite = t.errWrite /\ ~ u.errRecv
          /\ u # Idle
      BY <1>3, <3>1, <3>2 DEF Transfer, Idle
    <3> QED  BY <3>1, <3>2, <3>3, <2>1
  <2> QED  BY <2>2, <2>3
<1>7. Typed'
  BY <1>1, <1>2, <1>6 DEF Typed
<1>8. Files'
  <2>1. \A r \in Streams : receiving'[r] = receiving[r] \/ receiving'[r].at \notin {"obj", "end"}
    BY <1>6
  <2> QED  BY <2>1, <1>1, <1>2, FilesKept
<1>9. StreamOk(s)'
  <2>1. ~ u.errRecv => j = LastChunk(a)
    <3>1. ~ MoreToRead(t) => j = LastChunk(a)
      BY <1>5, SMT
    <3> QED  BY <3>1, <1>6
  <2>2. OfTransfer(s, receiving[s])'
    BY <2>1, <1>1, <1>3, <1>5, <1>6 DEF OfTransfer
  <2>3. wire[s] # <<>> => StartsSession(Head(wire[s]))
    <3>1. wire[s] # <<>> => j = LastChunk(a) /\ ~ (j < LastChunk(a))
      BY <2>1, <1>5, <1>6, SMT
    <3> QED  BY <3>1, <1>4, Zenon DEF Coming
  <2>4. StepOk(s)'
    BY <2>3, <1>1, <1>6, Zenon DEF StepOk
  <2>5. WireOk(s)'
    BY <1>1, <1>2, Zenon DEF WireOk
  <2> QED  BY <2>2, <2>4, <2>5 DEF StreamOk
<1> QED  BY <1>1, <1>6, <1>7, <1>8, <1>9, Assembled, Zenon

\* Between chunks the stream is left alone.
LEMMA StreamAtStage ==
  ASSUME Inv, NEW s \in Streams, receiving[s].at # "chunks", receiving'[s].at # "chunks",
         wire' = wire, broken' = broken, sent' = sent
  PROVE  WireOk(s)' /\ StepOk(s)'
<1>1. WireOk(s) /\ StepOk(s)
  BY InvFacts
<1>2. WireOk(s)'
  BY <1>1, Zenon DEF WireOk
<1>3. StepOk(s)'
  BY <1>1, Zenon DEF StepOk
<1> QED  BY <1>2, <1>3

(***************************************************************************)
(* A goroutine writes the .o of a, and is then at the end of its transfer. *)
(* If notes belong to the .o they are there.                               *)
(***************************************************************************)
LEMMA ObjWritten ==
  ASSUME Typed, Files, NEW s \in Streams, NEW a \in Attempts, Stream[a] = s,
         \A r \in Streams : r # s /\ receiving[r] # Idle => OfTransfer(r, receiving[r]),
         \A r \in Streams : r # s => receiving'[r] = receiving[r],
         receiving'[s].at = "end", receiving'[s].session = a,
         notes' = notes, sent' = sent, result' = result,
         \A c \in Attempts : c # a => saved'[c] = saved[c],
         \/ obj' = obj /\ saved' = saved
         \/ /\ obj' = [obj EXCEPT ![Request[a]] = Obj(a)]
            /\ result[a] # "done"
            /\ Request[a] \in WantsNotes /\ NotesSize[a] > 0 => NotesFit(a)',
         receiving'[s].known /\ ~ receiving'[s].errWrite /\ ~ receiving'[s].errRecv
           => obj'[Request[a]] = Obj(a)
  PROVE  Files'
<1>1. /\ Request[a] \in Requests /\ obj \in [Requests -> File]
  BY Constants DEF Typed
<1>2. /\ \A r \in Requests : r # Request[a] => obj'[r] = obj[r]
      /\ obj' = obj \/ obj'[Request[a]] = Obj(a)
  BY <1>1
<1>3. \A c \in Attempts : c # a /\ Kept(c) => Kept(c)'
  <2>1. CASE obj' = obj
    BY <2>1, KeptStays, Zenon
  <2>2. CASE obj'[Request[a]] = Obj(a)
    BY <2>2, <1>2, KeptBySibling, Zenon
  <2> QED  BY <2>1, <2>2, <1>2
<1>4. SavedNotes'
  <2>1. SUFFICES ASSUME NEW r \in Streams, receiving'[r].at = "obj", MayRename(receiving'[r]),
                        receiving'[r].known, Request[receiving'[r].session] \in WantsNotes,
                        NotesSize[receiving'[r].session] > 0
                 PROVE  HasNotes(receiving[r].session)'
    BY Zenon DEF SavedNotes, MayRename
  <2>2. r # s /\ receiving'[r] = receiving[r]
    BY <2>1
  <2>3. receiving[r] \in Transfer /\ receiving[r] # Idle
    BY <2>1, <2>2, AtTransfer
  <2>4. receiving[r].session \in Attempts /\ Stream[receiving[r].session] = r
    BY <2>2, <2>3, TransferFields DEF OfTransfer
  <2>5. HasNotes(receiving[r].session) /\ saved'[receiving[r].session] = saved[receiving[r].session]
    BY <2>1, <2>2, <2>4 DEF Files, SavedNotes, MayRename
  <2> QED  BY <2>2, <2>5, Zenon DEF HasNotes
<1>5. NotesBeforeObj'
  <2>1. SUFFICES ASSUME NEW b \in Attempts, Request[b] \in WantsNotes, NotesSize[b] > 0,
                        obj'[Request[b]] = Obj(b)
                 PROVE  NotesFit(b)'
    BY Zenon DEF NotesBeforeObj, NotesFit
  <2>2. CASE obj' = obj /\ saved' = saved
    BY <2>1, <2>2, Zenon DEF Files, NotesBeforeObj, NotesFit
  <2>3. CASE b = a /\ obj' = [obj EXCEPT ![Request[a]] = Obj(a)]
    <3>1. CASE NotesFit(a)'
      BY <2>3, <3>1, Zenon
    <3>2. CASE obj' = obj /\ saved' = saved
      BY <3>2, <2>2
    <3> QED  BY <3>1, <3>2, <2>1, <2>3
  <2>4. CASE b # a /\ obj' = [obj EXCEPT ![Request[a]] = Obj(a)]
    <3>1. Request[b] # Request[a]
      BY <2>1, <2>4, <1>1, ObjsDiffer
    <3>2. obj[Request[b]] = Obj(b)
      BY <3>1, <2>1, <1>2, Constants
    <3>3. \A c \in Siblings(b) : c \in Attempts /\ saved'[c] = saved[c]
      BY <3>1 DEF Siblings
    <3>4. NotesFit(b)
      BY <3>2, <2>1, Zenon DEF Files, NotesBeforeObj, NotesFit
    <3> QED  BY <3>3, <3>4, <2>4, Zenon DEF NotesFit
  <2> QED  BY <2>2, <2>3, <2>4
<1>6. SavedObj'
  <2>1. SUFFICES ASSUME NEW r \in Streams, receiving'[r].at = "end", receiving'[r].known,
                        ~ receiving'[r].errWrite, ~ receiving'[r].errRecv
                 PROVE  Kept(receiving[r].session)'
    BY Zenon DEF SavedObj
  <2>2. CASE r = s
    <3>1. a \in Siblings(a) /\ receiving'[r].session = a
      BY <2>2 DEF Siblings
    <3>2. obj'[Request[a]] = Obj(a)
      BY <2>1, <2>2
    <3>3. obj'[Request[a]] \in {Obj(b) : b \in Siblings(a)}
      BY <3>1, <3>2
    <3> QED  BY <3>1, <3>3, Zenon DEF Kept
  <2>3. CASE r # s
    <3>1. receiving'[r] = receiving[r]
      BY <2>3
    <3>2. receiving[r] \in Transfer /\ receiving[r] # Idle
      BY <3>1, <2>1, AtTransfer
    <3>3. receiving[r].session \in Attempts /\ Stream[receiving[r].session] = r
      BY <3>2, <2>3, TransferFields DEF OfTransfer
    <3>4. receiving[r].session # a /\ Kept(receiving[r].session)
      BY <3>1, <3>3, <2>1, <2>3 DEF Files, SavedObj
    <3> QED  BY <3>1, <3>3, <3>4, <1>3, Zenon DEF Kept
  <2> QED  BY <2>2, <2>3
<1>7. DoneIsWhole'
  <2>1. SUFFICES ASSUME NEW c \in Attempts, result[c] = "done" PROVE Kept(c)'
    BY Zenon DEF DoneIsWhole, Kept
  <2>2. Kept(c)
    BY <2>1, Zenon DEF Files, DoneIsWhole, Kept
  <2>3. CASE c = a
    <3>1. obj' = obj
      BY <2>1, <2>3
    <3> QED  BY <3>1, <2>2, KeptStays, Zenon
  <2>4. CASE c # a
    BY <2>2, <2>4, <1>3
  <2> QED  BY <2>3, <2>4
<1> QED  BY <1>4, <1>5, <1>6, <1>7 DEF Files

LEMMA EndWriteFileKeeps ==
  ASSUME Inv, NEW s \in Streams, EndWriteFile(s)
  PROVE  Inv'
<1> DEFINE t == receiving[s]
           a == t.session
           u == receiving'[s]
<1>1. t.at = "write" /\ UNCHANGED <<result, sent, wire, broken, notes, breaks, interrupts, saved>>
  BY Zenon DEF EndWriteFile
<1>2. PICK succeeds \in BOOLEAN :
        /\ CountWrite(succeeds)
        /\ obj' = IF succeeds /\ t.known THEN [obj EXCEPT ![Request[a]] = t.tmp] ELSE obj
        /\ receiving' = [receiving EXCEPT ![s] = [t EXCEPT !.at = "end", !.errWrite = ~ succeeds]]
  BY OutcomesAreBoolean, Zenon DEF EndWriteFile, Go
<1>3. Typed /\ Files /\ failures' \in Nat
  BY <1>2, InvFacts, WriteCounted
<1>4. t \in Transfer /\ t # Idle /\ OfTransfer(s, t) /\ a \in Attempts /\ t.tmp \in Seq(Byte)
  BY <1>1, <1>3, AtTransfer, InvFacts, TransferFields
<1>5. /\ t.tmp = Obj(a) /\ NotesSize[a] = 0 /\ Stream[a] = s
      /\ t.known => result[a] # "done"
  BY <1>1, <1>4 DEF OfTransfer
<1>6. /\ u \in Transfer /\ u.at = "end" /\ u.session = a /\ u.known = t.known /\ u # Idle
      /\ u.errRecv = t.errRecv /\ u.errWrite = ~ succeeds
      /\ receiving' \in [Streams -> Transfer \cup {Idle}]
      /\ \A r \in Streams : r # s => receiving'[r] = receiving[r]
  <2>1. receiving \in [Streams -> Transfer \cup {Idle}]
    BY <1>3 DEF Typed
  <2>2. u = [t EXCEPT !.at = "end", !.errWrite = ~ succeeds]
    BY <1>2, <2>1
  <2> HIDE DEF t, u
  <2>3. /\ u \in Transfer /\ u.at = "end" /\ u.session = t.session /\ u.known = t.known
        /\ u.errRecv = t.errRecv /\ u.errWrite = ~ succeeds /\ u # Idle
    BY <1>4, <2>2 DEF Transfer, Idle
  <2> QED  BY <1>2, <2>1, <2>2, <2>3
<1>7. Typed'
  <2>1. obj' \in [Requests -> File]
    <3>1. obj \in [Requests -> File] /\ t.tmp \in File
      BY <1>3, <1>4 DEF Typed, File
    <3> QED  BY <3>1, <1>2
  <2> QED  BY <2>1, <1>1, <1>3, <1>6 DEF Typed
<1>8. Files'
  <2>1. \/ obj' = obj /\ saved' = saved
        \/ /\ obj' = [obj EXCEPT ![Request[a]] = Obj(a)] /\ result[a] # "done"
           /\ ~ (NotesSize[a] > 0)
    BY <1>1, <1>2, <1>5
  <2>2. u.known /\ ~ u.errWrite /\ ~ u.errRecv => obj'[Request[a]] = Obj(a)
    <3>1. obj \in [Requests -> File] /\ Request[a] \in Requests
      BY <1>3, <1>4, Constants DEF Typed
    <3> QED  BY <3>1, <1>2, <1>5, <1>6
  <2>3. \A r \in Streams : r # s /\ receiving[r] # Idle => OfTransfer(r, receiving[r])
    BY InvFacts
  <2>4. SUFFICES ASSUME NEW b \in Attempts, b = a PROVE Files'
    BY <1>4
  <2> QED  BY <2>1, <2>2, <2>3, <2>4, <1>1, <1>3, <1>5, <1>6, ObjWritten
<1>9. StreamOk(s)'
  <2>1. OfTransfer(s, receiving[s])'
    BY <1>1, <1>4, <1>6 DEF OfTransfer
  <2> QED  BY <2>1, <1>1, <1>6, StreamAtStage DEF StreamOk
<1> QED  BY <1>1, <1>6, <1>7, <1>8, <1>9, Assembled, Zenon

LEMMA SaveObjKeeps ==
  ASSUME Inv, NEW s \in Streams, SaveObj(s)
  PROVE  Inv'
<1> DEFINE t == receiving[s]
           a == t.session
           u == receiving'[s]
<1>1. t.at = "obj" /\ UNCHANGED <<result, sent, wire, broken, notes, breaks, interrupts>>
  BY Zenon DEF SaveObj
<1>2. PICK succeeds \in BOOLEAN :
        /\ CountWrite(succeeds)
        /\ IF succeeds /\ MayRename(t) /\ t.known
           THEN obj' = [obj EXCEPT ![Request[a]] = t.tmp] /\ ObjSaved(a)
           ELSE UNCHANGED <<obj, saved>>
        /\ receiving' = [receiving EXCEPT ![s] =
                           [t EXCEPT !.at = "end", !.errWrite = t.errWrite \/ ~ succeeds]]
  <2>1. (IF MayRename(t) THEN WriteOutcomes ELSE {TRUE}) \subseteq BOOLEAN
    BY OutcomesAreBoolean
  <2> QED  BY <2>1, Zenon DEF SaveObj, PutObj, Go
<1>3. Typed /\ Files /\ failures' \in Nat
  BY <1>2, InvFacts, WriteCounted
<1>4. t \in Transfer /\ t # Idle /\ OfTransfer(s, t) /\ a \in Attempts /\ t.tmp \in Seq(Byte)
  BY <1>1, <1>3, AtTransfer, InvFacts, TransferFields
<1>5. /\ MayRename(t) => t.tmp = Obj(a)
      /\ Stream[a] = s /\ (t.known => result[a] # "done")
  BY <1>1, <1>4 DEF OfTransfer, MayRename
<1>6. /\ u \in Transfer /\ u.at = "end" /\ u.session = a /\ u.known = t.known /\ u # Idle
      /\ u.errRecv = t.errRecv /\ u.errWrite = (t.errWrite \/ ~ succeeds)
      /\ receiving' \in [Streams -> Transfer \cup {Idle}]
      /\ \A r \in Streams : r # s => receiving'[r] = receiving[r]
  <2>1. receiving \in [Streams -> Transfer \cup {Idle}]
    BY <1>3 DEF Typed
  <2>2. u = [t EXCEPT !.at = "end", !.errWrite = t.errWrite \/ ~ succeeds]
    BY <1>2, <2>1
  <2> HIDE DEF t, u
  <2>3. /\ u \in Transfer /\ u.at = "end" /\ u.session = t.session /\ u.known = t.known
        /\ u.errRecv = t.errRecv /\ u.errWrite = (t.errWrite \/ ~ succeeds) /\ u # Idle
    BY <1>4, <2>2 DEF Transfer, Idle
  <2> QED  BY <1>2, <2>1, <2>2, <2>3
<1>h. /\ saved' \in [Attempts -> {"none", "notes", "both", "overtaken"}]
      /\ \A c \in Attempts : c # a => saved'[c] = saved[c]
      /\ saved[a] = "overtaken" => saved'[a] = "overtaken"
  <2>1. saved \in [Attempts -> {"none", "notes", "both", "overtaken"}]
    BY <1>3 DEF Typed
  <2>2. saved' = saved \/ (saved[a] = "notes" /\ saved' = [saved EXCEPT ![a] = "both"])
    BY <1>2 DEF ObjSaved
  <2> QED  BY <2>1, <2>2, <1>4
<1>7. Typed'
  <2>1. obj' \in [Requests -> File]
    <3>1. obj \in [Requests -> File] /\ t.tmp \in File
      BY <1>3, <1>4 DEF Typed, File
    <3> QED  BY <3>1, <1>2
  <2> QED  BY <2>1, <1>1, <1>3, <1>6, <1>h DEF Typed
<1>8. Files'
  <2>1. MayRename(t) /\ t.known /\ Request[a] \in WantsNotes /\ NotesSize[a] > 0 => HasNotes(a)
    BY <1>1, <1>3, Zenon DEF Files, SavedNotes
  <2>2. SUFFICES ASSUME NEW b \in Attempts, b = a PROVE Files'
    BY <1>4
  <2>3. HasNotes(b) => NotesFit(b)'
    <3>1. saved[b] = "overtaken" => saved'[b] = "overtaken"
      BY <1>h, <2>2
    <3> QED  BY <3>1, <1>1, Zenon DEF HasNotes, NotesFit
  <2>4. \/ obj' = obj /\ saved' = saved
        \/ /\ obj' = [obj EXCEPT ![Request[b]] = Obj(b)] /\ result[b] # "done"
           /\ Request[b] \in WantsNotes /\ NotesSize[b] > 0 => NotesFit(b)'
    BY <1>2, <1>5, <2>1, <2>2, <2>3
  <2>5. u.known /\ ~ u.errWrite /\ ~ u.errRecv => obj'[Request[a]] = Obj(a)
    <3>1. obj \in [Requests -> File] /\ Request[a] \in Requests
      BY <1>3, <1>4, Constants DEF Typed
    <3> QED  BY <3>1, <1>2, <1>5, <1>6 DEF MayRename
  <2>6. \A r \in Streams : r # s /\ receiving[r] # Idle => OfTransfer(r, receiving[r])
    BY InvFacts
  <2> QED  BY <2>2, <2>4, <2>5, <2>6, <1>1, <1>3, <1>5, <1>6, <1>h, ObjWritten
<1>9. StreamOk(s)'
  <2>1. OfTransfer(s, receiving[s])'
    BY <1>1, <1>4, <1>6 DEF OfTransfer
  <2> QED  BY <2>1, <1>1, <1>6, StreamAtStage DEF StreamOk
<1> QED  BY <1>1, <1>6, <1>7, <1>8, <1>9, Assembled, Zenon

LEMMA SaveNotesKeeps ==
  ASSUME Inv, NEW s \in Streams, SaveNotes(s)
  PROVE  Inv'
<1> DEFINE t == receiving[s]
           a == t.session
           u == receiving'[s]
<1>1. t.at = "notes" /\ UNCHANGED <<result, sent, wire, broken, obj, breaks, interrupts>>
  BY Zenon DEF SaveNotes
<1>2. PICK succeeds \in BOOLEAN :
        /\ CountWrite(succeeds)
        /\ ~ succeeds => ToSave(t)
        /\ IF succeeds /\ ToSave(t)
           THEN notes' = [notes EXCEPT ![Request[a]] = t.notes] /\ NotesSaved(a)
           ELSE UNCHANGED <<notes, saved>>
        /\ receiving' = [receiving EXCEPT ![s] =
                           [t EXCEPT !.at = "obj", !.errWrite = t.errWrite \/ ~ succeeds]]
  <2>1. PICK succeeds \in (IF ToSave(t) THEN WriteOutcomes ELSE {TRUE}) :
        /\ CountWrite(succeeds)
        /\ IF succeeds /\ ToSave(t)
           THEN notes' = [notes EXCEPT ![Request[a]] = t.notes] /\ NotesSaved(a)
           ELSE UNCHANGED <<notes, saved>>
        /\ receiving' = [receiving EXCEPT ![s] =
                           [t EXCEPT !.at = "obj", !.errWrite = t.errWrite \/ ~ succeeds]]
    BY Zenon DEF SaveNotes, PutNotes, Go
  <2>2. succeeds \in BOOLEAN /\ (~ succeeds => ToSave(t))
    BY OutcomesAreBoolean
  <2> QED  BY <2>1, <2>2
<1>3. Typed /\ Files /\ failures' \in Nat
  BY <1>2, InvFacts, WriteCounted
<1>4. t \in Transfer /\ t # Idle /\ OfTransfer(s, t) /\ a \in Attempts /\ t.notes \in Seq(Byte)
  BY <1>1, <1>3, AtTransfer, InvFacts, TransferFields
<1>5. ~ t.errRecv => t.notes = Notes(a) /\ (t.errWrite \/ t.tmp = Obj(a))
  BY <1>1, <1>4 DEF OfTransfer
<1>6. /\ u \in Transfer /\ u.at = "obj" /\ u.session = a /\ u.known = t.known /\ u # Idle
      /\ u.errRecv = t.errRecv /\ u.errWrite = (t.errWrite \/ ~ succeeds)
      /\ u.tmp = t.tmp /\ u.notes = t.notes
      /\ receiving' \in [Streams -> Transfer \cup {Idle}]
      /\ \A r \in Streams : r # s => receiving'[r] = receiving[r]
  <2>1. receiving \in [Streams -> Transfer \cup {Idle}]
    BY <1>3 DEF Typed
  <2>2. u = [t EXCEPT !.at = "obj", !.errWrite = t.errWrite \/ ~ succeeds]
    BY <1>2, <2>1
  <2> HIDE DEF t, u
  <2>3. /\ u \in Transfer /\ u.at = "obj" /\ u.session = t.session /\ u.known = t.known
        /\ u.errRecv = t.errRecv /\ u.errWrite = (t.errWrite \/ ~ succeeds) /\ u # Idle
        /\ u.tmp = t.tmp /\ u.notes = t.notes
    BY <1>4, <2>2 DEF Transfer, Idle
  <2> QED  BY <1>2, <2>1, <2>2, <2>3
<1>h. /\ saved' \in [Attempts -> {"none", "notes", "both", "overtaken"}]
      /\ \/ UNCHANGED <<notes, saved>>
         \/ /\ succeeds /\ ToSave(t) /\ notes' = [notes EXCEPT ![Request[a]] = Notes(a)]
            /\ saved'[a] = "notes"
            /\ \A c \in Attempts \ {a} :
                 saved'[c] = IF c \in Siblings(a) /\ saved[c] = "notes"
                             THEN "overtaken" ELSE saved[c]
  <2>1. saved \in [Attempts -> {"none", "notes", "both", "overtaken"}]
    BY <1>3 DEF Typed
  <2>2. CASE UNCHANGED <<notes, saved>>
    BY <2>1, <2>2
  <2>3. CASE succeeds /\ ToSave(t)
    <3>1. notes' = [notes EXCEPT ![Request[a]] = Notes(a)]
      BY <1>2, <1>5, <2>3 DEF ToSave
    <3>2. SUFFICES ASSUME NEW b \in Attempts, b = a, NotesSaved(b)
                   PROVE  /\ saved' \in [Attempts -> {"none", "notes", "both", "overtaken"}]
                          /\ saved'[b] = "notes"
                          /\ \A c \in Attempts \ {b} :
                               saved'[c] = IF c \in Siblings(b) /\ saved[c] = "notes"
                                           THEN "overtaken" ELSE saved[c]
      BY <3>1, <1>2, <1>4, <2>3
    <3> QED  BY <2>1, <3>2 DEF NotesSaved
  <2> QED  BY <2>2, <2>3, <1>2
<1>7. Typed'
  <2>1. notes' \in [Requests -> File]
    <3>1. notes \in [Requests -> File] /\ t.notes \in File
      BY <1>3, <1>4 DEF Typed, File
    <3> QED  BY <3>1, <1>2
  <2> QED  BY <2>1, <1>1, <1>3, <1>6, <1>h DEF Typed
<1>8. Files'
  <2>1. notes \in [Requests -> File] /\ Request[a] \in Requests
    BY <1>3, <1>4, Constants DEF Typed
  <2>2. SUFFICES ASSUME NEW b \in Attempts, b = a PROVE Files'
    BY <1>4
  <2>3. ASSUME NEW c \in Attempts, Request[c] # Request[b]
        PROVE  /\ notes'[Request[c]] = notes[Request[c]]
               /\ \A d \in Siblings(c) : saved'[d] = saved[d]
    <3>1. notes'[Request[c]] = notes[Request[c]]
      BY <1>h, <2>1, <2>2, <2>3, Constants
    <3>2. ASSUME NEW d \in Siblings(c) PROVE saved'[d] = saved[d]
      <4>1. d \in Attempts \ {b} /\ d \notin Siblings(b)
        BY <2>3 DEF Siblings
      <4> QED  BY <4>1, <1>h, <2>2
    <3> QED  BY <3>1, <3>2
  <2>4. NotesBeforeObj'
    <3>1. SUFFICES ASSUME NEW c \in Attempts, Request[c] \in WantsNotes, NotesSize[c] > 0,
                          obj[Request[c]] = Obj(c)
                   PROVE  NotesFit(c)'
      BY <1>1, Zenon DEF NotesBeforeObj, NotesFit
    <3>2. NotesFit(c)
      BY <3>1, <1>3, Zenon DEF Files, NotesBeforeObj, NotesFit
    <3>3. CASE UNCHANGED <<notes, saved>>
      BY <3>2, <3>3, Zenon DEF NotesFit
    <3>4. CASE Request[c] = Request[b] /\ ~ UNCHANGED <<notes, saved>>
      <4>1. notes'[Request[c]] = Notes(b) /\ saved'[b] = "notes"
        BY <3>4, <1>h, <2>1, <2>2
      <4>2. b = c \/ b \in Siblings(c) \ {c}
        BY <3>4 DEF Siblings
      <4> QED  BY <4>1, <4>2, Zenon DEF NotesFit
    <3>5. CASE Request[c] # Request[b]
      <4>1. c \in Siblings(c)
        BY DEF Siblings
      <4> QED  BY <4>1, <3>2, <3>5, <2>3, Zenon DEF NotesFit
    <3> QED  BY <3>3, <3>4, <3>5
  <2>5. SavedNotes'
    <3>1. SUFFICES ASSUME NEW r \in Streams, receiving'[r].at = "obj", MayRename(receiving'[r]),
                          receiving'[r].known, Request[receiving'[r].session] \in WantsNotes,
                          NotesSize[receiving'[r].session] > 0
                   PROVE  HasNotes(receiving[r].session)'
      BY Zenon DEF SavedNotes, MayRename
    <3>2. CASE r = s
      <4>1. /\ receiving'[r].session = b /\ ~ t.errRecv /\ ~ t.errWrite /\ succeeds
            /\ t.known /\ Request[a] \in WantsNotes /\ NotesSize[b] > 0
        BY <3>1, <3>2, <1>6, <2>2 DEF MayRename
      <4>2. t.notes = Notes(b)
        BY <4>1, <1>5, <2>2
      <4>3. Len(Notes(b)) # 0 /\ Len(<<>>) = 0
        BY <4>1, FilesAre, EmptySeq, SMT
      <4>4. t.notes # <<>>
        BY <4>2, <4>3, Zenon
      <4>5. notes' = [notes EXCEPT ![Request[b]] = Notes(b)] /\ NotesSaved(b)
        BY <4>1, <4>2, <4>4, <1>2, <2>2 DEF ToSave
      <4>6. notes'[Request[b]] = Notes(b) /\ saved'[b] = "notes"
        BY <4>5, <2>1, <2>2 DEF NotesSaved
      <4> QED  BY <4>1, <4>6, Zenon DEF HasNotes
    <3>3. CASE r # s
      <4>1. receiving'[r] = receiving[r] /\ receiving[r].at = "obj"
        BY <3>1, <3>3, <1>6
      <4>2. receiving[r] \in Transfer /\ receiving[r] # Idle
        BY <4>1, <1>3, AtTransfer
      <4>3. receiving[r].session \in Attempts /\ Stream[receiving[r].session] = r
        BY <4>2, InvFacts, TransferFields DEF OfTransfer
      <4>4. HasNotes(receiving[r].session)
        BY <4>1, <3>1, <1>3, Zenon DEF Files, SavedNotes, MayRename
      <4>5. SUFFICES ASSUME NEW c \in Attempts, c = receiving[r].session, c # b
                     PROVE  HasNotes(c)'
        BY <4>1, <4>3, <3>3, <1>4, <2>2, Zenon DEF HasNotes, OfTransfer
      <4>6. CASE UNCHANGED <<notes, saved>>
        BY <4>4, <4>5, <4>6, Zenon DEF HasNotes
      <4>7. CASE Request[c] = Request[b] /\ ~ UNCHANGED <<notes, saved>>
        <5>1. c \in Siblings(b)
          BY <4>7 DEF Siblings
        <5> QED  BY <5>1, <4>4, <4>5, <4>7, <1>h, <2>2 DEF HasNotes
      <4>8. CASE Request[c] # Request[b]
        <5>1. c \in Siblings(c)
          BY DEF Siblings
        <5> QED  BY <5>1, <4>4, <4>5, <4>8, <2>3, Zenon DEF HasNotes
      <4> QED  BY <4>6, <4>7, <4>8
    <3> QED  BY <3>2, <3>3
  <2>6. SavedObj'
    <3>1. SUFFICES ASSUME NEW r \in Streams, receiving'[r].at = "end", receiving'[r].known,
                          ~ receiving'[r].errWrite, ~ receiving'[r].errRecv
                   PROVE  Kept(receiving[r].session)'
      BY Zenon DEF SavedObj
    <3>2. receiving'[r] = receiving[r]
      BY <3>1, <1>6
    <3>3. receiving[r].session \in Attempts /\ Kept(receiving[r].session)
      BY <3>1, <3>2, <1>3, AtTransfer, TransferFields DEF Files, SavedObj
    <3> QED  BY <3>2, <3>3, <1>1, KeptStays, Zenon DEF Kept
  <2>7. DoneIsWhole'
    BY <1>1, <1>3, Zenon DEF Files, DoneIsWhole, Endangers
  <2> QED  BY <2>4, <2>5, <2>6, <2>7 DEF Files
<1>9. StreamOk(s)'
  <2>1. OfTransfer(s, receiving[s])'
    BY <1>1, <1>4, <1>5, <1>6 DEF OfTransfer
  <2> QED  BY <2>1, <1>1, <1>6, StreamAtStage DEF StreamOk
<1> QED  BY <1>1, <1>6, <1>7, <1>8, <1>9, Assembled, Zenon

(***************************************************************************)
(* A goroutine that is about no transfer any more, of a stream that goes   *)
(* on or of a new one.                                                     *)
(***************************************************************************)
LEMMA BecomesIdle ==
  ASSUME Inv, NEW s \in Streams, receiving[s].at # "chunks", sent' = sent,
         receiving' = [receiving EXCEPT ![s] = Idle],
         \/ wire' = wire /\ broken' = broken
         \/ wire' = [wire EXCEPT ![s] = <<>>] /\ broken' = broken \ {s}
  PROVE  /\ wire' \in [Streams -> Seq(Chunk)] /\ broken' \subseteq Streams
         /\ receiving' \in [Streams -> Transfer \cup {Idle}] /\ receiving'[s] = Idle
         /\ \A r \in Streams : r # s => /\ wire'[r] = wire[r] /\ receiving'[r] = receiving[r]
                                        /\ r \in broken' <=> r \in broken
         /\ StreamOk(s)'
<1>1. /\ Typed /\ WireOk(s) /\ StepOk(s)
      /\ wire \in [Streams -> Seq(Chunk)] /\ broken \subseteq Streams
      /\ receiving \in [Streams -> Transfer \cup {Idle}]
  BY InvFacts DEF Typed
<1>2. /\ receiving' \in [Streams -> Transfer \cup {Idle}] /\ receiving'[s] = Idle
      /\ \A r \in Streams : r # s => receiving'[r] = receiving[r]
  BY <1>1
<1>3. receiving'[s].at # "chunks"
  BY <1>2 DEF Idle
<1>4. CASE wire' = wire /\ broken' = broken
  <2>1. WireOk(s)' /\ StepOk(s)'
    BY <1>3, <1>4, StreamAtStage
  <2> QED  BY <2>1, <1>1, <1>2, <1>4 DEF StreamOk
<1>5. CASE wire' = [wire EXCEPT ![s] = <<>>] /\ broken' = broken \ {s}
  <2>1. /\ wire' \in [Streams -> Seq(Chunk)] /\ wire'[s] = <<>>
        /\ \A r \in Streams : r # s => wire'[r] = wire[r]
    BY <1>1, <1>5, EmptySeq
  <2>2. Orderly(s, <<>>, sent)
    BY EmptySeq, SMT DEF Orderly
  <2>3. WireOk(s)'
    BY <2>1, <2>2 DEF WireOk, Complete, Orderly
  <2>4. StepOk(s)'
    BY <2>1, <1>3, Zenon DEF StepOk
  <2> QED  BY <2>1, <2>3, <2>4, <1>1, <1>2, <1>5 DEF StreamOk
<1> QED  BY <1>4, <1>5

LEMMA RecreatedAreFailed ==
  ASSUME NEW s \in Streams, NEW results \in Results
  PROVE  /\ Recreated(s, results) \in Results
         /\ \A b \in Attempts : Recreated(s, results)[b] = "done" => results[b] = "done"
         /\ \A b \in Attempts : Stream[b] # s => Recreated(s, results)[b] = results[b]
BY RecreatedIs

LEMMA StreamEndsKeeps ==
  ASSUME Inv, NEW s \in Streams, EndUnknownTransfer(s) \/ RecreateStream(s)
  PROVE  Inv'
<1>1. /\ receiving[s].at # "chunks"
      /\ UNCHANGED <<sent, obj, notes, failures, breaks, interrupts, saved>>
      /\ receiving' = [receiving EXCEPT ![s] = Idle]
      /\ \/ result' = result /\ wire' = wire /\ broken' = broken
         \/ /\ result' = Recreated(s, result)
            /\ wire' = [wire EXCEPT ![s] = <<>>] /\ broken' = broken \ {s}
  <2>1. CASE EndUnknownTransfer(s)
    BY <2>1 DEF EndUnknownTransfer, ReplaceStream, Go
  <2>2. CASE RecreateStream(s)
    BY <2>2 DEF RecreateStream, ReplaceStream, Idle
  <2> QED  BY <2>1, <2>2
<1>2. Typed /\ Files /\ result \in Results
  BY InvFacts DEF Typed, Results
<1>3. /\ result' \in Results
      /\ \A b \in Attempts : result'[b] = "done" => result[b] = "done"
      /\ \A b \in Attempts : Stream[b] # s => result'[b] = result[b]
  BY <1>1, <1>2, RecreatedAreFailed
<1>4. /\ wire' \in [Streams -> Seq(Chunk)] /\ broken' \subseteq Streams
      /\ receiving' \in [Streams -> Transfer \cup {Idle}] /\ receiving'[s] = Idle
      /\ \A r \in Streams : r # s => /\ wire'[r] = wire[r] /\ receiving'[r] = receiving[r]
                                     /\ r \in broken' <=> r \in broken
      /\ StreamOk(s)'
  BY <1>1, BecomesIdle, Zenon
<1>5. Typed'
  BY <1>1, <1>2, <1>3, <1>4 DEF Typed, Results
<1>6. Files'
  <2>1. \A r \in Streams : receiving'[r] = receiving[r] \/ receiving'[r].at \notin {"obj", "end"}
    BY <1>4 DEF Idle
  <2> QED  BY <2>1, <1>1, <1>2, <1>3, FilesKept
<1> QED  BY <1>1, <1>3, <1>4, <1>5, <1>6, Assembled, Zenon

LEMMA EndTransferKeeps ==
  ASSUME Inv, NEW s \in Streams, EndTransfer(s)
  PROVE  Inv'
<1> DEFINE t == receiving[s]
           a == t.session
           err == t.errWrite \/ t.errRecv
           lacksNotes == Request[a] \in WantsNotes /\ NotesSize[a] = 0
           results == WithResult(a, IF err \/ lacksNotes THEN "error" ELSE "done")
<1>1. /\ t.at = "end" /\ t.known /\ UNCHANGED <<sent, notes, failures, breaks, interrupts, saved>>
      /\ obj' = IF ~ err /\ lacksNotes THEN [obj EXCEPT ![Request[a]] = None] ELSE obj
      /\ receiving' = [receiving EXCEPT ![s] = Idle]
      /\ \/ result' = results /\ wire' = wire /\ broken' = broken
         \/ /\ result' = Recreated(s, results)
            /\ wire' = [wire EXCEPT ![s] = <<>>] /\ broken' = broken \ {s}
  BY DEF EndTransfer, ReplaceStream, Go
<1>2. Typed /\ Files /\ obj \in [Requests -> File]
  BY InvFacts DEF Typed
<1>3. t \in Transfer /\ OfTransfer(s, t) /\ a \in Attempts
  BY <1>1, <1>2, AtTransfer, InvFacts, TransferFields
<1>4. /\ Stream[a] = s /\ a \in sent /\ result[a] # "done" /\ Request[a] \in Requests
  BY <1>1, <1>3, Constants DEF OfTransfer
<1>5. /\ results \in Results
      /\ \A b \in Attempts : b # a => results[b] = result[b]
      /\ results[a] = "done" => ~ err /\ ~ lacksNotes
  <2>1. (IF err \/ lacksNotes THEN "error" ELSE "done") \in {"done", "failed", "error"}
    OBVIOUS
  <2>2. /\ results \in Results
        /\ \A b \in Attempts : b # a => results[b] = result[b]
        /\ results[a] = IF result[a] = "none"
                        THEN IF err \/ lacksNotes THEN "error" ELSE "done" ELSE result[a]
    <3> HIDE DEF err, lacksNotes
    <3> QED  BY <2>1, <1>2, <1>3, WithResultIs, Zenon
  <2> HIDE DEF results
  <2> QED  BY <2>2, <1>4
<1> HIDE DEF results
<1>6. /\ result' \in Results
      /\ \A b \in Attempts : Stream[b] # s => result'[b] = result[b]
      /\ \A b \in Attempts : result'[b] = "done" =>
           result[b] = "done" \/ (b = a /\ ~ err /\ ~ lacksNotes)
  <2>1. /\ result' \in Results
        /\ \A b \in Attempts : result'[b] = "done" => results[b] = "done"
        /\ \A b \in Attempts : Stream[b] # s => result'[b] = results[b]
    <3>1. /\ Recreated(s, results) \in Results
          /\ \A b \in Attempts : Recreated(s, results)[b] = "done" => results[b] = "done"
          /\ \A b \in Attempts : Stream[b] # s => Recreated(s, results)[b] = results[b]
      BY <1>5, RecreatedAreFailed
    <3>2. result' = results \/ result' = Recreated(s, results)
      BY <1>1
    <3> QED  BY <3>1, <3>2, <1>5
  <2>2. \A b \in Attempts : Stream[b] # s => b # a
    BY <1>4
  <2> HIDE DEF err, lacksNotes, t, a
  <2> QED  BY <2>1, <2>2, <1>5
<1>7. /\ wire' \in [Streams -> Seq(Chunk)] /\ broken' \subseteq Streams
      /\ receiving' \in [Streams -> Transfer \cup {Idle}] /\ receiving'[s] = Idle
      /\ \A r \in Streams : r # s => /\ wire'[r] = wire[r] /\ receiving'[r] = receiving[r]
                                     /\ r \in broken' <=> r \in broken
      /\ StreamOk(s)'
  BY <1>1, BecomesIdle, Zenon
<1>8. Typed'
  <2>1. obj' \in [Requests -> File]
    <3>1. None \in File
      BY DEF File
    <3> QED  BY <3>1, <1>1, <1>2
  <2> QED  BY <2>1, <1>1, <1>2, <1>6, <1>7 DEF Typed, Results
<1>9. Files'
  <2>1. /\ \A r \in Requests : r # Request[a] => obj'[r] = obj[r]
        /\ obj' = obj \/ (obj'[Request[a]] = None /\ lacksNotes)
        /\ ~ lacksNotes => obj' = obj
    BY <1>1, <1>2, <1>4
  <2>2. SUFFICES ASSUME NEW b \in Attempts, b = a PROVE Files'
    BY <1>3
  <2>3. lacksNotes => Endangers(b)
    BY <1>4, <2>2 DEF Endangers
  <2>4. \A c \in Attempts : c # b /\ Kept(c) => Kept(c)'
    <3>1. SUFFICES ASSUME NEW c \in Attempts, c # b, Kept(c) PROVE Kept(c)'
      OBVIOUS
    <3>2. CASE obj' = obj
      BY <3>1, <3>2, <1>1, KeptStays, Zenon
    <3>3. CASE lacksNotes
      BY <3>1, <3>3, <2>1, <2>2, <2>3, <1>1, <1>2, KeptBySibling, Zenon
    <3> QED  BY <3>2, <3>3, <2>1
  <2>5. SavedNotes'
    <3>1. \A r \in Streams : receiving'[r] = receiving[r] \/ receiving'[r].at # "obj"
      BY <1>7 DEF Idle
    <3> QED  BY <3>1, <1>1, <1>2, Zenon DEF Files, SavedNotes, HasNotes, MayRename
  <2>6. NotesBeforeObj'
    <3>1. SUFFICES ASSUME NEW c \in Attempts, Request[c] \in WantsNotes, NotesSize[c] > 0,
                          obj'[Request[c]] = Obj(c)
                   PROVE  NotesFit(c)'
      BY Zenon DEF NotesBeforeObj, NotesFit
    <3>2. obj[Request[c]] = Obj(c)
      BY <3>1, <2>1, Constants, ObjNotEmpty
    <3> QED  BY <3>1, <3>2, <1>1, <1>2, Zenon DEF Files, NotesBeforeObj, NotesFit
  <2>7. SavedObj'
    <3>1. SUFFICES ASSUME NEW r \in Streams, receiving'[r].at = "end", receiving'[r].known,
                          ~ receiving'[r].errWrite, ~ receiving'[r].errRecv
                   PROVE  Kept(receiving[r].session)'
      BY Zenon DEF SavedObj
    <3>2. r # s /\ receiving'[r] = receiving[r]
      BY <3>1, <1>7 DEF Idle
    <3>3. receiving[r] \in Transfer /\ receiving[r] # Idle
      BY <3>1, <3>2, <1>2, AtTransfer
    <3>4. receiving[r].session \in Attempts /\ Stream[receiving[r].session] = r
      BY <3>3, InvFacts, TransferFields DEF OfTransfer
    <3>5. receiving[r].session # b /\ Kept(receiving[r].session)
      BY <3>1, <3>2, <3>4, <1>2, <1>4, <2>2 DEF Files, SavedObj
    <3> QED  BY <3>2, <3>4, <3>5, <2>4, Zenon DEF Kept
  <2>8. DoneIsWhole'
    <3>1. SUFFICES ASSUME NEW c \in Attempts, result'[c] = "done" PROVE Kept(c)'
      BY Zenon DEF DoneIsWhole, Kept
    <3>2. CASE c = b
      <4>1. ~ err /\ ~ lacksNotes
        BY <3>1, <3>2, <2>2, <1>4, <1>6
      <4>2. Kept(b)
        BY <4>1, <2>2, <1>1, <1>2 DEF Files, SavedObj
      <4> QED  BY <4>1, <4>2, <3>2, <2>1, <1>1, KeptStays, Zenon
    <3>3. CASE c # b
      <4>1. result[c] = "done"
        BY <3>1, <3>3, <2>2, <1>6
      <4> QED  BY <4>1, <3>3, <2>4, <1>2, Zenon DEF Files, DoneIsWhole, Kept
    <3> QED  BY <3>2, <3>3
  <2> QED  BY <2>5, <2>6, <2>7, <2>8 DEF Files
<1> QED  BY <1>1, <1>6, <1>7, <1>8, <1>9, Assembled, Zenon

-----------------------------------------------------------------------------
(* The invariants of the specification *)

LEMMA InitOk == Init => Inv
<1> SUFFICES ASSUME Init PROVE Inv
  OBVIOUS
<1>1. /\ result = [a \in Attempts |-> "unmade"] /\ sent = {}
      /\ wire = [s \in Streams |-> <<>>] /\ broken = {}
      /\ receiving = [s \in Streams |-> Idle]
      /\ obj = [r \in Requests |-> None] /\ notes = [r \in Requests |-> None]
      /\ failures = 0 /\ breaks = 0 /\ interrupts = 0
      /\ saved = [a \in Attempts |-> "none"]
  BY DEF Init
<1>2. \A s \in Streams : receiving[s] = Idle /\ receiving[s].at = "idle" /\ wire[s] = <<>>
  BY <1>1 DEF Idle
<1>3. Typed
  <2>1. None \in File /\ <<>> \in Seq(Chunk)
    BY EmptySeq DEF File
  <2> QED  BY <2>1, <1>1, SMT DEF Typed
<1>4. \A s \in Streams : StreamOk(s)
  <2>1. SUFFICES ASSUME NEW s \in Streams PROVE StreamOk(s)
    OBVIOUS
  <2>2. Orderly(s, <<>>, sent)
    BY EmptySeq, SMT DEF Orderly
  <2> QED  BY <2>2, <1>2, Zenon DEF StreamOk, WireOk, StepOk, Complete
<1>5. Files
  <2>1. \A a \in Attempts : obj[Request[a]] = None /\ obj[Request[a]] # Obj(a)
    BY <1>1, Constants, ObjNotEmpty
  <2>2. \A a \in Attempts : result[a] # "done"
    BY <1>1
  <2> QED  BY <2>1, <2>2, <1>2, Zenon DEF Files, SavedNotes, NotesBeforeObj, SavedObj, DoneIsWhole
<1> QED  BY <1>3, <1>4, <1>5 DEF Inv

LEMMA StutterKeeps ==
  ASSUME Inv, UNCHANGED vars
  PROVE  Inv'
<1>1. /\ UNCHANGED <<result, sent, wire, broken, receiving, obj, notes>>
      /\ UNCHANGED <<failures, breaks, interrupts, saved>>
      /\ Typed /\ Files
  BY InvFacts DEF vars
<1>2. Typed'
  BY <1>1 DEF Typed
<1>3. Files'
  BY <1>1, FilesKept, Zenon
<1>4. \A s \in Streams : StreamOk(s)'
  <2>1. SUFFICES ASSUME NEW s \in Streams PROVE StreamOk(s)'
    OBVIOUS
  <2>2. receiving[s] # Idle => receiving[s].session \in Attempts
    BY <1>1, AtTransfer, TransferFields
  <2>3. StreamOk(s)
    BY DEF Inv
  <2> QED  BY <2>2, <2>3, <1>1, OtherStream, Zenon
<1> QED  BY <1>2, <1>3, <1>4 DEF Inv

LEMMA StepKeeps == Inv /\ [Next]_vars => Inv'
<1> SUFFICES ASSUME Inv, [Next]_vars PROVE Inv'
  OBVIOUS
<1>1. ASSUME NEW a \in Attempts, StartAttempt(a) \/ ForceInterrupt(a) PROVE Inv'
  BY <1>1, AttemptSteps
<1>2. ASSUME NEW a \in Attempts, ServerSends(a) PROVE Inv'
  BY <1>2, ServerSendsKeeps
<1>3. ASSUME NEW s \in Streams, StreamBreaks(s) PROVE Inv'
  BY <1>3, StreamBreaksKeeps
<1>4. ASSUME NEW s \in Streams, NEW a \in Attempts, ReceiveFailure(s, a) PROVE Inv'
  BY <1>4, ReceiveFailureKeeps
<1>5. ASSUME NEW s \in Streams, NEW a \in Attempts, ReceiveAtOnce(s, a) PROVE Inv'
  BY <1>5, ReceiveAtOnceKeeps
<1>6. ASSUME NEW s \in Streams, NEW a \in Attempts, ReceiveFirst(s, a) PROVE Inv'
  BY <1>6, ReceiveFirstKeeps
<1>7. ASSUME NEW s \in Streams, EndWriteFile(s) PROVE Inv'
  BY <1>7, EndWriteFileKeeps
<1>8. ASSUME NEW s \in Streams, ReceiveNext(s) PROVE Inv'
  BY <1>8, ReceiveNextKeeps
<1>9. ASSUME NEW s \in Streams, ReceiveNothing(s) \/ ReceivedAll(s) PROVE Inv'
  BY <1>9, EndOfChunksKeeps
<1>10. ASSUME NEW s \in Streams, SaveNotes(s) PROVE Inv'
  BY <1>10, SaveNotesKeeps
<1>11. ASSUME NEW s \in Streams, SaveObj(s) PROVE Inv'
  BY <1>11, SaveObjKeeps
<1>12. ASSUME NEW s \in Streams, EndTransfer(s) PROVE Inv'
  BY <1>12, EndTransferKeeps
<1>13. ASSUME NEW s \in Streams, EndUnknownTransfer(s) \/ RecreateStream(s) PROVE Inv'
  BY <1>13, StreamEndsKeeps
<1>14. CASE UNCHANGED vars
  BY <1>14, StutterKeeps
<1> QED
  BY <1>1, <1>2, <1>3, <1>4, <1>5, <1>6, <1>7, <1>8, <1>9, <1>10, <1>11, <1>12, <1>13, <1>14,
     Zenon DEF Next, Receive

LEMMA InvHolds == Spec => []Inv
<1> QED  BY InitOk, StepKeeps, PTL DEF Spec

(***************************************************************************)
(* Every variable keeps its type: of wire and receiving it says that only  *)
(* bytes of files and chunks of attempts are in them.                      *)
(***************************************************************************)
THEOREM TypeCorrect == Spec => []Typed
<1>1. Inv => Typed
  BY DEF Inv
<1> QED  BY <1>1, InvHolds, PTL

(***************************************************************************)
(* receiveObjFileByChunks and monitorRemoteStreamForObjReceiving leave no  *)
(* .o without a whole .gcno, whatever fails between the two, and it is the *)
(* .gcno of the same compilation as long as no other attempt at the        *)
(* request is saved in between: one that saved its .gcno before this .o    *)
(* came, or one whose .gcno is there and its .o is not.                    *)
(***************************************************************************)
THEOREM NotesFirst == Spec => []NotesBeforeObj
<1>1. Inv => NotesBeforeObj
  BY DEF Inv, Files
<1> QED  BY <1>1, InvHolds, PTL

(***************************************************************************)
(* What was answered as compiled keeps its whole .o, unless a late attempt *)
(* at the same request writes its small .o in place, or takes its own .o   *)
(* away again for want of a .gcno.                                         *)
(***************************************************************************)
THEOREM DoneStaysWhole == Spec => []DoneIsWhole
<1>1. Inv => DoneIsWhole
  BY DEF Inv, Files
<1> QED  BY <1>1, InvHolds, PTL

LEMMA InStepByInv == Inv => StreamStaysInStep
<1>1. SUFFICES ASSUME Inv, NEW s \in Streams, wire[s] # <<>>
               PROVE  /\ receiving[s] = Idle => Head(wire[s]) = Chunks(Head(wire[s]).session)[1]
                      /\ receiving[s].at = "chunks" /\ MoreToRead(receiving[s])
                           => Head(wire[s]).session = receiving[s].session
  BY Zenon DEF StreamStaysInStep
<1>2. Typed /\ StepOk(s)
  BY <1>1, InvFacts
<1>3. ASSUME receiving[s] = Idle PROVE Head(wire[s]) = Chunks(Head(wire[s]).session)[1]
  <2>1. receiving[s].at # "chunks"
    BY <1>2, <1>3, AtTransfer
  <2> QED  BY <2>1, <1>1, <1>2, Zenon DEF StepOk, StartsSession
<1>4. ASSUME receiving[s].at = "chunks", MoreToRead(receiving[s])
      PROVE  Head(wire[s]).session = receiving[s].session
  <2> DEFINE t == receiving[s]
             a == t.session
  <2>1. t \in Transfer /\ a \in Attempts /\ ExitCode[a] = "ok"
    BY <1>1, <1>2, <1>4, AtTransfer, InvFacts, TransferFields DEF OfTransfer
  <2>2. PICK j \in 1 .. LastChunk(a) : Progress(t, j) /\ Coming(s, a, j)
    BY <1>2, <1>4, Zenon DEF StepOk
  <2>3. j < LastChunk(a)
    BY <2>1, <2>2, <1>4, ReadToTheEnd
  <2>4. Head(wire[s]) = Chunks(a)[j + 1]
    BY <2>2, <2>3, <1>1, Zenon DEF Coming
  <2>5. j + 1 \in 1 .. LastChunk(a)
    BY <2>1, <2>2, <2>3, ChunksFacts, SMT
  <2> QED  BY <2>1, <2>4, <2>5, ChunkIs
<1> QED  BY <1>3, <1>4

(***************************************************************************)
(* The loop of monitorRemoteStreamForObjReceiving never takes a chunk for  *)
(* the first of a session that isn't, and receiveObjFileByChunks meets no  *)
(* chunk of another session, however often writes fail.                    *)
(***************************************************************************)
THEOREM InStep == Spec => []StreamStaysInStep
<1> QED  BY InStepByInv, InvHolds, PTL
=============================================================================
