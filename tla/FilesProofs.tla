------------------------------- MODULE FilesProofs -------------------------------
(***************************************************************************)
(* What Files copies, compares and lists, for files of any size, buffers   *)
(* of any size and directories with any names.                             *)
(***************************************************************************)
EXTENDS Files, SequenceTheorems, WellFoundedInduction, TLAPS

\* Two numbers, and a set of numbers, have a least.
LEMMA MinOfTwo ==
  ASSUME NEW a \in Nat, NEW b \in Nat
  PROVE  Min({a, b}) = IF a <= b THEN a ELSE b
  BY DEF Min

LEMMA MinOfSet ==
  ASSUME NEW S \in SUBSET Nat, S # {}
  PROVE  Min(S) \in S /\ \A y \in S : Min(S) <= y
<1> DEFINE Less == {ss \in Nat \X Nat : ss[1] < ss[2]}
<1>1. IsWellFoundedOn(Less, Nat)
  BY NatLessThanWellFounded DEF OpToRel
<1> HIDE DEF Less
<1>2. \E x \in S : \A y \in S : ~(<<y, x>> \in Less)
  BY <1>1, WFMin
<1>3. PICK x \in S : \A y \in S : ~(<<y, x>> \in Less)
  BY <1>2
<1>4. ASSUME NEW y \in S PROVE x <= y
  <2>1. <<y, x>> \in Nat \X Nat /\ <<y, x>>[1] = y /\ <<y, x>>[2] = x
    OBVIOUS
  <2>2. ~(y < x)
    BY <1>3, <2>1 DEF Less
  <2> QED
    BY <2>2
<1> QED
  BY <1>4 DEF Min

\* The end of a chunk.
LEMMA NextMultiple ==
  ASSUME NEW a \in Nat, a % Chunk = 0
  PROVE  (a + Chunk) % Chunk = 0
<1> USE FilesAssumption
<1> DEFINE q == a \div Chunk
           r == (a + Chunk) \div Chunk
<1>1. a = Chunk * q /\ q \in Int
  OBVIOUS
<1>2. a + Chunk = Chunk * r + ((a + Chunk) % Chunk) /\ r \in Int
  OBVIOUS
<1>3. (a + Chunk) % Chunk \in 0 .. Chunk - 1
  OBVIOUS
<1> HIDE DEF q, r
<1>4. (a + Chunk) % Chunk = Chunk * (q + 1 - r)
  BY <1>1, <1>2
<1>5. q + 1 - r <= 0 \/ q + 1 - r >= 1
  BY <1>1, <1>2
<1>6. CASE q + 1 - r >= 1
  BY <1>1, <1>2, <1>3, <1>4, <1>6
<1>7. CASE q + 1 - r <= 0
  BY <1>1, <1>2, <1>3, <1>4, <1>7
<1> QED
  BY <1>5, <1>6, <1>7

LEMMA ContentsAre ==
  ASSUME NEW f
  PROVE  f \in Contents <=> f \in Seq(Bytes) /\ Len(f) <= MaxSize
<1>1. ASSUME f \in Contents PROVE f \in Seq(Bytes) /\ Len(f) <= MaxSize
  BY <1>1, FilesAssumption DEF Contents
<1>2. ASSUME f \in Seq(Bytes), Len(f) <= MaxSize PROVE f \in Contents
  <2>1. f \in [1 .. Len(f) -> Bytes] /\ Len(f) \in 0 .. MaxSize
    BY <1>2, FilesAssumption
  <2> QED
    BY <2>1 DEF Contents
<1> QED
  BY <1>1, <1>2

-------------------------------------------------------------------------------
\* The invariants.  An offset is within its file, and what was written within
\* what was read.
FileTypes ==
  /\ file1 \in Seq(Bytes) /\ file2 \in Seq(Bytes)
  /\ Len(file1) <= MaxSize /\ Len(file2) <= MaxSize
  /\ at \in Nat /\ at <= Len(file1) /\ pos \in 0 .. at
  /\ out \in Seq(Bytes) /\ Len(out) <= at

FlagTypes ==
  /\ exercise \in {"ec1", "ec2", "ec4", "ec5"} /\ over \in BOOLEAN /\ broken \in BOOLEAN
  /\ cut \in BOOLEAN /\ failures \in 0 .. MaxFailures

VerdictType ==
  verdict \in [kind : {"none", "same", "differ", "file1 longer", "file2 longer"}, at : Nat]

DirTypes ==
  /\ dir \in [Entries -> Kinds] /\ files \subseteq Entries /\ changed \subseteq Entries
  /\ current \in [name : Entries \cup {""}, kind : Kinds] /\ crashed \subseteq Entries

Types == FileTypes /\ FlagTypes /\ VerdictType /\ DirTypes

\* What is written is what was read, and the loop ends only where the file does.
Copied ==
  exercise \in {"ec1", "ec5"} =>
    /\ ~cut => out = SubSeq(file1, 1, at)
    /\ over /\ ~broken /\ (exercise = "ec1" \/ failures = 0) => at = Len(file1)

\* The files agree as far as they were read, and that is to the end of a chunk.
Agree ==
  exercise = "ec2" =>
    /\ ~broken /\ at <= Len(file2) /\ pos = at
    /\ SamePrefix(at)
    /\ at % Chunk = 0 \/ (at = Len(file1) /\ at = Len(file2))
    /\ ~over => verdict.kind = "none"

Current(e) == current # Nothing /\ current.name = e

\* Of an entry that nobody touched, the line is still to come, at hand or made; one
\* whose owner has no name is never passed.
Listing ==
  exercise = "ec4" =>
    /\ over /\ crashed = {} => files = {} /\ current = Nothing
    /\ crashed # {} => over /\ current = Nothing
    /\ current # Nothing => current.name \in Entries \ files /\ current.kind \in {"file", "link"}
    /\ \A e \in files : Listed(e) = {}
    /\ \A e \in Entries \ changed :
         /\ Listed(e) = IF e \in files \/ Current(e) THEN {} ELSE {dir[e]} \ {"absent"}
         /\ e \in files => dir[e] # "absent"
         /\ dir[e] = "orphan" => e \in files
         /\ Current(e) => current.kind = dir[e]

\* What a listing that is cut short owes it to.
Cut ==
  /\ exercise # "ec4" => crashed = {}
  /\ \A e \in crashed : e \in files /\ (e \in changed \/ dir[e] = "orphan" \/ failures > 0)

Unset == \A l \in lines : l.target = "unset" => l.name \in changed

Verdict == exercise # "ec2" => verdict.kind = "none"

IInv == Types /\ Copied /\ Agree /\ Told /\ Verdict /\ Listing /\ Cut /\ Unset

-------------------------------------------------------------------------------
\* What a read returns: the bytes there are, if they are fewer than asked for.
LEMMA ReadGives ==
  ASSUME Types, NEW file \in Seq(Bytes), at <= Len(file), NEW n \in ReadReturns(file)
  PROVE  \/ n = -1 /\ (broken \/ failures < MaxFailures)
         \/ /\ ~broken /\ n \in 0 .. Chunk /\ at + n <= Len(file)
            /\ n < Chunk => at + n = Len(file)
<1>1. at \in Nat
  BY DEF Types, FileTypes
<1>2. Len(file) \in Nat
  OBVIOUS
<1>3. Chunk \in Nat /\ Len(file) - at \in Nat
  BY <1>1, <1>2, FilesAssumption
<1>4. Min({Chunk, Len(file) - at}) = IF Chunk <= Len(file) - at THEN Chunk ELSE Len(file) - at
  BY <1>3, MinOfTwo
<1>5. CASE n = -1 /\ (broken \/ failures < MaxFailures)
  BY <1>5
<1>6. CASE ~broken /\ n = Min({Chunk, Len(file) - at})
  BY <1>1, <1>2, <1>3, <1>4, <1>6
<1> QED
  BY <1>5, <1>6 DEF ReadReturns

LEMMA PieceOfFile ==
  ASSUME Types, NEW k \in Nat, at + k <= Len(file1)
  PROVE  /\ Piece(k) \in Seq(Bytes) /\ Len(Piece(k)) = k
         /\ SubSeq(file1, 1, at) \o Piece(k) = SubSeq(file1, 1, at + k)
<1>1. at \in Nat /\ file1 \in Seq(Bytes)
  BY DEF Types, FileTypes
<1>2. at + 1 \in Int /\ at + k \in Int /\ \A i \in at + 1 .. at + k : file1[i] \in Bytes
  BY <1>1
<1>3. Piece(k) \in Seq(Bytes) /\ Len(Piece(k)) = k
  BY <1>1, <1>2, SubSeqProperties DEF Piece
<1>4. 1 \in 1 .. Len(file1) + 1 /\ at \in 1 - 1 .. Len(file1) /\ at + k \in at .. Len(file1)
  BY <1>1
<1>5. SubSeq(file1, 1, at) \o SubSeq(file1, at + 1, at + k) = SubSeq(file1, 1, at + k)
  BY ONLY <1>1, <1>4, ConcatAdjacentSubSeq
<1> QED
  BY <1>3, <1>5 DEF Piece

-------------------------------------------------------------------------------
LEMMA InitIInv == Init => IInv
<1> SUFFICES ASSUME Init PROVE IInv
  OBVIOUS
<1>1. /\ exercise \in {"ec1", "ec2", "ec4", "ec5"} /\ over = FALSE /\ broken \in BOOLEAN
      /\ at = 0 /\ pos = 0 /\ verdict = [kind |-> "none", at |-> 0]
      /\ out = <<>> /\ cut = FALSE /\ lines = {} /\ crashed = {} /\ changed = {} /\ current = Nothing
      /\ failures = 0 /\ (exercise = "ec2" => ~broken)
  BY DEF Init
<1>2. <<>> \in Contents
  <2>1. <<>> \in Seq(Bytes) /\ Len(<<>>) = 0 /\ 0 <= MaxSize
    BY FilesAssumption
  <2> QED
    BY ONLY <2>1, ContentsAre
<1>3. file1 \in Contents /\ file2 \in Contents
  BY <1>2 DEF Init
<1>4. file1 \in Seq(Bytes) /\ file2 \in Seq(Bytes)
      /\ Len(file1) <= MaxSize /\ Len(file2) <= MaxSize
  BY <1>3, ContentsAre
<1>5. Len(file1) \in Nat /\ Len(file2) \in Nat
  BY <1>4
<1>6. dir \in [Entries -> Kinds] /\ files \subseteq Entries
  BY DEF Init, Kinds
<1>7. Nothing \in [name : Entries \cup {""}, kind : Kinds]
  BY DEF Nothing, Kinds
<1>8. Types
  <2>1. FileTypes
    <3>1. out \in Seq(Bytes) /\ Len(out) = 0
      BY <1>1
    <3>2. at = 0 /\ pos = 0 /\ at <= Len(file1)
      BY <1>1, <1>5
    <3> QED
      BY ONLY <1>4, <3>1, <3>2 DEF FileTypes
  <2>2. FlagTypes
    <3>1. failures \in 0 .. MaxFailures
      BY <1>1, FilesAssumption
    <3> QED
      BY <1>1, <3>1, Zenon DEF FlagTypes
  <2>3. VerdictType
    BY <1>1 DEF VerdictType
  <2>4. DirTypes
    BY <1>1, <1>6, <1>7 DEF DirTypes
  <2> QED
    BY <2>1, <2>2, <2>3, <2>4 DEF Types
<1>9. Copied
  BY <1>1, <1>4, SubSeqEmpty DEF Copied
<1>10. 0 % Chunk = 0
  BY FilesAssumption
<1>11. Agree /\ Told /\ Verdict
  BY <1>1, <1>5, <1>10 DEF Agree, Told, Verdict, SamePrefix
<1>12. ASSUME exercise = "ec4" PROVE files = {e \in Entries : dir[e] # "absent"}
  BY <1>12 DEF Init
<1>13. \A e \in Entries : Listed(e) = {}
  BY <1>1 DEF Listed
<1>14. Listing
  BY <1>1, <1>12, <1>13 DEF Listing, Current
<1> QED
  BY <1>1, <1>8, <1>9, <1>11, <1>14 DEF IInv, Cut, Unset

-------------------------------------------------------------------------------
\* ec1 and ec5

LEMMA CopyPreserves == IInv /\ Copy => IInv'
<1> SUFFICES ASSUME IInv, Copy PROVE IInv'
  OBVIOUS
<1>1. PICK n \in ReadReturns(file1) :
        \/ /\ Kept(n) > 0 /\ over' = FALSE
           /\ \/ /\ out' = IF n > 0 THEN out \o Piece(n) ELSE out
                 /\ cut' = cut
                 /\ failures' = failures + Failing(n)
              \/ /\ n > 0 /\ failures < MaxFailures /\ failures' = failures + 1
                 /\ \E k \in 0 .. n - 1 : out' = out \o Piece(k)
                 /\ cut' = TRUE
           /\ at' = IF n > 0 THEN at + n ELSE at
        \/ /\ ~(Kept(n) > 0) /\ over' = TRUE
           /\ failures' = failures + Failing(n)
           /\ UNCHANGED <<at, out, cut>>
  BY DEF Copy
<1>2. /\ exercise \in {"ec1", "ec5"}
      /\ UNCHANGED <<exercise, file1, file2, broken, pos, verdict>> /\ UNCHANGED dirVars
  BY DEF Copy
<1>3. Types /\ Copied /\ Verdict
  BY DEF IInv
<1>a. file1 \in Seq(Bytes) /\ out \in Seq(Bytes)
  BY <1>3 DEF Types, FileTypes
<1>b. Len(file1) \in Nat /\ Len(out) \in Nat
  BY <1>a
<1>4. /\ at \in Nat /\ Len(file1) \in Nat /\ at <= Len(file1) /\ Len(out) \in Nat
      /\ Len(out) <= at /\ out \in Seq(Bytes) /\ file1 \in Seq(Bytes)
      /\ failures \in 0 .. MaxFailures /\ pos \in 0 .. at
  BY <1>3, <1>a, <1>b DEF Types, FileTypes, FlagTypes
<1>5. \/ n = -1 /\ (broken \/ failures < MaxFailures)
      \/ /\ ~broken /\ n \in 0 .. Chunk /\ at + n <= Len(file1)
         /\ n < Chunk => at + n = Len(file1)
  BY <1>3, <1>4, ReadGives
<1>6. Chunk \in Nat \ {0} /\ ULong \in Nat /\ ULong > Chunk + 1 /\ MaxFailures \in Nat
  BY FilesAssumption
<1>7. Kept(n) = IF n = -1 /\ exercise = "ec1" THEN ULong - 1 ELSE n
  BY <1>5, <1>6 DEF Kept
<1>8. failures + Failing(n) \in 0 .. MaxFailures
  BY <1>4, <1>5, <1>6 DEF Failing
<1>9. failures' \in 0 .. MaxFailures /\ over' \in BOOLEAN /\ cut' \in BOOLEAN
  <2>1. over' \in BOOLEAN /\ (cut' = cut \/ cut' = TRUE)
    BY <1>1
  <2>2. failures' = failures + Failing(n) \/ (failures < MaxFailures /\ failures' = failures + 1)
    BY <1>1
  <2>3. failures' \in 0 .. MaxFailures
    BY ONLY <1>4, <1>6, <1>8, <2>2
  <2> QED
    BY <1>3, <2>1, <2>3 DEF Types, FlagTypes
<1>10. at' \in Nat /\ at' <= Len(file1) /\ at <= at'
  BY <1>1, <1>4, <1>5
<1>11. ASSUME NEW k \in Nat, at + k <= Len(file1)
       PROVE  out \o Piece(k) \in Seq(Bytes) /\ Len(out \o Piece(k)) <= at + k
  BY <1>3, <1>4, <1>11, PieceOfFile
<1>12. out' \in Seq(Bytes) /\ Len(out') <= at'
  <2>1. CASE out' = out
    BY ONLY <1>4, <1>10, <2>1
  <2>2. CASE n > 0 /\ at' = at + n /\ \E k \in 0 .. n : out' = out \o Piece(k)
    <3>1. PICK k \in 0 .. n : out' = out \o Piece(k)
      BY <2>2
    <3>2. k \in Nat /\ at + k <= Len(file1) /\ at + k <= at'
      BY <1>4, <1>5, <2>2
    <3>3. out \o Piece(k) \in Seq(Bytes) /\ Len(out \o Piece(k)) <= at + k
      BY <1>11, <3>2
    <3>4. Len(out') \in Nat
      BY <3>1, <3>3
    <3> QED
      BY ONLY <1>4, <1>10, <3>1, <3>2, <3>3, <3>4
  <2>3. n \in Int
    BY <1>5
  <2>4. CASE n > 0 /\ Kept(n) > 0
    <3>1. n \in 0 .. n /\ at' = at + n
      BY <1>1, <2>3, <2>4
    <3>2. out' = out \o Piece(n) \/ \E k \in 0 .. n - 1 : out' = out \o Piece(k)
      BY <1>1, <2>4
    <3>3. \A k \in 0 .. n - 1 : k \in 0 .. n
      BY <2>3
    <3>4. \E k \in 0 .. n : out' = out \o Piece(k)
      BY ONLY <3>1, <3>2, <3>3
    <3> QED
      BY <2>2, <2>4, <3>1, <3>4
  <2>5. CASE ~(n > 0 /\ Kept(n) > 0)
    BY <1>1, <2>1, <2>5
  <2> QED
    BY <2>4, <2>5
<1>13. Types'
  <2>1. FileTypes'
    <3>1. UNCHANGED <<file1, file2, pos>> /\ FileTypes
      BY <1>2, <1>3 DEF Types
    <3>2. file2 \in Seq(Bytes) /\ Len(file1) <= MaxSize /\ Len(file2) <= MaxSize
      BY <3>1 DEF FileTypes
    <3>3. pos \in 0 .. at'
      BY <1>4, <1>10
    <3> QED
      BY <3>1, <3>2, <3>3, <1>4, <1>10, <1>12 DEF FileTypes
  <2>2. FlagTypes'
    BY <1>2, <1>3, <1>9 DEF Types, FlagTypes
  <2>3. VerdictType'
    BY <1>2, <1>3 DEF Types, VerdictType
  <2>4. DirTypes'
    BY <1>2, <1>3 DEF Types, DirTypes, dirVars
  <2> QED
    BY <2>1, <2>2, <2>3, <2>4 DEF Types
<1>14. ~cut' => out' = SubSeq(file1', 1, at')
  <2> SUFFICES ASSUME ~cut' PROVE out' = SubSeq(file1, 1, at')
    BY <1>2
  <2>1. CASE n > 0 /\ Kept(n) > 0
    <3>1. out' = out \o Piece(n) /\ at' = at + n /\ cut' = cut
      BY <1>1, <2>1
    <3>2. out = SubSeq(file1, 1, at)
      BY <1>2, <1>3, <3>1 DEF Copied
    <3>3. n \in Nat /\ at + n <= Len(file1)
      BY <1>5, <2>1
    <3>4. SubSeq(file1, 1, at) \o Piece(n) = SubSeq(file1, 1, at + n)
      BY <1>3, <3>3, PieceOfFile
    <3> QED
      BY ONLY <3>1, <3>2, <3>4
  <2>2. CASE ~(n > 0 /\ Kept(n) > 0)
    BY <1>1, <1>2, <1>3, <2>2 DEF Copied
  <2> QED
    BY <2>1, <2>2
<1>15. over' /\ ~broken' /\ (exercise' = "ec1" \/ failures' = 0) => at' = Len(file1')
  BY <1>1, <1>2, <1>4, <1>5, <1>6, <1>7 DEF Failing
<1>16. Copied'
  BY <1>2, <1>14, <1>15 DEF Copied
<1>17. Agree' /\ Told' /\ Verdict'
  BY <1>2, <1>3 DEF Agree, Told, Verdict
<1>18. Listing' /\ Cut' /\ Unset'
  BY <1>2 DEF IInv, Listing, Cut, Unset, dirVars
<1> QED
  BY <1>13, <1>16, <1>17, <1>18 DEF IInv

-------------------------------------------------------------------------------
\* ec2

\* The shorter file is the one that was read to its end.
LEMMA ShorterIs ==
  ASSUME NEW f \in Seq(Bytes), NEW g \in Seq(Bytes)
  PROVE  Min({Len(f), Len(g)}) = IF Len(f) <= Len(g) THEN Len(f) ELSE Len(g)
<1>1. Len(f) \in Nat /\ Len(g) \in Nat
  OBVIOUS
<1> QED
  BY ONLY <1>1, MinOfTwo

\* A chunk without a difference, up to d, leaves the files agreeing that far.
LEMMA AgreeFurther ==
  ASSUME at \in Nat, SamePrefix(at), NEW n \in Nat, NEW d \in 0 .. n,
         \A y \in Differing(n) : d <= y
  PROVE  SamePrefix(at + d)
<1> SUFFICES ASSUME NEW i \in 1 .. at + d PROVE file1[i] = file2[i]
  BY DEF SamePrefix
<1>1. CASE i <= at
  BY <1>1 DEF SamePrefix
<1>2. CASE i > at
  <2>1. i - at - 1 \in 0 .. n - 1 /\ ~(d <= i - at - 1) /\ at + (i - at - 1) + 1 = i
    BY <1>2
  <2>2. i - at - 1 \notin Differing(n)
    BY <2>1
  <2> QED
    BY <2>1, <2>2 DEF Differing
<1> QED
  BY <1>1, <1>2

\* The whole chunks of a file that ends n bytes after the end of a chunk.
LEMMA WholeChunksAre ==
  ASSUME NEW a \in Nat, a % Chunk = 0, NEW n \in 0 .. Chunk - 1
  PROVE  (a + n) % Chunk = n
<1> USE FilesAssumption
<1> DEFINE q == a \div Chunk
           r == (a + n) \div Chunk
<1>1. a = Chunk * q /\ q \in Int
  OBVIOUS
<1>2. a + n = Chunk * r + ((a + n) % Chunk) /\ r \in Int /\ (a + n) % Chunk \in 0 .. Chunk - 1
  OBVIOUS
<1> HIDE DEF q, r
<1> DEFINE m == (a + n) % Chunk
<1>3. m - n = Chunk * (q - r)
  BY <1>1, <1>2
<1>4. q - r <= -1 \/ q - r = 0 \/ q - r >= 1
  BY <1>1, <1>2
<1>5. CASE q - r >= 1
  BY <1>1, <1>2, <1>3, <1>5
<1>6. CASE q - r <= -1
  BY <1>1, <1>2, <1>3, <1>6
<1>7. CASE q - r = 0
  BY <1>2, <1>3, <1>7
<1> QED
  BY <1>4, <1>5, <1>6, <1>7

\* A file that holds another chunk from the end of a chunk on has it among its whole ones.
LEMMA ChunksBelow ==
  ASSUME NEW a \in Nat, a % Chunk = 0, NEW b \in Nat, a + Chunk <= b
  PROVE  b - (b % Chunk) \in Nat /\ a + Chunk <= b - (b % Chunk)
<1> USE FilesAssumption
<1> DEFINE q == a \div Chunk
           r == b \div Chunk
<1>1. a = Chunk * q /\ q \in Int
  OBVIOUS
<1>2. b = Chunk * r + (b % Chunk) /\ r \in Int /\ b % Chunk \in 0 .. Chunk - 1
  OBVIOUS
<1> HIDE DEF q, r
<1>3. b - (b % Chunk) - (a + Chunk) = Chunk * (r - q - 1)
  <2>1. \A x, y \in Int : Chunk * (x - y - 1) = Chunk * x - Chunk * y - Chunk
    OBVIOUS
  <2>2. Chunk * (r - q - 1) = Chunk * r - Chunk * q - Chunk
    BY <1>1, <1>2, <2>1
  <2>3. Chunk * r \in Int /\ Chunk * q \in Int
    BY <1>1, <1>2
  <2>4. b - (b % Chunk) = Chunk * r
    BY <1>2, <2>3
  <2> QED
    BY <1>1, <2>2, <2>3, <2>4
<1>4. r - q - 1 >= 0 \/ r - q - 1 <= -1
  BY <1>1, <1>2
<1>5. CASE r - q - 1 >= 0
  <2>1. Chunk * (r - q - 1) >= 0
    BY <1>1, <1>2, <1>5
  <2> QED
    BY <1>2, <1>3, <2>1
<1>6. CASE r - q - 1 <= -1
  <2>1. Chunk * (r - q - 1) <= -Chunk
    BY <1>1, <1>2, <1>6
  <2> QED
    BY <1>2, <1>3, <2>1
<1> QED
  BY <1>4, <1>5, <1>6

LEMMA ComparePreserves == IInv /\ Compare => IInv'
<1> SUFFICES ASSUME IInv, Compare PROVE IInv'
  OBVIOUS
<1>1. PICK n1 \in ReadReturns(file1) :
      \E n2 \in IF n1 > 0 THEN ReadReturns(file2) ELSE {0} :
        /\ failures + Failing(n1) + Failing(n2) <= MaxFailures
        /\ failures' = failures + Failing(n1) + Failing(n2)
        /\ IF n1 <= 0 \/ n2 <= 0 THEN Decide("same", 0)
           ELSE IF n1 > n2 THEN Decide("file1 longer", 0)
           ELSE IF n1 < n2 THEN Decide("file2 longer", 0)
           ELSE IF Differing(n1) # {} THEN Decide("differ", pos + Min(Differing(n1)))
           ELSE /\ at' = at + n1 /\ pos' = NextPos(n1)
                /\ UNCHANGED <<over, verdict>>
  BY DEF Compare
<1>2. PICK n2 \in IF n1 > 0 THEN ReadReturns(file2) ELSE {0} :
        /\ failures + Failing(n1) + Failing(n2) <= MaxFailures
        /\ failures' = failures + Failing(n1) + Failing(n2)
        /\ IF n1 <= 0 \/ n2 <= 0 THEN Decide("same", 0)
           ELSE IF n1 > n2 THEN Decide("file1 longer", 0)
           ELSE IF n1 < n2 THEN Decide("file2 longer", 0)
           ELSE IF Differing(n1) # {} THEN Decide("differ", pos + Min(Differing(n1)))
           ELSE /\ at' = at + n1 /\ pos' = NextPos(n1)
                /\ UNCHANGED <<over, verdict>>
  BY <1>1
<1>a. /\ failures + Failing(n1) + Failing(n2) <= MaxFailures
      /\ failures' = failures + Failing(n1) + Failing(n2)
  BY <1>2
<1>b. LET ended == n1 <= 0 \/ n2 <= 0 IN
      /\ ended => Decide("same", 0)
      /\ ~ended /\ n1 > n2 => Decide("file1 longer", 0)
      /\ ~ended /\ ~(n1 > n2) /\ n1 < n2 => Decide("file2 longer", 0)
      /\ ~ended /\ ~(n1 > n2) /\ ~(n1 < n2) /\ Differing(n1) # {}
           => Decide("differ", pos + Min(Differing(n1)))
      /\ ~ended /\ ~(n1 > n2) /\ ~(n1 < n2) /\ Differing(n1) = {}
           => at' = at + n1 /\ pos' = NextPos(n1) /\ UNCHANGED <<over, verdict>>
  BY <1>2, Zenon
<1>3. /\ exercise = "ec2" /\ ~over
      /\ UNCHANGED <<exercise, file1, file2, broken, out, cut>> /\ UNCHANGED dirVars
  BY DEF Compare
<1>4. Types /\ Agree /\ ~broken /\ pos = at /\ SamePrefix(at) /\ at <= Len(file2)
      /\ verdict.kind = "none" /\ (at % Chunk = 0 \/ (at = Len(file1) /\ at = Len(file2)))
  BY <1>3 DEF IInv, Agree
<1>5. file1 \in Seq(Bytes) /\ file2 \in Seq(Bytes) /\ at \in Nat /\ at <= Len(file1)
  BY <1>4 DEF Types, FileTypes
<1>6. Len(file1) \in Nat /\ Len(file2) \in Nat
  BY <1>5
<1>7. n1 = -1 \/ (n1 \in 0 .. Chunk /\ at + n1 <= Len(file1)
                   /\ (n1 < Chunk => at + n1 = Len(file1)))
  BY <1>4, <1>5, ReadGives
<1>8. n1 > 0 =>
        n2 = -1 \/ (n2 \in 0 .. Chunk /\ at + n2 <= Len(file2)
                     /\ (n2 < Chunk => at + n2 = Len(file2)))
  BY <1>2, <1>4, <1>5, ReadGives
<1>9. ~(n1 > 0) => n2 = 0
  BY <1>2
<1>10. Chunk \in Nat \ {0} /\ MaxFailures \in Nat
  BY FilesAssumption
<1>11. n1 \in Int /\ n2 \in Int
  BY <1>7, <1>8, <1>9, <1>10
<1>12. Failing(n1) = (IF n1 = -1 THEN 1 ELSE 0) /\ Failing(n2) = (IF n2 = -1 THEN 1 ELSE 0)
  BY <1>4 DEF Failing
<1>13. failures \in Nat
  BY <1>4, <1>10 DEF Types, FlagTypes
<1>14. failures' \in 0 .. MaxFailures
  BY ONLY <1>a, <1>10, <1>12, <1>13
<1>15. Min({Len(file1), Len(file2)}) = IF Len(file1) <= Len(file2) THEN Len(file1) ELSE Len(file2)
  BY ONLY <1>5, ShorterIs
<1>16. Copied' /\ Listing' /\ Cut' /\ Unset' /\ Verdict'
  BY <1>3 DEF IInv, Copied, Listing, Cut, Unset, Verdict, dirVars
<1>17. ASSUME over' \in BOOLEAN PROVE FlagTypes' /\ DirTypes'
  BY <1>3, <1>4, <1>14, <1>17 DEF Types, FlagTypes, DirTypes, dirVars
<1>18. ASSUME NEW kind \in {"same", "differ", "file1 longer", "file2 longer"}, NEW p \in Nat,
              Decide(kind, p), Told'
       PROVE  IInv'
  <2>1. over' = TRUE /\ verdict' = [kind |-> kind, at |-> p] /\ at' = at /\ pos' = pos
    BY <1>18 DEF Decide
  <2>2. FileTypes'
    BY <1>3, <1>4, <2>1 DEF Types, FileTypes
  <2>3. VerdictType'
    BY <2>1 DEF VerdictType
  <2>4. Agree'
    BY <1>3, <1>4, <2>1 DEF Agree, SamePrefix
  <2> QED
    BY <1>16, <1>17, <1>18, <2>1, <2>2, <2>3, <2>4 DEF IInv, Types
<1>19. CASE n1 <= 0 \/ n2 <= 0
  <2>1. Decide("same", 0)
    BY <1>2, <1>19
  <2>2. verdict' = [kind |-> "same", at |-> 0]
    BY <2>1 DEF Decide
  <2>3. CASE n1 = -1 \/ n2 = -1
    <3>1. failures' > 0
      BY ONLY <1>a, <1>12, <1>13, <2>3
    <3>2. Told'
      BY <2>2, <3>1 DEF Told
    <3> QED
      BY <1>18, <2>1, <3>2
  <2>4. CASE ~(n1 = -1 \/ n2 = -1)
    <3>1. (n1 = 0 /\ at = Len(file1)) \/ (n1 > 0 /\ at = Len(file2))
      BY <1>5, <1>6, <1>7, <1>8, <1>9, <1>10, <1>11, <1>19, <2>4
    <3>2. Shorter = at
      BY <1>4, <1>5, <1>6, <1>15, <3>1 DEF Shorter
    <3>3. SamePrefix(Shorter) /\ (Len(file1) = Len(file2) \/ Shorter % Chunk = 0)
      BY <1>4, <3>2
    <3>4. Told'
      BY <1>3, <2>2, <3>3 DEF Told, SamePrefix, Shorter
    <3> QED
      BY <1>18, <2>1, <3>4
  <2> QED
    BY <2>3, <2>4
<1>20. CASE n1 > 0 /\ n2 > 0 /\ n1 # n2
  <2>1. CASE n1 > n2
    <3>1. Decide("file1 longer", 0)
      <4>1. ~(n1 <= 0 \/ n2 <= 0) /\ n1 > n2
        BY ONLY <1>11, <1>20, <2>1
      <4> QED
        BY <1>b, <4>1, Zenon
    <3>2. /\ Len(file1) > Len(file2) /\ Len(file2) = at + n2
          /\ n2 \in 0 .. Chunk - 1 /\ n2 > 0
      BY <1>5, <1>6, <1>7, <1>8, <1>10, <1>20, <2>1
    <3>3. Shorter = at + n2 /\ at % Chunk = 0
      BY <1>4, <1>5, <1>6, <1>15, <3>2 DEF Shorter
    <3>4. WholeChunks = at /\ WholeChunks < Shorter
      <4>1. (at + n2) % Chunk = n2
        BY <1>5, <3>2, <3>3, WholeChunksAre
      <4> QED
        BY <1>5, <3>2, <3>3, <4>1 DEF WholeChunks
    <3>5. /\ WholeChunks' = WholeChunks /\ Shorter' = Shorter /\ SamePrefix(WholeChunks)
          /\ SamePrefix(WholeChunks)' <=> SamePrefix(WholeChunks)
      BY <1>3, <1>4, <3>4 DEF WholeChunks, Shorter, SamePrefix
    <3>6. Told'
      BY <1>3, <3>1, <3>2, <3>4, <3>5 DEF Told, Decide
    <3> QED
      BY <1>18, <3>1, <3>6
  <2>2. CASE n1 < n2
    <3>1. Decide("file2 longer", 0)
      <4>1. ~(n1 <= 0 \/ n2 <= 0) /\ ~(n1 > n2) /\ n1 < n2
        BY ONLY <1>11, <1>20, <2>2
      <4> QED
        BY <1>b, <4>1, Zenon
    <3>2. /\ Len(file1) < Len(file2) /\ Len(file1) = at + n1
          /\ n1 \in 0 .. Chunk - 1 /\ n1 > 0
      BY <1>5, <1>6, <1>7, <1>8, <1>10, <1>20, <2>2
    <3>3. Shorter = at + n1 /\ at % Chunk = 0
      BY <1>4, <1>5, <1>6, <1>15, <3>2 DEF Shorter
    <3>4. WholeChunks = at /\ WholeChunks < Shorter
      <4>1. (at + n1) % Chunk = n1
        BY <1>5, <3>2, <3>3, WholeChunksAre
      <4> QED
        BY <1>5, <3>2, <3>3, <4>1 DEF WholeChunks
    <3>5. /\ WholeChunks' = WholeChunks /\ Shorter' = Shorter /\ SamePrefix(WholeChunks)
          /\ SamePrefix(WholeChunks)' <=> SamePrefix(WholeChunks)
      BY <1>3, <1>4, <3>4 DEF WholeChunks, Shorter, SamePrefix
    <3>6. Told'
      BY <1>3, <3>1, <3>2, <3>4, <3>5 DEF Told, Decide
    <3> QED
      BY <1>18, <3>1, <3>6
  <2> QED
    BY <1>11, <1>20, <2>1, <2>2
<1>21. CASE n1 > 0 /\ n1 = n2
  <2>1. n1 \in Nat /\ n1 \in 0 .. Chunk /\ at + n1 <= Len(file1) /\ at + n1 <= Len(file2)
    BY <1>7, <1>8, <1>10, <1>11, <1>21
  <2>2. CASE Differing(n1) # {}
    <3> DEFINE d == Min(Differing(n1))
    <3>1. Differing(n1) \in SUBSET Nat
      BY <2>1 DEF Differing
    <3>2. d \in Differing(n1) /\ \A y \in Differing(n1) : d <= y
      BY <2>2, <3>1, MinOfSet
    <3>3. d \in 0 .. n1 - 1 /\ file1[at + d + 1] # file2[at + d + 1]
      BY <3>2 DEF Differing
    <3> HIDE DEF d
    <3>4. d \in 0 .. n1 /\ d \in Nat /\ at + d \in Nat
      BY <1>5, <2>1, <3>3
    <3>5. SamePrefix(at + d)
      BY <1>4, <1>5, <2>1, <3>2, <3>4, AgreeFurther
    <3>6. Decide("differ", pos + d)
      <4>1. ~(n1 <= 0 \/ n2 <= 0) /\ ~(n1 > n2) /\ ~(n1 < n2)
        BY ONLY <2>1, <1>21
      <4> QED
        BY <1>b, <2>2, <4>1, Zenon DEF d
    <3>7. verdict' = [kind |-> "differ", at |-> at + d]
      BY <1>4, <3>6 DEF Decide
    <3>8. at + d < Shorter
      BY <1>5, <1>6, <1>15, <2>1, <3>3 DEF Shorter
    <3>9. at + d < IF Len(file1) = Len(file2) THEN Shorter ELSE WholeChunks
      <4>1. CASE Len(file1) = Len(file2)
        BY <3>8, <4>1
      <4>2. CASE Len(file1) # Len(file2)
        <5>1. n1 = Chunk /\ at % Chunk = 0
          BY <1>4, <1>5, <1>6, <1>7, <1>8, <1>10, <1>21, <2>1, <4>2
        <5>2. Shorter \in Nat /\ at + Chunk <= Shorter
          BY <1>5, <1>6, <1>15, <2>1, <5>1 DEF Shorter
        <5>3. WholeChunks \in Nat /\ at + Chunk <= WholeChunks
          BY <1>5, <5>1, <5>2, ChunksBelow DEF WholeChunks
        <5>4. d \in Nat /\ d < Chunk
          BY <1>10, <3>3, <5>1
        <5>5. at + d < WholeChunks
          BY <1>5, <1>10, <5>3, <5>4
        <5> QED
          BY <4>2, <5>5
      <4> QED
        BY <4>1, <4>2
    <3>10. Told'
      <4>1. verdict'.kind = "differ" /\ verdict'.at = at + d
        BY <3>7
      <4>2. /\ \A i \in 1 .. at + d : file1'[i] = file2'[i]
            /\ WholeChunks' = WholeChunks /\ Shorter' = Shorter
            /\ Len(file1') = Len(file1) /\ Len(file2') = Len(file2)
            /\ file1'[at + d + 1] # file2'[at + d + 1]
        BY <1>3, <3>3, <3>5 DEF SamePrefix, Shorter, WholeChunks
      <4> QED
        BY <3>9, <4>1, <4>2 DEF Told, SamePrefix
    <3> QED
      BY <1>4, <1>18, <3>4, <3>6, <3>10
  <2>3. CASE Differing(n1) = {}
    <3>1. at' = at + n1 /\ pos' = pos + n1 /\ UNCHANGED <<over, verdict>>
      <4>1. ~(n1 <= 0 \/ n2 <= 0) /\ ~(n1 > n2) /\ ~(n1 < n2)
        BY ONLY <2>1, <1>21
      <4> QED
        BY <1>b, <2>3, <4>1, Zenon DEF NextPos
    <3>2. SamePrefix(at + n1)
      <4>1. n1 \in 0 .. n1 /\ \A y \in Differing(n1) : n1 <= y
        BY <2>1, <2>3
      <4> QED
        BY <1>4, <1>5, <2>1, <4>1, AgreeFurther
    <3>3. at' \in Nat /\ at' <= Len(file1) /\ at' <= Len(file2) /\ pos' = at' /\ pos' \in 0 .. at'
          /\ at <= at'
      BY <1>4, <1>5, <2>1, <3>1
    <3>4. FileTypes'
      <4>1. FileTypes /\ UNCHANGED <<file1, file2, out>>
        BY <1>3, <1>4 DEF Types
      <4>2. out \in Seq(Bytes) /\ Len(out) <= at
        BY <4>1 DEF FileTypes
      <4>3. Len(out) \in Nat
        BY <4>2
      <4>4. Len(out) <= at'
        BY ONLY <1>5, <3>3, <4>2, <4>3
      <4> QED
        BY <3>3, <4>1, <4>4 DEF FileTypes
    <3>5. VerdictType'
      BY <1>4, <3>1 DEF Types, VerdictType
    <3>6. at' % Chunk = 0 \/ (at' = Len(file1) /\ at' = Len(file2))
      <4>1. CASE n1 = Chunk /\ at % Chunk = 0
        BY <1>5, <3>1, <4>1, NextMultiple
      <4>2. CASE at = Len(file1)
        BY <1>5, <2>1, <1>21, <4>2
      <4>3. CASE n1 < Chunk
        BY <1>7, <1>8, <1>21, <2>1, <3>1, <4>3
      <4> QED
        BY <1>4, <1>10, <2>1, <4>1, <4>2, <4>3
    <3>7. Agree'
      <4>1. UNCHANGED <<file1, file2, broken, verdict>> /\ SamePrefix(at')
        BY <1>3, <3>1, <3>2
      <4> QED
        BY <1>4, <3>3, <3>6, <4>1 DEF Agree, SamePrefix
    <3>8. Told'
      BY <1>4, <3>1 DEF Told
    <3> QED
      <4>1. over' \in BOOLEAN
        BY <1>4, <3>1 DEF Types, FlagTypes
      <4>2. FlagTypes' /\ DirTypes'
        BY <1>17, <4>1
      <4> QED
        BY <1>16, <3>4, <3>5, <3>7, <3>8, <4>2 DEF IInv, Types
  <2> QED
    BY <2>2, <2>3
<1> QED
  BY <1>11, <1>19, <1>20, <1>21

-------------------------------------------------------------------------------
\* ec4

\* An entry that lstat does not find, or whose owner and group have names.
LEMMA PassPreserves ==
  ASSUME IInv, NEW e \in Entries, exercise = "ec4", ~over, current = Nothing, e \in files,
         files' = files \ {e},
         UNCHANGED <<exercise, over, dir, lines, crashed, changed, failures>>,
         UNCHANGED fileVars,
         \/ dir[e] = "absent" /\ current' = current
         \/ dir[e] \in {"file", "link"} /\ current' = [name |-> e, kind |-> dir[e]]
  PROVE  IInv'
<1>1. Types /\ Copied /\ Agree /\ Told /\ Verdict /\ Listing /\ Cut /\ Unset
  BY DEF IInv
<1>2. crashed = {}
  BY <1>1 DEF Listing
<1>3. dir[e] \in Kinds
  BY <1>1 DEF Types, DirTypes
<1>4. Types'
  <2>1. FileTypes' /\ FlagTypes' /\ VerdictType'
    BY <1>1 DEF Types, FileTypes, FlagTypes, VerdictType, fileVars
  <2>2. current' \in [name : Entries \cup {""}, kind : Kinds]
    <3>1. current \in [name : Entries \cup {""}, kind : Kinds]
      BY <1>1 DEF Types, DirTypes
    <3>2. [name |-> e, kind |-> dir[e]] \in [name : Entries \cup {""}, kind : Kinds]
      BY <1>3
    <3> QED
      BY <3>1, <3>2
  <2>3. DirTypes'
    BY <1>1, <2>2 DEF Types, DirTypes
  <2> QED
    BY <2>1, <2>3 DEF Types
<1>5. Copied' /\ Agree' /\ Told' /\ Verdict' /\ Unset' /\ Cut'
  BY <1>1, <1>2
  DEF Copied, Agree, Told, Verdict, Unset, Cut, fileVars, SamePrefix, Shorter, WholeChunks
<1>6. \A f \in Entries : Listed(f)' = Listed(f)
  BY DEF Listed
<1>7. current' # Nothing =>
        current' = [name |-> e, kind |-> dir[e]] /\ dir[e] \in {"file", "link"}
  OBVIOUS
<1>8. dir[e] # "absent" => current' # Nothing
  <2>1. [name |-> e, kind |-> dir[e]].kind = dir[e] /\ Nothing.kind = "absent"
    BY DEF Nothing
  <2> QED
    BY <2>1
<1>9. ASSUME NEW f \in Entries \ changed
      PROVE  /\ Listed(f)' = IF f \in files' \/ Current(f)' THEN {} ELSE {dir[f]} \ {"absent"}
             /\ f \in files' => dir[f] # "absent"
             /\ dir[f] = "orphan" => f \in files'
             /\ Current(f)' => current'.kind = dir[f]
  <2>1. /\ Listed(f) = IF f \in files \/ Current(f) THEN {} ELSE {dir[f]} \ {"absent"}
        /\ f \in files => dir[f] # "absent"
        /\ dir[f] = "orphan" => f \in files
    BY <1>1 DEF Listing
  <2>2. ~Current(f)
    BY DEF Current
  <2>3. CASE f = e
    <3>1. dir[e] # "absent" /\ dir[e] # "orphan" /\ Current(f)' /\ current'.kind = dir[f]
      BY <1>7, <1>8, <2>1, <2>3 DEF Current
    <3> QED
      BY <1>6, <2>1, <2>3, <3>1
  <2>4. CASE f # e
    <3>1. ~Current(f)'
      BY <1>7, <2>4 DEF Current
    <3> QED
      BY <1>6, <2>1, <2>2, <2>4, <3>1
  <2> QED
    BY <2>3, <2>4
<1>10. \A f \in files' : Listed(f)' = {}
  BY <1>1, <1>6 DEF Listing, Types, DirTypes
<1>11. Listing'
  BY <1>2, <1>7, <1>9, <1>10 DEF Listing
<1> QED
  BY <1>4, <1>5, <1>11 DEF IInv

\* An entry whose owner or group is a null pointer.
LEMMA CrashPreserves ==
  ASSUME IInv, NEW e \in Entries, exercise = "ec4", current = Nothing, e \in files,
         NullOwner(e), over' = TRUE, crashed' = {e},
         UNCHANGED <<exercise, dir, files, current, lines, changed>>, UNCHANGED fileVars
  PROVE  IInv'
<1>1. Types /\ Copied /\ Agree /\ Told /\ Verdict /\ Listing /\ Cut /\ Unset
  BY DEF IInv
<1>2. failures \in Nat /\ failures' \in 0 .. MaxFailures
      /\ (dir[e] = "orphan" \/ failures' > 0)
  BY <1>1, FilesAssumption DEF NullOwner, Types, FlagTypes
<1>3. Types'
  BY <1>1, <1>2 DEF Types, FileTypes, FlagTypes, VerdictType, DirTypes, fileVars
<1>4. Copied' /\ Agree' /\ Verdict' /\ Unset' /\ Cut'
  BY <1>1, <1>2 DEF Copied, Agree, Verdict, Unset, Cut, fileVars
<1>5. Told'
  BY <1>1 DEF Verdict, Told, fileVars
<1>6. \A f \in Entries : Listed(f)' = Listed(f) /\ Current(f)' = Current(f)
  BY DEF Listed, Current
<1>7. \A f \in files : f \in Entries
  BY <1>1 DEF Types, DirTypes
<1>8. Listing'
  BY <1>1, <1>6, <1>7 DEF Listing
<1> QED
  BY <1>3, <1>4, <1>5, <1>8 DEF IInv

LEMMA StatPreserves == ASSUME NEW e \in Entries PROVE IInv /\ Stat(e) => IInv'
<1> SUFFICES ASSUME IInv, Stat(e) PROVE IInv'
  OBVIOUS
<1>1. /\ exercise = "ec4" /\ ~over /\ current = Nothing /\ e \in files
      /\ UNCHANGED <<exercise, dir, lines, changed>> /\ UNCHANGED fileVars
  BY DEF Stat
<1>2. CASE NullOwner(e) /\ over' = TRUE /\ crashed' = {e} /\ UNCHANGED <<files, current>>
  BY <1>1, <1>2, CrashPreserves
<1>3. CASE \/ dir[e] = "absent" /\ Gone(e) /\ UNCHANGED <<over, current, crashed, failures>>
           \/ /\ dir[e] \in {"file", "link"}
              /\ files' = files \ {e} /\ current' = [name |-> e, kind |-> dir[e]]
              /\ UNCHANGED <<over, crashed, failures>>
  <2>1. files' = files \ {e} /\ UNCHANGED <<over, crashed, failures>>
        /\ \/ dir[e] = "absent" /\ current' = current
           \/ dir[e] \in {"file", "link"} /\ current' = [name |-> e, kind |-> dir[e]]
    BY <1>3 DEF Gone
  <2> QED
    BY <1>1, <2>1, PassPreserves
<1> QED
  BY <1>2, <1>3 DEF Stat

LEMMA LinePreserves == IInv /\ Line => IInv'
<1> SUFFICES ASSUME IInv, Line PROVE IInv'
  OBVIOUS
<1> DEFINE t == IF ~IsLink THEN "none" ELSE IF dir[current.name] = "link" THEN "read" ELSE "unset"
           line == [name |-> current.name, kind |-> current.kind, target |-> t]
<1>1. /\ exercise = "ec4" /\ current # Nothing /\ current' = Nothing /\ lines' = lines \cup {line}
      /\ UNCHANGED <<exercise, over, dir, files, crashed, changed, failures>> /\ UNCHANGED fileVars
  BY DEF Line
<1>2. Types /\ Copied /\ Agree /\ Told /\ Verdict /\ Listing /\ Cut /\ Unset
  BY DEF IInv
<1>3. Types'
  <2>1. FileTypes' /\ FlagTypes' /\ VerdictType'
    BY <1>1, <1>2 DEF Types, FileTypes, FlagTypes, VerdictType, fileVars
  <2>2. DirTypes'
    BY <1>1, <1>2 DEF Types, DirTypes, Nothing, Kinds
  <2> QED
    BY <2>1, <2>2 DEF Types
<1>4. Copied' /\ Agree' /\ Told' /\ Verdict' /\ Cut'
  BY <1>1, <1>2
  DEF Copied, Agree, Told, Verdict, Cut, fileVars, SamePrefix, Shorter, WholeChunks
<1>5. /\ ~over /\ crashed = {}
      /\ current.name \in Entries \ files /\ current.kind \in {"file", "link"}
      /\ \A f \in files : Listed(f) = {}
      /\ \A f \in Entries \ changed :
           /\ Listed(f) = IF f \in files \/ Current(f) THEN {} ELSE {dir[f]} \ {"absent"}
           /\ f \in files => dir[f] # "absent"
           /\ dir[f] = "orphan" => f \in files
           /\ Current(f) => current.kind = dir[f]
  BY <1>1, <1>2 DEF Listing
<1>6. line.name = current.name /\ line.kind = current.kind /\ line.target = t
  OBVIOUS
<1> HIDE DEF line
<1>7. \A f : Listed(f)' = Listed(f) \cup (IF f = current.name THEN {current.kind} ELSE {})
  BY <1>1, <1>6 DEF Listed
<1>8. ASSUME NEW f \in Entries \ changed
      PROVE  /\ Listed(f)' = IF f \in files THEN {} ELSE {dir[f]} \ {"absent"}
             /\ f \in files => dir[f] # "absent"
             /\ dir[f] = "orphan" => f \in files
  <2>1. CASE f = current.name
    BY <1>1, <1>5, <1>7, <2>1 DEF Current
  <2>2. CASE f # current.name
    BY <1>1, <1>5, <1>7, <2>2 DEF Current
  <2> QED
    BY <2>1, <2>2
<1>9. Listing'
  <2>1. \A f \in files : Listed(f)' = {}
    BY <1>5, <1>7
  <2> QED
    BY <1>1, <1>5, <1>8, <2>1 DEF Listing, Current
<1>10. line.target = "unset" => line.name \in changed
  BY <1>1, <1>5, <1>6 DEF IsLink, Current
<1>11. Unset'
  BY <1>1, <1>2, <1>10 DEF Unset
<1> QED
  BY <1>3, <1>4, <1>9, <1>11 DEF IInv

LEMMA EndListPreserves == IInv /\ EndList => IInv'
<1> SUFFICES ASSUME IInv, EndList PROVE IInv'
  OBVIOUS
<1>1. /\ exercise = "ec4" /\ files = {} /\ current = Nothing /\ over' = TRUE
      /\ UNCHANGED <<exercise, failures>> /\ UNCHANGED fileVars /\ UNCHANGED dirVars
  BY DEF EndList
<1>2. Types /\ Copied /\ Agree /\ Told /\ Verdict /\ Listing /\ Cut /\ Unset
  BY DEF IInv
<1>3. Types'
  BY <1>1, <1>2 DEF Types, FileTypes, FlagTypes, VerdictType, DirTypes, fileVars, dirVars
<1>4. Copied' /\ Agree' /\ Told' /\ Verdict' /\ Unset'
  BY <1>1, <1>2
  DEF Copied, Agree, Told, Verdict, Unset, fileVars, dirVars, SamePrefix, Shorter, WholeChunks
<1>5. \A f \in Entries : Listed(f)' = Listed(f) /\ Current(f)' = Current(f)
  BY <1>1 DEF Listed, Current, dirVars
<1>6. Listing'
  BY <1>1, <1>2, <1>5 DEF Listing, dirVars
<1>7. Cut'
  BY <1>1, <1>2 DEF Cut, dirVars
<1> QED
  BY <1>3, <1>4, <1>6, <1>7 DEF IInv

LEMMA ChangePreserves == ASSUME NEW e \in Entries PROVE IInv /\ Change(e) => IInv'
<1> SUFFICES ASSUME IInv, Change(e) PROVE IInv'
  OBVIOUS
<1>1. /\ exercise = "ec4" /\ changed' = changed \cup {e}
      /\ UNCHANGED <<exercise, over, files, current, lines, crashed, failures>>
      /\ UNCHANGED fileVars /\ ~over
  BY DEF Change
<1>2. PICK kind \in Kinds : dir' = [dir EXCEPT ![e] = kind]
  BY DEF Change
<1>3. Types /\ Copied /\ Agree /\ Told /\ Verdict /\ Listing /\ Cut /\ Unset
  BY DEF IInv
<1>4. Types'
  <2>1. FileTypes' /\ FlagTypes' /\ VerdictType'
    BY <1>1, <1>3 DEF Types, FileTypes, FlagTypes, VerdictType, fileVars
  <2>2. DirTypes'
    BY <1>1, <1>2, <1>3 DEF Types, DirTypes
  <2> QED
    BY <2>1, <2>2 DEF Types
<1>5. Copied' /\ Agree' /\ Told' /\ Verdict' /\ Unset' /\ Cut'
  BY <1>1, <1>3
  DEF Copied, Agree, Told, Verdict, Unset, Cut, Listing, fileVars, SamePrefix, Shorter,
      WholeChunks
<1>6. \A f \in Entries \ changed' : f \in Entries \ changed /\ dir'[f] = dir[f]
  BY <1>1, <1>2, <1>3 DEF Types, DirTypes
<1>7. \A f \in Entries : Listed(f)' = Listed(f) /\ Current(f)' = Current(f)
  BY <1>1 DEF Listed, Current
<1>8. crashed = {} /\ \A f \in files : Listed(f)' = {}
  BY <1>1, <1>3, <1>7 DEF Listing, Types, DirTypes
<1>9. Listing'
  BY <1>1, <1>3, <1>6, <1>7, <1>8 DEF Listing
<1> QED
  BY <1>4, <1>5, <1>9 DEF IInv

-------------------------------------------------------------------------------
THEOREM IInvHolds == SafeSpec => []IInv
<1>1. IInv /\ [Next]_vars => IInv'
  <2> SUFFICES ASSUME IInv, [Next]_vars PROVE IInv'
    OBVIOUS
  <2>1. CASE UNCHANGED vars
    <3>1. UNCHANGED <<exercise, over, failures>> /\ UNCHANGED fileVars /\ UNCHANGED dirVars
      BY <2>1 DEF vars
    <3>2. Types'
      BY <3>1 DEF IInv, Types, FileTypes, FlagTypes, VerdictType, DirTypes, fileVars, dirVars
    <3>3. Copied' /\ Agree' /\ Told' /\ Verdict' /\ Unset'
      BY <3>1
      DEF IInv, Copied, Agree, Told, Verdict, Unset, fileVars, dirVars, SamePrefix, Shorter,
          WholeChunks
    <3>4. Listing' /\ Cut'
      BY <3>1 DEF IInv, Listing, Cut, Listed, Current, dirVars
    <3> QED
      BY <3>2, <3>3, <3>4 DEF IInv
  <2>2. CASE Copy
    BY <2>2, CopyPreserves
  <2>3. CASE Compare
    BY <2>3, ComparePreserves
  <2>4. CASE \E e \in Entries : Stat(e)
    BY <2>4, StatPreserves
  <2>5. CASE Line
    BY <2>5, LinePreserves
  <2>6. CASE EndList
    BY <2>6, EndListPreserves
  <2>7. CASE \E e \in Entries : Change(e)
    BY <2>7, ChangePreserves
  <2> QED
    BY <2>1, <2>2, <2>3, <2>4, <2>5, <2>6, <2>7 DEF Next, Program
<1> QED
  BY <1>1, InitIInv, PTL DEF SafeSpec

\* The copies of ec1 and ec5 are complete, unless a write was short or a read failed.
THEOREM CopiesWholeHolds == SafeSpec => []CopiesWhole
<1>1. IInv => CopiesWhole
  <2> SUFFICES ASSUME IInv, exercise \in {"ec1", "ec5"}, over, ~cut,
                      exercise = "ec1" \/ failures = 0, ~broken
               PROVE  out = file1
    BY DEF CopiesWhole
  <2>1. out = SubSeq(file1, 1, at) /\ at = Len(file1)
    BY DEF IInv, Copied
  <2>2. file1 \in Seq(Bytes)
    BY DEF IInv, Types, FileTypes
  <2> QED
    BY ONLY <2>1, <2>2, SubSeqFull
<1> QED
  BY <1>1, IInvHolds, PTL

\* Each verdict of ec2 is given for the files that Told says and no others, for any
\* sizes of the files and of the buffer; the types hold.
THEOREM VerdictTrueHolds == SafeSpec => []VerdictTrue
<1>1. IInv => VerdictTrue
  <2> SUFFICES ASSUME IInv PROVE TypeOK
    BY DEF IInv, VerdictTrue
  <2>1. FileTypes /\ FlagTypes /\ VerdictType /\ DirTypes
    BY DEF IInv, Types
  <2>2. file1 \in Contents /\ file2 \in Contents
    BY <2>1, ContentsAre DEF FileTypes
  <2>3. out \in Seq(Bytes) /\ file1 \in Seq(Bytes) /\ at \in Nat /\ at <= Len(file1)
        /\ Len(out) <= at /\ Len(file1) <= MaxSize
    BY <2>1 DEF FileTypes
  <2>4. Len(out) \in Nat /\ Len(file1) \in Nat /\ MaxSize \in Nat
    BY <2>3, FilesAssumption
  <2>5. Len(out) <= MaxSize /\ at \in 0 .. MaxSize
    BY ONLY <2>3, <2>4
  <2>6. out \in Contents
    BY <2>3, <2>5, ContentsAre
  <2>7. pos \in 0 .. at
    BY <2>1 DEF FileTypes
  <2> QED
    BY <2>1, <2>2, <2>5, <2>6, <2>7, Zenon DEF TypeOK, FlagTypes, VerdictType, DirTypes
<1> QED
  BY <1>1, IInvHolds, PTL

\* A listing of ec4 that is not cut short by a null pointer has every entry that nobody
\* touched, with its kind; one that is was cut short at an entry without a line and for
\* one of three reasons.
THEOREM ListsWhatStaysHolds == SafeSpec => []ListsWhatStays
<1>1. IInv => ListsWhatStays
  <2> SUFFICES ASSUME IInv PROVE ListsWhatStays
    OBVIOUS
  <2>1. Listing /\ Cut /\ Unset
    BY DEF IInv
  <2>2. ASSUME exercise = "ec4", NEW e \in Entries \ changed
        PROVE  /\ Listed(e) \subseteq {dir[e]} \ {"absent", "orphan"}
               /\ over /\ crashed = {} => Listed(e) = {dir[e]} \ {"absent"}
    BY <2>1, <2>2 DEF Listing, Current
  <2>3. \A e \in crashed : Listed(e) = {}
    BY <2>1 DEF Listing, Cut
  <2> QED
    BY <2>1, <2>2, <2>3 DEF Cut, Unset, ListsWhatStays
<1> QED
  BY <1>1, IInvHolds, PTL
===============================================================================
