--------------------------------- MODULE Files ---------------------------------
(***************************************************************************)
(* exercise/ov_ec/main.cpp: ec1 and ec5 copy a file to the output, ec2     *)
(* compares two files, ec4 lists a directory that others may change.  A    *)
(* loop that only this process takes part in is one step per round.        *)
(***************************************************************************)
EXTENDS Integers, Sequences, FiniteSetsExt

CONSTANTS
  Bytes, MaxSize,   \* contents of the files
  Chunk,            \* what one read asks for, 1028, 1024 and 256 in the code
  ULong,            \* 2^64 in the code
  Entries,          \* names a directory may have
  MaxFailures,      \* bound on failing reads and lookups and on short writes
  MaxChanges        \* bound on changes others make in the directory

ASSUME FilesAssumption ==
  /\ MaxSize \in Nat /\ Chunk \in Nat \ {0}
  /\ ULong \in Nat /\ ULong > Chunk + 1
  /\ MaxFailures \in Nat /\ MaxChanges \in Nat

VARIABLES
  exercise, over,
  file1, file2, broken,   \* contents; file1 is a directory, which opens but cannot be read
  at,                     \* the offset of the files
  pos, verdict,           \* ec2: the position of the chunk; what was printed
  out, cut,               \* ec1, ec5: what was written; a write was short
  dir,                    \* ec4: what each name is
  files,                  \* the names read, that are still to be listed
  current,                \* the entry whose lstat has returned
  lines,                  \* what was printed
  crashed,                \* the entry whose owner or group was a null pointer, if any
  changed,                \* history: names that others changed
  failures

fileVars == <<file1, file2, broken, at, pos, verdict, out, cut>>
dirVars == <<dir, files, current, lines, crashed, changed>>
vars == <<exercise, over, fileVars, dirVars, failures>>

Contents == UNION {[1 .. n -> Bytes] : n \in 0 .. MaxSize}
\* An orphan is an entry, of any type, whose owner or group has no name.
Kinds == {"file", "link", "orphan", "absent"}
Nothing == [name |-> "", kind |-> "absent"]

Init ==
  /\ over = FALSE /\ at = 0 /\ pos = 0 /\ verdict = [kind |-> "none", at |-> 0]
  /\ out = <<>> /\ cut = FALSE
  /\ current = Nothing /\ lines = {} /\ crashed = {} /\ changed = {} /\ failures = 0
  /\ \/ /\ exercise \in {"ec1", "ec5"} /\ broken \in BOOLEAN
        /\ file1 \in Contents /\ file2 = <<>>
        /\ dir = [e \in Entries |-> "absent"] /\ files = {}
     \/ /\ exercise = "ec2" /\ broken = FALSE
        /\ file1 \in Contents /\ file2 \in Contents
        /\ dir = [e \in Entries |-> "absent"] /\ files = {}
     \/ /\ exercise = "ec4" /\ broken = FALSE
        /\ file1 = <<>> /\ file2 = <<>>
        /\ dir \in [Entries -> Kinds]
        /\ files = {e \in Entries : dir[e] # "absent"}   \* opendir, readdir, closedir

\* What a read of the file may return.
ReadReturns(file) ==
  (IF broken THEN {} ELSE {Min({Chunk, Len(file) - at})})
    \cup (IF broken \/ failures < MaxFailures THEN {-1} ELSE {})
Failing(n) == IF n = -1 /\ ~broken THEN 1 ELSE 0

-------------------------------------------------------------------------------
\* Mutants: a result kept as unsigned, a byte too few written,
\* a position that is not counted on, a link read whatever the
\* entry is, a listing that ends with the first entry that has gone

KeptUnsigned(n) == n % ULong
PieceShort(k) == SubSeq(file1, at + 1, at + k - 1)
NextPosForgets(n) == pos
IsLinkAlways == TRUE
GoneEnds(e) == files' = {}

-------------------------------------------------------------------------------
\* ec1 keeps the result of read in an unsigned long, ec5 in an int.
Kept(n) == IF exercise = "ec1" THEN n % ULong ELSE n
Piece(k) == SubSeq(file1, at + 1, at + k)

\* A round of the loop; a write for more than a buffer's size fails.
Copy ==
  /\ exercise \in {"ec1", "ec5"} /\ ~over
  /\ \E n \in ReadReturns(file1) :
       IF Kept(n) > 0
         THEN /\ over' = FALSE
              /\ \/ /\ out' = IF n > 0 THEN out \o Piece(n) ELSE out
                    /\ cut' = cut
                    /\ failures' = failures + Failing(n)
                 \/ /\ n > 0 /\ failures < MaxFailures /\ failures' = failures + 1
                    /\ \E k \in 0 .. n - 1 : out' = out \o Piece(k)
                    /\ cut' = TRUE
              /\ at' = IF n > 0 THEN at + n ELSE at
         ELSE /\ over' = TRUE
              /\ failures' = failures + Failing(n)
              /\ UNCHANGED <<at, out, cut>>
  /\ UNCHANGED <<exercise, file1, file2, broken, pos, verdict, dirVars>>

-------------------------------------------------------------------------------
\* ec2: a chunk of each file, compared by length and then by its bytes.

Differing(n) == {i \in 0 .. n - 1 : file1[at + i + 1] # file2[at + i + 1]}
NextPos(n) == pos + n

Decide(kind, p) == over' = TRUE /\ verdict' = [kind |-> kind, at |-> p] /\ UNCHANGED <<at, pos>>

Compare ==
  /\ exercise = "ec2" /\ ~over
  /\ \E n1 \in ReadReturns(file1) :
     \E n2 \in IF n1 > 0 THEN ReadReturns(file2) ELSE {0} :
       /\ failures + Failing(n1) + Failing(n2) <= MaxFailures
       /\ failures' = failures + Failing(n1) + Failing(n2)
       /\ IF n1 <= 0 \/ n2 <= 0 THEN Decide("same", 0)
          ELSE IF n1 > n2 THEN Decide("file1 longer", 0)
          ELSE IF n1 < n2 THEN Decide("file2 longer", 0)
          ELSE IF Differing(n1) # {} THEN Decide("differ", pos + Min(Differing(n1)))
          ELSE /\ at' = at + n1 /\ pos' = NextPos(n1)
               /\ UNCHANGED <<over, verdict>>
  /\ UNCHANGED <<exercise, file1, file2, broken, out, cut, dirVars>>

-------------------------------------------------------------------------------
\* ec4: lstat and the names of owner and group, then for a link readlink, entry
\* by entry.

Gone(e) == files' = files \ {e}

\* getpwuid and getgrgid return null for an id without a name, or when the lookup
\* fails; the null pointer is dereferenced, which ends the program.
NullOwner(e) ==
  \/ dir[e] = "orphan" /\ UNCHANGED failures
  \/ dir[e] # "absent" /\ failures < MaxFailures /\ failures' = failures + 1

Stat(e) ==
  /\ exercise = "ec4" /\ ~over /\ current = Nothing /\ e \in files
  /\ \/ dir[e] = "absent" /\ Gone(e) /\ UNCHANGED <<over, current, crashed, failures>>
     \/ /\ dir[e] \in {"file", "link"}
        /\ files' = files \ {e} /\ current' = [name |-> e, kind |-> dir[e]]
        /\ UNCHANGED <<over, crashed, failures>>
     \/ NullOwner(e) /\ over' = TRUE /\ crashed' = {e} /\ UNCHANGED <<files, current>>
  /\ UNCHANGED <<exercise, fileVars, dir, lines, changed>>

IsLink == current.kind = "link"

\* A failing readlink returns -1: the zero is written before the buffer, and
\* what was never set is printed.
Line ==
  /\ exercise = "ec4" /\ current # Nothing
  /\ lines' = lines \cup
       {[name |-> current.name, kind |-> current.kind,
         target |-> IF ~IsLink THEN "none"
                    ELSE IF dir[current.name] = "link" THEN "read" ELSE "unset"]}
  /\ current' = Nothing
  /\ UNCHANGED <<exercise, over, fileVars, dir, files, crashed, changed, failures>>

EndList ==
  /\ exercise = "ec4" /\ files = {} /\ current = Nothing /\ ~over
  /\ over' = TRUE
  /\ UNCHANGED <<exercise, fileVars, dirVars, failures>>

\* Somebody else makes, removes or replaces an entry.
Change(e) ==
  /\ exercise = "ec4" /\ ~over
  /\ Cardinality(changed) < MaxChanges
  /\ \E kind \in Kinds \ {dir[e]} : dir' = [dir EXCEPT ![e] = kind]
  /\ changed' = changed \cup {e}
  /\ UNCHANGED <<exercise, over, fileVars, files, current, lines, crashed, failures>>

Program == Copy \/ Compare \/ (\E e \in Entries : Stat(e)) \/ Line \/ EndList
Next == Program \/ \E e \in Entries : Change(e)

SafeSpec == Init /\ [][Next]_vars

\* The process runs.
Spec == SafeSpec /\ WF_vars(Program)

-------------------------------------------------------------------------------
\* Every variable keeps its type.
TypeOK ==
  /\ exercise \in {"ec1", "ec2", "ec4", "ec5"} /\ over \in BOOLEAN /\ broken \in BOOLEAN
  /\ file1 \in Contents /\ file2 \in Contents /\ at \in 0 .. MaxSize /\ pos \in 0 .. at
  /\ out \in Contents /\ cut \in BOOLEAN
  /\ verdict \in [kind : {"none", "same", "differ", "file1 longer", "file2 longer"}, at : Nat]
  /\ dir \in [Entries -> Kinds] /\ files \subseteq Entries /\ changed \subseteq Entries
  /\ crashed \subseteq Entries
  /\ failures \in 0 .. MaxFailures

\* The copy is complete unless a write was short, or, in ec5, a read failed: a
\* read that fails once costs ec1 nothing, as it takes the error for a length.
CopiesWhole ==
  exercise \in {"ec1", "ec5"} /\ over /\ ~cut /\ (exercise = "ec1" \/ failures = 0) /\ ~broken
  => out = file1

\* The copy comes to an end, but for ec1 on a file whose reads keep failing.
CopyStops == ~(exercise = "ec1" /\ broken) ~> (over \/ exercise = "ec4")

SamePrefix(n) == \A i \in 1 .. n : file1[i] = file2[i]
Shorter == Min({Len(file1), Len(file2)})

\* What is compared before the last chunk of the shorter file, if that chunk is short.
WholeChunks == Shorter - (Shorter % Chunk)

\* What ec2 prints, and when.  A position is the first at which the files differ,
\* and not one in the short chunk of the shorter file while the other goes on.  A
\* file is called longer only there: it is longer, the files are the same up to
\* that chunk, and whether they differ in it is not told.  The comment main.cpp:44
\* asks for the first position that differs in every case.  Files called the same
\* are, or a read failed, or one ends with a chunk and the other goes on.
Told ==
  CASE verdict.kind = "none" -> TRUE
    [] verdict.kind = "differ" ->
         /\ SamePrefix(verdict.at)
         /\ verdict.at < IF Len(file1) = Len(file2) THEN Shorter ELSE WholeChunks
         /\ file1[verdict.at + 1] # file2[verdict.at + 1]
    [] verdict.kind = "file1 longer" ->
         Len(file1) > Len(file2) /\ WholeChunks < Shorter /\ SamePrefix(WholeChunks)
    [] verdict.kind = "file2 longer" ->
         Len(file1) < Len(file2) /\ WholeChunks < Shorter /\ SamePrefix(WholeChunks)
    [] verdict.kind = "same" ->
         failures > 0 \/ (SamePrefix(Shorter)
                          /\ (Len(file1) = Len(file2) \/ Shorter % Chunk = 0))

\* Each verdict of ec2 is given for the files that Told says and for no others,
\* at whatever byte and chunk they part; the types hold.
VerdictTrue == TypeOK /\ Told

Listed(e) == {l.kind : l \in {m \in lines : m.name = e}}

\* A listing that comes to its end has a line, with its kind, for every entry that
\* nobody touched, and none for a name that was never there; there is no orphan
\* among them then.  It is cut short only by an entry whose owner or group has no
\* name, or whose lookup failed, and that entry has no line.  A target that was
\* never read is printed only for an entry that somebody changed between lstat and
\* readlink.
ListsWhatStays ==
  /\ exercise = "ec4" =>
       \A e \in Entries \ changed :
         /\ Listed(e) \subseteq {dir[e]} \ {"absent", "orphan"}
         /\ over /\ crashed = {} => Listed(e) = {dir[e]} \ {"absent"}
  /\ \A e \in crashed :
       Listed(e) = {} /\ (e \in changed \/ dir[e] = "orphan" \/ failures > 0)
  /\ \A l \in lines : l.target = "unset" => l.name \in changed
===============================================================================
