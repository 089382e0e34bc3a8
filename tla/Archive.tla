------------------------------ MODULE Archive -------------------------------
(***************************************************************************)
(* The zip of the workspace: exportWorkspace lays one directory out per    *)
(* problem beside a manifest, importWorkspace reads it back, with or       *)
(* without the manifest.  And the tests of a problem from before the test  *)
(* panel (workspace.ts testsOf).                                           *)
(*                                                                         *)
(* A directory name is a sequence: a slug is one or more parts, and        *)
(* `${slug}-${n}` is the slug with the part n after it.                    *)
(***************************************************************************)
EXTENDS Naturals, SequencesExt

CONSTANTS
    Library,        \* the problems there may be
    MaxProblems,    \* bound on the problems in a workspace
    Slug,           \* Slug[name]: what slug() leaves of a name, << >> if nothing
    Base,           \* test files are numbered in this base (ten)
    Missing,        \* no archive, no manifest entry, no file yet
    Blank           \* texts with nothing but white space in them

IsSequence(s) == Len(s) \in Nat /\ s = [i \in 1..Len(s) |-> s[i]]

ASSUME ArchiveAssumption ==
    /\ MaxProblems \in Nat /\ Base \in Nat \ {0, 1}
    /\ \A problem \in Library :
          /\ problem.language \in {"cpp", "python"}
          /\ IsSequence(Slug[problem.name]) /\ IsSequence(problem.tests)
          /\ \A i \in DOMAIN problem.tests : LET test == problem.tests[i]
                IN  test = [input |-> test.input, expected |-> test.expected]

VARIABLES
    problems,   \* what list() gave the export
    zip,        \* [files, manifest], a file by its path
    restored    \* the problems importWorkspace returns

archiveVars == <<problems, zip, restored>>

ArchiveInit ==
    /\ problems \in UNION {[1..n -> Library] : n \in 0..MaxProblems}
    /\ zip = Missing /\ restored = Missing

\* `tests`, unless it is missing or empty: then the old `stdin` is one test.
TestsOf(problem) ==
    IF problem.tests # << >> THEN problem.tests
    ELSE IF problem.stdin \notin Blank THEN <<[input |-> problem.stdin, expected |-> ""]>>
    ELSE << >>

-----------------------------------------------------------------------------
(* exportWorkspace()                                                        *)

OrElse(directory, fallback) == IF directory = << >> THEN fallback ELSE directory

\* (mutation) The second of two problems with one name is not told apart from the first.
DirectoryUnchecked(used, problem, index) == OrElse(Slug[problem.name], <<"zadanie", index>>)

\* The slug, or else the slug with the first number from 2 on that is free.
DirectoryOf(used, problem, index) ==
    LET first == OrElse(Slug[problem.name], <<"zadanie", index>>)
        again(n) == Append(OrElse(Slug[problem.name], <<"zadanie">>), n)
        free == {n \in 2..(2 + MaxProblems) : again(n) \notin used}
    IN  IF first \notin used THEN first
        ELSE again(CHOOSE n \in free : \A m \in free : n <= m)

\* String(n).padStart(2, '0'), as its digits.
Digits[n \in Nat] == IF n < Base THEN <<n>> ELSE Append(Digits[n \div Base], n % Base)

Stem(n) == IF n < Base THEN <<0, n>> ELSE Digits[n]

SourceFile(language) == IF language = "cpp" THEN "main.cpp" ELSE "main.py"

\* A source file, or the input or the output of a test.
Path(directory, name, stem) == [directory |-> directory, name |-> name, stem |-> stem]

\* Assigning what f has, over what g had.
Overlay(f, g) ==
    [x \in DOMAIN f \cup DOMAIN g |-> IF x \in DOMAIN f THEN f[x] ELSE g[x]]

FilesOf(problem, directory) ==
    LET tests == TestsOf(problem)
        answered == {i \in DOMAIN tests : tests[i].expected \notin Blank}
        source == [p \in {Path(directory, SourceFile(problem.language), << >>)} |-> problem.source]
        inputs == [p \in {Path(directory, "in", Stem(i)) : i \in DOMAIN tests} |->
                      tests[CHOOSE i \in DOMAIN tests : Stem(i) = p.stem].input]
        outputs == [p \in {Path(directory, "out", Stem(i)) : i \in answered} |->
                      tests[CHOOSE i \in answered : Stem(i) = p.stem].expected]
    IN  Overlay(source, Overlay(inputs, outputs))

Entry(problem) == [name |-> problem.name, language |-> problem.language, limits |-> problem.limits]

\* A later problem replaces the files and the entry of an earlier one in its directory.
LayOut(laid, problem, index) ==
    LET directory == DirectoryOf(ToSet(laid.directories), problem, index)
    IN  [directories |-> Append(laid.directories, directory),
         files |-> Overlay(FilesOf(problem, directory), laid.files),
         manifest |-> Overlay([d \in {directory} |-> Entry(problem)], laid.manifest)]

NothingLaid == [directories |-> << >>, files |-> << >>, manifest |-> << >>]

\* The loop over the problems.
Laid ==
    LET laid[i \in 0..Len(problems)] ==
            IF i = 0 THEN NothingLaid ELSE LayOut(laid[i - 1], problems[i], i)
    IN  laid[Len(problems)]

Directories == Laid.directories

Export ==
    /\ zip = Missing
    /\ zip' = [files |-> Laid.files, manifest |-> Laid.manifest]
    /\ UNCHANGED <<problems, restored>>

\* The manifest is taken out of the archive, or spoiled.
LoseManifest ==
    /\ zip # Missing /\ restored = Missing
    /\ zip' = [zip EXCEPT !.manifest = << >>]
    /\ UNCHANGED <<problems, restored>>

-----------------------------------------------------------------------------
(* importWorkspace()                                                        *)

\* sort(): the order of texts, which is not that of numbers.  They agree at first, then s
\* ends or has the smaller character.
TextBefore(s, t) ==
    \E n \in 0..Len(s) :
        /\ n < Len(t) /\ \A i \in 1..n : s[i] = t[i]
        /\ n < Len(s) => s[n + 1] < t[n + 1]

Sorted(S) ==
    [i \in 1..Cardinality(S) |->
        CHOOSE s \in S : Cardinality({t \in S : TextBefore(t, s)}) = i - 1]

FileOr(path, default) == IF path \in DOMAIN zip.files THEN zip.files[path] ELSE default

\* The inputs of a directory in the order of their names, each with its output.
TestsIn(directory) ==
    LET inputs == {p \in DOMAIN zip.files : p.directory = directory /\ p.name = "in"}
        stems == Sorted({p.stem : p \in inputs})
    IN  [i \in DOMAIN stems |-> [input |-> zip.files[Path(directory, "in", stems[i])],
                                 expected |-> FileOr(Path(directory, "out", stems[i]), "")]]

\* The .cpp is found before the .py; what has no entry is guessed.
ImportFrom(directory) ==
    LET cpp == Path(directory, "main.cpp", << >>)
        python == Path(directory, "main.py", << >>)
        guess == [name |-> directory, limits |-> "default",
                  language |-> IF cpp \in DOMAIN zip.files THEN "cpp" ELSE "python"]
        entry == IF directory \in DOMAIN zip.manifest THEN zip.manifest[directory] ELSE guess
    IN  [name |-> entry.name, language |-> entry.language, limits |-> entry.limits,
         source |-> IF cpp \in DOMAIN zip.files THEN zip.files[cpp] ELSE zip.files[python],
         tests |-> TestsIn(directory)]

Import ==
    /\ zip # Missing /\ restored = Missing
    /\ LET sources == {p \in DOMAIN zip.files : p.name \in {"main.cpp", "main.py"}}
       IN  restored' = [d \in {p.directory : p \in sources} |-> ImportFrom(d)]
    /\ UNCHANGED <<problems, zip>>

ArchiveNext == Export \/ LoseManifest \/ Import

ArchiveSpec == ArchiveInit /\ [][ArchiveNext]_archiveVars

-----------------------------------------------------------------------------
(* Properties.                                                              *)

\* What a test is after a round trip: an expectation that says nothing is no expectation.
Kept(test) == [test EXCEPT !.expected = IF @ \in Blank THEN "" ELSE @]

\* The numbers have two digits: the text order of the files is the order of the tests.
InOrder(tests) == Len(tests) < Base * Base

\* Every problem comes back from its archive, those that share a name apart from each
\* other: its source, its language, its tests (in order while their numbers have two
\* digits), and, when the manifest is there, its name and its limits (archive.ts 30-138).
ArchiveRoundTrip ==
    restored # Missing =>
        /\ Cardinality(DOMAIN restored) = Len(problems)
        /\ \A i \in DOMAIN problems :
              LET was == problems[i]
                  is == restored[Directories[i]]
                  tests == [j \in DOMAIN TestsOf(was) |-> Kept(TestsOf(was)[j])]
              IN  /\ is.source = was.source /\ is.language = was.language
                  /\ IF InOrder(tests) THEN is.tests = tests ELSE ToSet(is.tests) = ToSet(tests)
                  /\ zip.manifest # << >> => is.name = was.name /\ is.limits = was.limits

=============================================================================
