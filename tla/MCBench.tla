------------------------------ MODULE MCBench -------------------------------
(***************************************************************************)
(* The parts that touch none of the others, each on its own: `subject` is  *)
(* the one that moves in a behaviour, the rest stay as they begin.         *)
(***************************************************************************)
EXTENDS OrderTree, Packs, SysrootImage, Archive, Provenance

VARIABLE subject

Parts == {"tree", "packs", "sysroot", "archive", "provenance"}

others(part) ==
    /\ part # "tree" => UNCHANGED treeVars
    /\ part # "packs" => UNCHANGED packVars
    /\ part # "sysroot" => UNCHANGED imageVars
    /\ part # "archive" => UNCHANGED archiveVars
    /\ part # "provenance" => UNCHANGED provenanceVars
    /\ UNCHANGED subject

vars == <<subject, treeVars, packVars, imageVars, archiveVars, provenanceVars>>

Init ==
    /\ subject \in Parts
    /\ TreeInit
    /\ PacksInit /\ (subject # "packs" => ~autoDownload)
    /\ SysrootInit /\ (subject # "sysroot" => sdk = {})
    /\ ArchiveInit /\ (subject # "archive" => problems = << >>)
    /\ ProvenanceInit
    /\ subject # "provenance" => ~recorder /\ \A p, q \in Tasks : text[p] = text[q] /\ text[p] = <<"a">>

Next ==
    \/ subject = "tree" /\ TreeNext /\ others("tree")
    \/ subject = "packs" /\ PacksNext /\ others("packs")
    \/ subject = "sysroot" /\ SysrootNext /\ others("sysroot")
    \/ subject = "archive" /\ ArchiveNext /\ others("archive")
    \/ subject = "provenance" /\ ProvenanceNext /\ others("provenance")

FairSpec == Init /\ [][Next]_vars /\ PacksFairness

\* Each part's own: the treap's links, sizes and priorities agree, and the packs' caches,
\* downloads and looks name files and answers there are (ost.hpp 49-93, usePack.ts 25-47).
TypeOK == TreeTypeOK /\ PacksTypeOK

-----------------------------------------------------------------------------
(* Values.                                                                  *)

MCListed == <<"pch", "python">>
MCFiles == [p \in {"pch", "python"} |-> IF p = "pch" THEN 1 ELSE 2]

File(path, bytes) == [path |-> path, bytes |-> bytes]

MCSdk ==
    { File(<<"include", "noeh", "c++", "v1", "vector">>, 2),
      File(<<"include", "noeh", "c++", "v1", "__cxx03", "vector">>, 1),
      File(<<"include", "eh", "c++", "v1", "vector">>, 1),
      File(<<"include", "stdio.h">>, 0),
      File(<<"include", "bits", "types.h">>, 1),
      File(<<"lib", "libc.a">>, 2),
      File(<<"lib", "noeh", "libc++.a">>, 1),
      File(<<"lib", "builtins.a">>, 1),
      File(<<"clang", "lib", "builtins.a">>, 1),
      File(<<"clang", "include", "stddef.h">>, 1),
      File(<<"clang", "include", "arm_neon.h">>, 1),
      File(<<"gnu", "bits", "stdc++.h">>, 1),
      File(<<"gnu", "stdio.h">>, 1) }

MCNames == UNION {ToSet(f.path) : f \in MCSdk} \cup {"libc.a", "libc++.a"}

MCLibraries == { [from |-> <<"lib", "libc.a">>, to |-> "libc.a"],
                 [from |-> <<"lib", "noeh", "libc++.a">>, to |-> "libc++.a"] }
MCBuiltins == << <<"lib", "builtins.a">>, <<"clang", "lib", "builtins.a">> >>

\* Some tests expect something, some nothing, some a blank.
Numbered(n) == [i \in 1..n |-> [input |-> <<"in", i>>, expected |-> <<"x", "", " ">>[1 + (i % 3)]]]

Task(name, language, n, stdin) ==
    [name |-> name, language |-> language, limits |-> <<name, language>>,
     source |-> <<name, language, n>>, tests |-> Numbered(n), stdin |-> stdin]

MCLibrary ==
    { Task("A", "cpp", 2, ""), Task("A", "python", 3, ""), Task("A", "cpp", 5, ""),
      Task("A-2", "cpp", 0, "1 2"), Task("A-2", "python", 0, ""),
      Task("?", "cpp", 1, "old"), Task("?", "python", 4, " ") }

MCSlug == [n \in {"A", "A-2", "?"} |-> IF n = "A" THEN <<"A">> ELSE IF n = "?" THEN << >> ELSE <<"A", 2>>]

MCStarters == {<<"a">>, <<"b">>}

=============================================================================
