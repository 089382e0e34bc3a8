---------------------------- MODULE SysrootImage ----------------------------
(***************************************************************************)
(* The sysroot image: pack-sysroot.mjs picks the headers and archives out  *)
(* of a WASI SDK and concatenates them behind a manifest; the compiler's   *)
(* worker parses the image into a directory tree, and unpack-sysroot.mjs   *)
(* writes it back to disk to build the precompiled header against.         *)
(*                                                                         *)
(* A path is the sequence of its segments, and a file's bytes are the      *)
(* sequence <<its source, 1>>, <<its source, 2>>, ...                      *)
(***************************************************************************)
EXTENDS Naturals, SequencesExt

CONSTANTS
    Names,          \* what the segments of source paths are
    Sdk,            \* source files there may be, each with its length
    Absent, Refused,    \* no image (tree, disk) yet; the script threw
    Folder,      \* what a directory is in a tree
    Libraries,      \* `libs`: where an archive is under lib/, and its name in the image
    Builtins,       \* where the builtins archive may be, in the order they are tried
    ArchSpecific,   \* names ARCH_SPECIFIC_HEADER matches
    KeepAnyway      \* KEEP_ANYWAY

ASSUME SysrootAssumption ==
    /\ IsFiniteSet(Sdk) /\ Sdk \subseteq [path: Seq(Names), bytes: Nat]
    /\ IsFiniteSet(Libraries) /\ Libraries \subseteq [from: Seq(Names), to: Names]
    /\ Builtins \in Seq(Seq(Names))
    /\ Absent # Refused

VARIABLES
    sdk,        \* the source files
    image,      \* [files, directories, data]
    vfs,        \* what parseSysroot returns: a directory or a file, by path
    disk        \* what unpack-sysroot writes

imageVars == <<sdk, image, vfs, disk>>

Sources == {f.path : f \in sdk}
Length(source) == (CHOOSE f \in sdk : f.path = source).bytes
Bytes(source) == [i \in 1..Length(source) |-> <<source, i>>]

SysrootInit ==
    /\ sdk \in SUBSET Sdk
    /\ image = Absent /\ vfs = Absent /\ disk = Absent

-----------------------------------------------------------------------------
(* collect()                                                                *)

Cxx == <<"include", "noeh", "c++", "v1">>

\* The files below a directory, by their path from there.
Walk(dir) == {SubSeq(f, Len(dir) + 1, Len(f)) : f \in {g \in Sources : IsStrictPrefix(dir, g)}}

\* One walk: what is kept of a directory, and where it goes.
Placed(dir, Kept(_), target) ==
    {[source |-> dir \o rel, path |-> target \o rel] : rel \in {r \in Walk(dir) : Kept(r)}}

\* The first of the candidates that is there.
FirstOf(candidates) ==
    {[source |-> candidates[i], path |-> <<"sysroot", "lib", "libclang_rt.builtins.a">>] :
        i \in {j \in DOMAIN candidates : candidates[j] \in Sources
                                         /\ \A k \in 1..(j - 1) : candidates[k] \notin Sources}}

\* libc++ without its C++03 tree, the C headers without either variant, the archives that
\* are there, one builtins archive, clang's own headers without the architectures' and the GNU shims.
Collect ==
    Placed(Cxx, LAMBDA r : r[1] # "__cxx03", <<"sysroot", "include", "c++", "v1">>)
    \cup Placed(<<"include">>, LAMBDA r : r[1] \notin {"eh", "noeh"}, <<"sysroot", "include">>)
    \cup {[source |-> l.from, path |-> <<"sysroot", "lib", l.to>>] :
             l \in {k \in Libraries : k.from \in Sources}}
    \cup FirstOf(Builtins)
    \cup Placed(<<"clang", "include">>,
                LAMBDA r : Len(r) = 1 /\ (r[1] \in KeepAnyway \/ r[1] \notin ArchSpecific),
                <<"sysroot", "include", "clang">>)
    \cup Placed(<<"gnu">>, LAMBDA r : TRUE, <<"sysroot", "include">>)

-----------------------------------------------------------------------------
(* main(), and the image's two readers.                                     *)

\* Up from a directory, to the first one that is there already.
AddAncestors(dirs, dir) ==
    LET up(n) == SubSeq(dir, 1, n)
    IN  dirs \cup {up(n) : n \in {m \in 1..Len(dir) : \A k \in m..Len(dir) : up(k) \notin dirs}}

Extend(f, k, v) == [j \in DOMAIN f \cup {k} |-> IF j = k THEN v ELSE f[j]]

Nothing == [j \in {} |-> << >>]

\* (mutation) The bytes go in front of those there are.
PackEntryInFront(e, img) ==
    [files |-> Extend(img.files, e.path, <<Len(img.data), Length(e.source)>>),
     directories |-> AddAncestors(img.directories, Front(e.path)),
     data |-> Bytes(e.source) \o img.data]

\* The next file starts where the ones before it end.
PackEntry(e, img) ==
    [files |-> Extend(img.files, e.path, <<Len(img.data), Length(e.source)>>),
     directories |-> AddAncestors(img.directories, Front(e.path)),
     data |-> img.data \o Bytes(e.source)]

Clash(entries) == \E e, f \in entries : e # f /\ e.path = f.path

\* The entries in one order; which one (the paths are sorted) nothing depends on.
Pack ==
    /\ image = Absent
    /\ image' = IF Clash(Collect) THEN Refused
                ELSE FoldSet(PackEntry,
                             [files |-> Nothing, directories |-> {<<"sysroot">>}, data |-> << >>],
                             Collect)
    /\ UNCHANGED <<sdk, vfs, disk>>

Packed == image \notin {Absent, Refused}

Content(path) == SubSeq(image.data, image.files[path][1] + 1,
                        image.files[path][1] + image.files[path][2])

Mounted(paths) == {p \in paths : p[1] = "sysroot"}

\* Every link that is missing, or a file, becomes an empty directory.
EnsureDirectory(tree, dir) ==
    LET links == {SubSeq(dir, 1, n) : n \in 1..Len(dir)}
    IN  [p \in DOMAIN tree \cup links |-> IF p \in links THEN Folder ELSE tree[p]]

\* contents.set() replaces a directory of that name and what is below it.
SetFile(path, tree) ==
    LET parent == EnsureDirectory(tree, Front(Tail(path)))
    IN  Extend([p \in {q \in DOMAIN parent : ~IsStrictPrefix(Tail(path), q)} |-> parent[p]],
               Tail(path), Content(path))

ParseSysroot ==
    /\ Packed /\ vfs = Absent
    /\ vfs' = FoldSet(SetFile,
                      FoldSet(LAMBDA d, t : EnsureDirectory(t, Tail(d)), Nothing,
                              Mounted(image.directories)),
                      Mounted(DOMAIN image.files))
    /\ UNCHANGED <<sdk, image, disk>>

\* mkdir and writeFile; a file in a directory's place, or the reverse, stops it.
WriteOut(path, out) ==
    LET dirs == {SubSeq(path, 2, n) : n \in 2..(Len(path) - 1)}
        blocked == \/ \E d \in dirs : d \in DOMAIN out /\ out[d] # Folder
                   \/ Tail(path) \in DOMAIN out
    IN  IF out = Refused \/ blocked THEN Refused
        ELSE Extend(EnsureDirectory(out, Front(Tail(path))), Tail(path), Content(path))

Unpack ==
    /\ Packed /\ disk = Absent
    /\ disk' = FoldSet(WriteOut, Nothing, Mounted(DOMAIN image.files))
    /\ UNCHANGED <<sdk, image, vfs>>

SysrootNext == Pack \/ ParseSysroot \/ Unpack

SysrootSpec == SysrootInit /\ [][SysrootNext]_imageVars

-----------------------------------------------------------------------------
(* Properties.                                                              *)

\* The contents a tree should have under /sysroot: the kept sources, each in its place,
\* and every directory on the way to one.
Promised ==
    LET files == {e.path : e \in Collect}
        above == UNION {{SubSeq(p, 2, n) : n \in 2..(Len(p) - 1)} : p \in files}
    IN  [p \in {Tail(f) : f \in files} \cup above |->
            IF p \in above THEN Folder
            ELSE Bytes((CHOOSE e \in Collect : Tail(e.path) = p).source)]

\* An image is refused exactly when two sources would share a path; otherwise the tree the
\* compiler mounts and the directory the precompiled header is built against both hold
\* every kept file with its own bytes, and agree (pack-sysroot.mjs 193-240,
\* sysroot.ts 45-73, unpack-sysroot.mjs 21-36).
SysrootRoundTrip ==
    /\ image # Absent => (Packed <=> ~Clash(Collect))
    /\ vfs # Absent => vfs = Promised
    /\ disk # Absent => disk = Promised

=============================================================================
