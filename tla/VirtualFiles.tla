---------------------------- MODULE VirtualFiles ----------------------------
(***************************************************************************)
(* The filesystem a torrent's blocks are seen through (blockcache/         *)
(* filesystem.go): the tree NewFS builds from the torrent's files, the     *)
(* handles Open returns, and how their reads, seeks and writes reach the   *)
(* blocks of DirCache.                                                     *)
(*                                                                         *)
(* One behaviour is either the import of a finished torrent, which walks   *)
(* the tree and copies every file it meets (ImportFilesystem with          *)
(* ImportSymlink), or a caller of one handle that reads, seeks and writes. *)
(* A byte is named by its place in the torrent: what a read returns is the *)
(* sequence of the places it took the bytes from.                          *)
(***************************************************************************)
EXTENDS Integers, Sequences, SequencesExt, FiniteSetsExt

CONSTANTS
    Paths,          \* the paths files may have: sequences of names
    Lengths,        \* the lengths of files
    MaxFiles,       \* bound on the files of a torrent
    VfsBlockLengths,\* block lengths of the cache
    Buffers,        \* sizes of the buffers read into and written from
    HeaderLength,   \* the bytes looked at to tell a file's type
    MaxCalls        \* bound on the calls of a handle's user

ASSUME VfsAssumption ==
    /\ \A p \in Paths : p # <<>> /\ p \in Seq({p[i] : i \in DOMAIN p})
    /\ Lengths \subseteq Nat /\ IsFiniteSet(Lengths) /\ Lengths # {}
    /\ VfsBlockLengths \subseteq Nat \ {0} /\ VfsBlockLengths # {}
    /\ Buffers \subseteq Nat \ {0} /\ IsFiniteSet(Buffers) /\ Buffers # {}
    /\ MaxFiles \in Nat /\ MaxCalls \in Nat /\ HeaderLength \in Nat

VARIABLES
    files,      \* the torrent's files: path, offset and length
    bl,         \* the length of a block
    disk,       \* the size of each block's file, Absent when there is none
    todo,       \* import: the entries still to be walked
    handle,     \* the open handle: its file and its index, or NoHandle
    moved,      \* the bytes the handle moved: call, index, place
    imported,   \* import: what was copied, file by file
    failed,     \* import: the files whose copy failed
    calls       \* calls the handle's user has left; Importing in an import

vfsVars == <<files, bl, disk, todo, handle, moved, imported, failed, calls>>

Absent == -1
Importing == -1
NoHandle == [file |-> 0, index |-> 0]
Root == <<>>

-----------------------------------------------------------------------------
(* The torrent *)

\* no file is where another file has a directory
Separate(paths) == \A i, j \in DOMAIN paths : i # j => ~IsPrefix(paths[i], paths[j])

\* metainfo.Files: the files lie end to end
Offsets(lengths) ==
    LET ends[i \in 0 .. Len(lengths)] ==
            IF i = 0 THEN 0 ELSE ends[i - 1] + lengths[i]
    IN [i \in DOMAIN lengths |-> ends[i - 1]]

Torrents(n) ==
    {[i \in 1 .. n |->
        [path |-> paths[i], length |-> lengths[i], offset |-> Offsets(lengths)[i]]] :
     paths \in {p \in [1 .. n -> Paths] : Separate(p)}, lengths \in [1 .. n -> Lengths]}

Total(fs) == fs[Len(fs)].offset + fs[Len(fs)].length

MaxBlock == (MaxFiles * Max(Lengths) + Max(Buffers) * (MaxCalls + 1)) \div Min(VfsBlockLengths)

\* the block files of a torrent of which every byte is stored
Stored(total, b) ==
    [k \in 0 .. MaxBlock |->
        IF k * b >= total THEN Absent ELSE Min({b, total - k * b})]

-----------------------------------------------------------------------------
(* NewFS: the entries of every directory, a path for each entry *)

\* the directories above a path, the root among them
Parents(path) == {SubSeq(path, 1, k) : k \in 0 .. Len(path) - 1}

\* Mutant of PutParents: the new entry replaces those of the files before.
PutParentsForgets(tree, path) ==
    [d \in DOMAIN tree |->
        IF d \in Parents(path) THEN <<SubSeq(path, 1, Len(d) + 1)>> ELSE tree[d]]

\* every directory above the path gets its entry on the way to it once more
PutParents(tree, path) ==
    [d \in DOMAIN tree |->
        IF d \in Parents(path) THEN Append(tree[d], SubSeq(path, 1, Len(d) + 1))
        ELSE tree[d]]

Directories(fs) == UNION {Parents(fs[i].path) : i \in DOMAIN fs}

\* the files one after the other
NewFS(fs) ==
    LET tree[n \in 0 .. Len(fs)] ==
            IF n = 0 THEN [d \in Directories(fs) |-> <<>>]
            ELSE PutParents(tree[n - 1], fs[n].path)
    IN tree[Len(fs)]

\* Dir.ReadDir: the index is that of the shared entry and never advances
ReadDir(ents, index, count) ==
    LET m == Min({Len(ents) - index, count})
    IN IF count <= 0 THEN [ents |-> ents, err |-> "nil"]
       ELSE IF Len(ents) = 0 \/ m = 0 THEN [ents |-> <<>>, err |-> "EOF"]
       ELSE [ents |-> SubSeq(ents, index + 1, m), err |-> "nil"]

-----------------------------------------------------------------------------
(* DirCache, as its chunks add up; the state's disk *)

\* the size of a block's file; there is none past the blocks the model keeps
BlockSize(k) == IF k \in DOMAIN disk THEN disk[k] ELSE Absent

Has(place) == place % bl < BlockSize(place \div bl)

\* the bytes up to the first that is not there, and why it is not
CacheReadAt(count, off) ==
    LET m == Max({k \in 0 .. count : \A i \in 0 .. k - 1 : Has(off + i)})
    IN [places |-> [i \in 1 .. m |-> off + i - 1],
        err |-> IF m = count THEN "nil"
                ELSE IF BlockSize((off + m) \div bl) = Absent THEN "missing" ELSE "EOF"]

CacheWriteAt(count, off) ==
    [k \in DOMAIN disk |->
        Max({disk[k]} \cup
            {(o % bl) + 1 : o \in {o \in off .. off + count - 1 : o \div bl = k}})]

-----------------------------------------------------------------------------
(* File *)

\* File.ReadAt: nothing keeps it inside the file
FileReadAt(f, count, index) == CacheReadAt(count, files[f].offset + index)

\* File.Seek: the index it goes to; below 0 is refused
SeekTo(whence, by) ==
    CASE whence = "start" -> by
      [] whence = "end" -> files[handle.file].length + by
      [] OTHER -> handle.index + by

MovedBy(call, places) ==
    [i \in DOMAIN places |->
        [call |-> call, index |-> handle.index + i - 1, place |-> places[i]]]

-----------------------------------------------------------------------------
VfsInit ==
    /\ files \in UNION {Torrents(k) : k \in 1 .. MaxFiles}
    /\ bl \in VfsBlockLengths
    /\ \E lost \in {{}, {0}, {1}} :
        disk = [k \in 0 .. MaxBlock |->
                    IF k \in lost THEN Absent ELSE Stored(Total(files), bl)[k]]
    /\ imported = <<>> /\ failed = {} /\ moved = <<>>
    /\ \/ todo = <<Root>> /\ handle = NoHandle /\ calls = Importing
       \/ /\ \E f \in DOMAIN files : handle = [file |-> f, index |-> 0]
          /\ todo = <<>> /\ calls = MaxCalls

FileAt(path) == {f \in DOMAIN files : files[f].path = path}

\* fs.WalkDir at a directory: Open finds it in the tree, ReadDir(-1) lists it
WalkDir ==
    /\ handle = NoHandle /\ todo # <<>>
    /\ FileAt(Head(todo)) = {}
    /\ todo' = ReadDir(NewFS(files)[Head(todo)], 0, -1).ents \o Tail(todo)
    /\ UNCHANGED <<files, bl, disk, handle, moved, imported, failed, calls>>

\* ImportSymlink at a file: TransferedFromPath looks at its first bytes
\* through a handle of its own, then a fresh handle is opened to copy it
OpenFile ==
    /\ handle = NoHandle /\ todo # <<>>
    /\ \E f \in FileAt(Head(todo)) :
        IF FileReadAt(f, HeaderLength, 0).err = "missing"
        THEN failed' = failed \cup {f} /\ UNCHANGED handle
        ELSE handle' = [file |-> f, index |-> 0] /\ UNCHANGED failed
    /\ todo' = Tail(todo)
    /\ moved' = <<>>
    /\ UNCHANGED <<files, bl, disk, imported, calls>>

\* File.Read
FileRead(count) ==
    LET r == FileReadAt(handle.file, count, handle.index) IN
    /\ handle' = [handle EXCEPT !.index = @ + Len(r.places)]
    /\ moved' = moved \o MovedBy("read", r.places)

\* io.Copy: a read that was not cut short is followed by another
CopyMore ==
    /\ calls = Importing /\ handle # NoHandle
    /\ \E count \in Buffers :
        /\ FileReadAt(handle.file, count, handle.index).err = "nil"
        /\ FileRead(count)
    /\ UNCHANGED <<files, bl, disk, todo, imported, failed, calls>>

\* the end of the stored bytes ends the copy; what was read with it counts
CopyEnds ==
    /\ calls = Importing /\ handle # NoHandle
    /\ \E count \in Buffers :
        LET r == FileReadAt(handle.file, count, handle.index) IN
        /\ r.err = "EOF"
        /\ imported' = Append(imported,
                [file |-> handle.file, offset |-> files[handle.file].offset,
                 places |-> [i \in DOMAIN moved |-> moved[i].place] \o r.places])
    /\ handle' = NoHandle /\ moved' = <<>>
    /\ UNCHANGED <<files, bl, disk, todo, failed, calls>>

\* a block that is not there is an error
CopyFails ==
    /\ calls = Importing /\ handle # NoHandle
    /\ \E count \in Buffers :
        FileReadAt(handle.file, count, handle.index).err = "missing"
    /\ failed' = failed \cup {handle.file}
    /\ handle' = NoHandle /\ moved' = <<>>
    /\ UNCHANGED <<files, bl, disk, todo, imported, calls>>

\* the user of a handle reads
UserRead(count) ==
    /\ calls > 0
    /\ FileRead(count)
    /\ calls' = calls - 1
    /\ UNCHANGED <<files, bl, disk, todo, imported, failed>>

\* or seeks
UserSeek(whence, by) ==
    /\ calls > 0
    /\ handle' = IF SeekTo(whence, by) < 0 THEN handle
                 ELSE [handle EXCEPT !.index = SeekTo(whence, by)]
    /\ calls' = calls - 1
    /\ UNCHANGED <<files, bl, disk, todo, moved, imported, failed>>

\* or writes: File.WriteAt hands its offset to the cache as it is
UserWrite(count) ==
    /\ calls > 0
    /\ disk' = CacheWriteAt(count, handle.index)
    /\ moved' = moved \o MovedBy("write", [i \in 1 .. count |-> handle.index + i - 1])
    /\ handle' = [handle EXCEPT !.index = @ + count]
    /\ calls' = calls - 1
    /\ UNCHANGED <<files, bl, todo, imported, failed>>

VfsNext ==
    \/ WalkDir \/ OpenFile \/ CopyMore \/ CopyEnds \/ CopyFails
    \/ \E count \in Buffers : UserRead(count) \/ UserWrite(count)
    \/ \E whence \in {"start", "current", "end"}, by \in {-2, 1} : UserSeek(whence, by)

VfsSpec == VfsInit /\ [][VfsNext]_vfsVars

-----------------------------------------------------------------------------
HandleReadsFile ==
    \A i \in DOMAIN moved :
        moved[i].call = "read" =>
            moved[i].place = files[handle.file].offset + moved[i].index

CopiesBeginWithFile ==
    \A i \in DOMAIN imported :
        LET f == files[imported[i].file] IN
        /\ Len(imported[i].places) >= f.length
        /\ \A k \in DOMAIN imported[i].places : imported[i].places[k] = f.offset + k - 1

WalkMeetsEveryFile ==
    (calls = Importing /\ todo = <<>> /\ handle = NoHandle) =>
        DOMAIN files = failed \cup {imported[i].file : i \in DOMAIN imported}

\* What is read through the filesystem is the files.  At index i a handle reads
\* byte i of its file, counted from where the file starts in the torrent,
\* whatever reads, seeks and writes went before and however the bytes lie in
\* blocks (File.Read).  An import misses nothing: when its walk is over every
\* file was copied or reported as failed, and a copy begins with all the bytes
\* of its file, in order and none twice (NewFS, ImportSymlink).  A copy may go
\* on into the files that follow: ReadAt does not stop at Length.
FilesAreRead == HandleReadsFile /\ CopiesBeginWithFile /\ WalkMeetsEveryFile
=============================================================================
