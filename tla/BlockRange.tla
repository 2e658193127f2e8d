----------------------------- MODULE BlockRange -----------------------------
(***************************************************************************)
(* The arithmetic of the block cache: which range of an archive a missing  *)
(* block is fetched by (calculateBlockRange, used by torrent readers, and  *)
(* the formula of DeeppoolReaderAtCache.downloadChunk, used by media       *)
(* readers), and how DirCache.ReadAt and WriteAt cut a request into pieces *)
(* of block files.                                                         *)
(*                                                                         *)
(* An access is a read or write of len bytes at off, of a file of length   *)
(* bytes; the state machine is the loop of ReadAt and WriteAt over it.     *)
(***************************************************************************)
EXTENDS Integers, Sequences, FiniteSetsExt

CONSTANTS
    BlockLengths,   \* block lengths to consider
    MaxLength,      \* bound on a file's length and on an access
    Word            \* 2^w, the range of the code's unsigned integers

ASSUME BlockAssumption ==
    /\ BlockLengths \subseteq Nat \ {0}
    /\ MaxLength \in Nat
    /\ Word \in Nat
    /\ \A b \in BlockLengths : MaxLength + b < Word

VARIABLES
    extent,     \* the access: bl, off, len and the file's length
    n,          \* the bytes dealt with
    pieces,     \* what the chunks so far touched, byte by byte
    pc          \* "loop", "failed" or "done"

vars == <<extent, n, pieces, pc>>

-----------------------------------------------------------------------------
(* Ranges; a range has its first byte and its number of bytes *)

\* subtraction of unsigned integers wraps
calculateBlockRange(bl, offset, length) ==
    LET doffset == (offset \div bl) * bl
        end == Min({(doffset + bl) % Word, length})
    IN [first |-> doffset, len |-> (end - doffset) % Word]

\* Mutant of readerBlockRange: the remainder is not checked.
readerRemainder(bl, offset, length) ==
    LET doffset == (offset \div bl) * bl
    IN [first |-> doffset, len |-> Min({doffset + bl, length}) % bl]

\* DeeppoolReaderAtCache.downloadChunk; a remainder of 0 is a whole block
readerBlockRange(bl, offset, length) ==
    LET doffset == (offset \div bl) * bl
        rem == Min({(doffset + bl) % Word, length}) % bl
    IN [first |-> doffset, len |-> IF rem = 0 THEN bl ELSE rem]

Bytes(range) == range.first .. range.first + range.len - 1

-----------------------------------------------------------------------------
(* DirCache *)

path(bl, off) == off \div bl

\* the position in the block, and the room from there to its end
offset(bl, off) == [pos |-> off % bl, max |-> bl - (off % bl)]

Accesses ==
    {a \in [bl : BlockLengths, off : 0 .. MaxLength, len : 0 .. MaxLength,
            length : 1 .. MaxLength] : a.off + a.len <= MaxLength}

Init ==
    /\ extent \in Accesses
    /\ n = 0
    /\ pieces = <<>>
    /\ pc = "loop"

\* the bytes one readchunk or writechunk moves: count of them from off on
Chunk(bl, off, count) ==
    [i \in 1 .. count |-> [block |-> path(bl, off), pos |-> offset(bl, off).pos + i - 1]]

\* one iteration: what is left of the request, cut at the end of the block
NextChunk ==
    LET at == extent.off + n
        count == Min({extent.len - n, offset(extent.bl, at).max})
    IN
    /\ pc = "loop" /\ n < extent.len
    /\ n' = n + count
    /\ pieces' = pieces \o Chunk(extent.bl, at, count)
    /\ UNCHANGED <<extent, pc>>

\* a file is missing or short: what was moved of the chunk counts
ChunkFailed ==
    LET at == extent.off + n
        count == Min({extent.len - n, offset(extent.bl, at).max})
    IN
    /\ pc = "loop" /\ n < extent.len
    /\ \E moved \in 0 .. count - 1 :
        /\ n' = n + moved
        /\ pieces' = pieces \o Chunk(extent.bl, at, moved)
    /\ pc' = "failed"
    /\ UNCHANGED extent

Done ==
    /\ pc = "loop" /\ n = extent.len
    /\ pc' = "done"
    /\ UNCHANGED <<extent, n, pieces>>

Next == NextChunk \/ ChunkFailed \/ Done

Spec == Init /\ [][Next]_vars

-----------------------------------------------------------------------------
\* the bytes of the file that are in the block of byte o
BlockOf(a, o) == {i \in 0 .. a.length - 1 : i \div a.bl = o \div a.bl}

\* The archive range of a missing byte of the file is the part of the file in
\* that byte's block, nothing outside block and file,
RangeIsBlock ==
    \A o \in 0 .. extent.length - 1 :
        Bytes(calculateBlockRange(extent.bl, o, extent.length)) = BlockOf(extent, o)

\* and torrent readers and media readers, whose formulas differ, fetch the same.
RangesAgree ==
    \A o \in 0 .. extent.length - 1 :
        readerBlockRange(extent.bl, o, extent.length)
            = calculateBlockRange(extent.bl, o, extent.length)

\* Byte i of an access is byte off + i of the blocks laid end to end: chunks
\* neither skip nor repeat nor cross a block, also when a later one fails.
AccessContiguous ==
    \A i \in 1 .. Len(pieces) :
        LET p == pieces[i] IN
        /\ p.pos \in 0 .. extent.bl - 1
        /\ p.block * extent.bl + p.pos = extent.off + i - 1

\* Blocks are cut where the file's bytes are: what is fetched for a byte is its
\* block, by either reader's formula, and what is read or written is the access.
BlocksAreCut == RangeIsBlock /\ RangesAgree /\ AccessContiguous
=============================================================================
