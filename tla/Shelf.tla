------------------------------- MODULE Shelf -------------------------------
(***************************************************************************)
(* What a user is promised about the content of torrents: it arrives piece *)
(* by piece, it is put on the shelf (the library) once, when it is whole,  *)
(* and what was removed from the shelf stays removed.                      *)
(***************************************************************************)
EXTENDS Naturals

CONSTANTS Torrents, Size

VARIABLES
    content,    \* content[t]: the bytes of t that are on disk
    shelf       \* shelf[t]: absent, on the shelf, or removed from it

shelfVars == <<content, shelf>>

ShelfInit ==
    /\ content = [t \in Torrents |-> 0]
    /\ shelf = [t \in Torrents |-> "none"]

\* content arrives, is lost or is found lost
Change(t) ==
    /\ \E n \in 0..Size : content' = [content EXCEPT ![t] = n]
    /\ UNCHANGED shelf

Put(t) ==
    /\ content[t] = Size
    /\ shelf[t] = "none"
    /\ shelf' = [shelf EXCEPT ![t] = "live"]
    /\ UNCHANGED content

Remove(t) ==
    /\ shelf[t] = "live"
    /\ shelf' = [shelf EXCEPT ![t] = "tombstoned"]
    /\ UNCHANGED content

ShelfNext == \E t \in Torrents : Change(t) \/ Put(t) \/ Remove(t)

ShelfSpec == ShelfInit /\ [][ShelfNext]_shelfVars
=============================================================================
