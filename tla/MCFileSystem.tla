---------------------------- MODULE MCFileSystem ----------------------------
(***************************************************************************)
(* FileSystem on a disk with three sectors for files, a directory of two   *)
(* entries, and files of no, one and two data sectors (and one too large   *)
(* for its header).                                                        *)
(***************************************************************************)
EXTENDS FileSystem

(* The names "a2" and "a" have the same first FileNameMaxLen characters. *)
MCPrefix(name) == IF name = "a2" THEN "a" ELSE name
MCRequests == {<<1, 0>>, <<2, 1>>, <<4, 0>>, <<1, 3>>, <<3, 1>>, <<2, 4>>}
=============================================================================
