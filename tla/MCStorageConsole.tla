-------------------------- MODULE MCStorageConsole --------------------------
(* Instances of StorageConsole for TLC. *)
EXTENDS StorageConsole, TLC

CONSTANTS a, b, c

\* Two copies of a content; with one more, a hard link of the first.
TwoFiles == [inode |-> (a :> a @@ b :> b), protected |-> {}]
HardLinked == [inode |-> (a :> a @@ b :> b @@ c :> a), protected |-> {b}]

Plain == {TwoFiles}
Mixed == {TwoFiles, HardLinked}
=============================================================================
