---------------------------- MODULE MCBtrfsFiles ----------------------------
(* Small instances of BtrfsFiles: names b and c share a hash. *)
EXTENDS BtrfsFiles, TLC

MCHash == "a" :> 1 @@ "b" :> 2 @@ "c" :> 2
MCLen2 == "a" :> 2 @@ "b" :> 4 @@ "c" :> 2

Dir(sz) == [type |-> "dir", nlink |-> 1, size |-> sz]
File(n) == [type |-> "file", nlink |-> n, size |-> 0]
RefTo(j, n) == << [idx |-> j, name |-> n] >>

(* A fresh volume. *)
Empty ==
    [inode |-> 1 :> Dir(0), ref |-> << >>, item |-> << >>, index |-> << >>, data |-> << >>]

(* A directory, and a file with data linked from it and from the root. *)
HardLinked ==
    [inode |-> 1 :> Dir(4) @@ 2 :> Dir(2) @@ 3 :> File(2),
     ref   |-> <<2, 1>> :> RefTo(2, "a") @@ <<3, 1>> :> RefTo(3, "c") @@ <<3, 2>> :> RefTo(2, "a"),
     item  |-> <<1, 1>> :> {Entry("a", 2, "dir")} @@ <<1, 2>> :> {Entry("c", 3, "file")}
               @@ <<2, 1>> :> {Entry("a", 3, "file")},
     index |-> <<1, 2>> :> Entry("a", 2, "dir") @@ <<1, 3>> :> Entry("c", 3, "file")
               @@ <<2, 2>> :> Entry("a", 3, "file"),
     data  |-> <<3, 0>> :> 1]

MCInitTrees == {Empty, HardLinked}

MCPaths == {<< >>, <<"a">>, <<"a", "a">>}
=============================================================================
