---------------------------- MODULE MCFatReader ----------------------------
(* The reader on small disks. *)
EXTENDS FatReader, TLC

Name(base, ext, attr, start, size) ==
    [base |-> base, ext |-> ext, attr |-> attr, start |-> start, size |-> size,
     marked |-> FALSE, deleted |-> FALSE]

File(base, ext, start, size) == Name(base, ext, "file", start, size)
Dir(base, start)             == Name(base, << >>, "dir", start, 0)
Deleted(e)                   == [e EXCEPT !.deleted = TRUE, !.base = "?"]
Marked(e)                    == [e EXCEPT !.marked = TRUE]

Dots(c, parent) == <<Dir(".", c), Dir("..", parent)>>

BIN == <<"B", "I", "N">>
TXT == <<"T", "X", "T">>
C   == <<"C">>

\* The image that the project description prints, but for a few files.  The
\* clusters inside the subdirectories are not in the description.
MCDisk1 ==
    [size |-> 1000,
     dirs |->
        (2  :> <<Name("CS342", << >>, "label", 0, 0), File("FILE1", BIN, 3, 4096),
                 File("FILE3", BIN, 0, 0), Deleted(File("F2", BIN, 40, 20480)),
                 File("FILE5", TXT, 153, 1917), Dir("DIR2", 33), Dir("DIR1", 28)>>) @@
        (33 :> Dots(33, 0) \o <<File("F2", BIN, 34, 1024), File("F1", TXT, 35, 2048)>>) @@
        (28 :> Dots(28, 0) \o <<File("PROGRAM", C, 29, 1024), Dir("DD1", 30)>>) @@
        (30 :> Dots(30, 28) \o <<File("PF1", TXT, 31, 1024)>>),
     fat |->
        (3 :> 4) @@ (4 :> 5) @@ (5 :> 6) @@ (6 :> EOC) @@ (153 :> 154) @@ (154 :> EOC) @@
        (34 :> EOC) @@ (35 :> 36) @@ (36 :> EOC) @@ (29 :> EOC) @@ (31 :> EOC)]

\* A disk in use for some time.  The cluster of a deleted directory now belongs
\* to the directory B in A; a file is in two pieces; a directory is beyond
\* cluster 255, so that its read fails; two directories hold a file of the same
\* name; a file is shorter than a cluster.
MCDisk2 ==
    [size |-> 20000,
     dirs |->
        (2 :> <<Deleted(Dir("OLD", 5)), File("F", BIN, 3, 1024), Dir("A", 4),
                Dir("BIG", 256), File("G", BIN, 257, 1024), File("S", TXT, 14, 100)>>) @@
        (4 :> Dots(4, 0) \o <<Deleted(File("F", BIN, 3, 1024)), File("E", BIN, 0, 0),
                              Dir("B", 5), File("F", BIN, 7, 2048)>>) @@
        (5 :> Dots(5, 4) \o <<File("F", BIN, 9, 2048), Deleted(Dir("OLD", 6))>>) @@
        (256 :> Dots(256, 0) \o <<File("H", BIN, 12, 1024)>>),
     fat |->
        (3 :> EOC) @@ (7 :> 8) @@ (8 :> EOC) @@ (9 :> 11) @@ (11 :> EOC) @@
        (12 :> EOC) @@ (257 :> EOC) @@ (14 :> EOC)]

\* Directories longer than a cluster, and entries with other attribute bits.
MCDisk3 ==
    [size |-> 1000,
     dirs |->
        (2 :> <<File("S", TXT, 3, 100), Marked(File("R", BIN, 4, 1024)),
                Marked(Name("CS342", << >>, "label", 0, 0)), Dir("D", 5), Marked(Dir("M", 7)),
                File("E", BIN, 0, 0), Deleted(File("S", TXT, 3, 100)),
                File("F", BIN, 8, 1024), Dir("B", 9)>>) @@
        (5 :> Dots(5, 0) \o <<File("F", BIN, 10, 1024), Deleted(Dir("B", 9)), Dir("B", 6),
                              File("G", BIN, 0, 0), File("S", TXT, 11, 1024),
                              File("E", BIN, 12, 1024)>>) @@
        (6 :> Dots(6, 5) \o <<File("F", BIN, 13, 1024)>>) @@
        (7 :> Dots(7, 0) \o <<File("F", BIN, 14, 1024)>>) @@
        (9 :> Dots(9, 0) \o <<File("F", BIN, 15, 1024)>>),
     fat |-> [c \in {3, 4, 8, 10, 11, 12, 13, 14, 15} |-> EOC]]

\* Cluster numbers that come out as those of other clusters, or of none.
MCDisk4 ==
    [size |-> 20000,
     dirs |->
        (2 :> <<Dir("A", 5), Dir("W", 16390), Dir("BIG", 512), File("G", BIN, 16386, 1024)>>) @@
        (5 :> Dots(5, 0) \o <<File("F", BIN, 10, 1024), Dir("B", 6), Dir("BIG", 513)>>) @@
        (6 :> Dots(6, 5) \o <<File("F", BIN, 11, 1024)>>),
     fat |-> [c \in {10, 11, 16386} |-> EOC]]

WithRoot(d, root) == [d EXCEPT !.dirs[2] = root]

\* The same with fewer entries in the root directory.
MCDisks == {MCDisk1, MCDisk2, MCDisk3, MCDisk4,
            WithRoot(MCDisk2, SubSeq(MCDisk2.dirs[2], 1, 3)),
            WithRoot(MCDisk3, SubSeq(MCDisk3.dirs[2], 1, 7)),
            WithRoot(MCDisk3, SelectSeq(MCDisk3.dirs[2], LAMBDA e : ~e.marked))}

\* For -f, counts below, at and above one and two sectors of four entries; for
\* -r, ranges inside the first cluster, across its end and before its start.
MCRanges ==
    {[offset |-> 0, count |-> n] : n \in -1 .. 10} \cup
    {[offset |-> o, count |-> n] : o \in {-1, 3, 1022, 1024}, n \in {1, 3}}

\* What is on the disks, and something that is not.
MCPaths ==
    {<< >>,
     <<<<"FILE1", BIN>>>>, <<<<"FILE3", BIN>>>>, <<<<"FILE5", TXT>>>>, <<<<"DIR2">>>>,
     <<<<"DIR1">>>>, <<<<"DIR2">>, <<"F1", TXT>>>>, <<<<"DIR1">>, <<"PROGRAM", C>>>>,
     <<<<"DIR1">>, <<"DD1">>>>, <<<<"DIR1">>, <<"DD1">>, <<"PF1", TXT>>>>,
     <<<<"F", BIN>>>>, <<<<"A">>>>, <<<<"A">>, <<"F", BIN>>>>, <<<<"A">>, <<"E", BIN>>>>,
     <<<<"A">>, <<"B">>>>, <<<<"A">>, <<"B">>, <<"F", BIN>>>>, <<<<"BIG">>>>,
     <<<<"BIG">>, <<"H", BIN>>>>, <<<<"G", BIN>>>>, <<<<"A">>, <<"G", BIN>>>>, <<<<"B">>>>,
     <<<<"BIG">>, <<"F", BIN>>>>, <<<<"A">>, <<"BIG">>, <<"F", BIN>>>>, <<<<"W">>, <<"F", BIN>>>>,
     <<<<"S", TXT>>>>, <<<<"R", BIN>>>>, <<<<"D">>>>, <<<<"D">>, <<"B">>, <<"F", BIN>>>>,
     <<<<"D">>, <<"E", BIN>>>>, <<<<"M">>, <<"F", BIN>>>>}
=============================================================================
