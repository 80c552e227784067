----------------------------- MODULE FatReader -----------------------------
(***************************************************************************)
(* The FAT32 reader of src/Project4/fat.c: the options that walk over the  *)
(* directories (-a, -b, -d, -l, -n, -r, -t) and the one that prints the    *)
(* FAT (-f).  The walks are recursive in the program; here a stack has a   *)
(* frame for each call.                                                    *)
(*                                                                         *)
(* A disk is what its bytes mean.  A directory is the sequence of all its  *)
(* entries, along its whole chain, up to the slots never used, on which no *)
(* function acts; the program reads its first cluster.  A path is the      *)
(* sequence of the texts between its slashes, and a text is a tuple of its *)
(* parts before and after the dot.                                         *)
(***************************************************************************)
EXTENDS Integers, Sequences, FiniteSets

CONSTANTS Disks,        (* the disk images to consider                       *)
          Paths,        (* the paths to ask for, as a user writes them       *)
          Ranges,       (* the OFFSET and COUNT to ask for                   *)
          PerSector,    (* entries of the FAT in a sector: 128 in the code   *)
          Slots         (* entries of a directory in a cluster: 32           *)

CLUSTER_SIZE == 1024
Root == 2

\* The end of a chain in the FAT.
EOC == 0

DotNames == {".", ".."}

MaxCluster == 65535

\* A character of an extension; short extensions are filled with blanks.
Blank == " "
Chars == STRING \cup {Blank}

\* An entry is marked if its attribute has other bits than those of its kind,
\* as that of a file that is read-only, or none for a file.
Fields == [base : STRING, ext : Seq(Chars), attr : {"file", "dir", "label"},
           marked : BOOLEAN, deleted : BOOLEAN, start : 0 .. MaxCluster, size : Nat]

\* The entries the program can meet: no long names (Project4.pdf), no directory
\* with an extension, and first clusters of two bytes, as the shift of the others
\* is not defined in C.
IsEntry(e) ==
    /\ e \in Fields
    /\ Len(e.ext) <= 3 /\ \A i \in 1 .. Len(e.ext) : e.ext[i] # Blank
    /\ e.attr = "dir" => e.ext = << >>
    /\ e.base \in DotNames => e.attr = "dir"
    /\ e.start = 0 => e.size = 0

IsLive(e) == ~e.deleted /\ e.attr # "label"

\* The upper of the two bytes is shifted by 16 where 8 is meant.
FirstCluster(e) == (e.start % 256) + (e.start \div 256) * 65536

\* The place of a cluster on the disk is computed in 32 bits: in bytes, with
\* clusters of 1024, it is the same for numbers that differ by 2^32 / 1024.
Wrap == 4096 * 1024

\* The cluster that is read for an entry.
Reached(e) == FirstCluster(e) % Wrap

\* No entry leads the program back to a directory above its own, deleted entries
\* included: on other disks its walks go on until the stack is exhausted.
Descends(dirs, depth) ==
    \A c \in DOMAIN dirs : \A i \in 1 .. Len(dirs[c]) :
        LET e == dirs[c][i]
        IN  e.attr = "dir" /\ e.base \notin DotNames /\ Reached(e) \in DOMAIN dirs
                => depth[c] < depth[Reached(e)]

Depths(dirs) == [DOMAIN dirs -> 1 .. Cardinality(DOMAIN dirs)]

\* A disk of up to 4 GB has the clusters below its size; what is next to cluster
\* 2 has the numbers 0 and 1.
IsDisk(d) ==
    /\ d.size \in 1 .. Wrap
    /\ Root \in DOMAIN d.dirs
    /\ DOMAIN d.dirs \subseteq 0 .. d.size - 1
    /\ \A c \in DOMAIN d.dirs :
          /\ d.dirs[c] \in Seq(Fields)
          /\ \A i \in 1 .. Len(d.dirs[c]) :
                IsEntry(d.dirs[c][i]) /\ d.dirs[c][i].start < d.size
          /\ \A i, j \in 1 .. Len(d.dirs[c]) :
                LET e == d.dirs[c][i]
                    f == d.dirs[c][j]
                IN  i # j /\ IsLive(e) /\ IsLive(f) => <<e.base, e.ext>> # <<f.base, f.ext>>
    /\ \E depth \in Depths(d.dirs) : Descends(d.dirs, depth)

\* The name of a deleted entry starts with a byte that no user writes.
WrittenOff(d, base) ==
    \E c \in DOMAIN d.dirs : \E i \in 1 .. Len(d.dirs[c]) :
        d.dirs[c][i].deleted /\ d.dirs[c][i].base = base

Texts == [1 .. 1 -> STRING] \cup (STRING \X Seq(Chars))

IsPath(p) ==
    /\ p \in Seq(Texts)
    /\ \A k \in 1 .. Len(p) :
          /\ p[k][1] \notin DotNames
          /\ \A d \in Disks : ~WrittenOff(d, p[k][1])
          /\ Len(p[k]) = 2 => \A i \in 1 .. Len(p[k][2]) : p[k][2][i] # Blank

ASSUME FatAssumption ==
    /\ \A d \in Disks : IsDisk(d)
    /\ \A p \in Paths : IsPath(p)
    /\ Ranges \subseteq [offset : Int, count : Int]
    /\ PerSector \in Nat \ {0}
    /\ Slots \in Nat \ {0}

VARIABLES
    disk, option, path, range,  \* what the program is called with
    walk,                   \* the function that walks, or "done"
    frames,                 \* its calls: buffer, slot, path so far
    memory,                 \* the buffer of the last call at each depth
    result,                 \* what get_cluster_num returned
    out,                    \* what has been printed
    is_ended, row, linecount \* get_fat_table_content; row is its i, in entries

arguments == <<disk, option, path, range>>
tableV    == <<is_ended, row, linecount>>
vars      == <<arguments, walk, frames, memory, result, out, tableV>>

Options == {"a", "b", "d", "f", "l", "n", "r", "t"}

\* The function main calls first, and the name it has here.
FirstWalk ==
    [o \in Options |-> CASE o = "n" -> "get_cluster_data"
                         [] o = "d" -> "get_cluster_metadata"
                         [] o = "t" -> "print_files"
                         [] o = "f" -> "get_fat_table_content"
                         [] OTHER   -> "get_cluster_num"]

Searching == walk \in {"get_cluster_num", "get_cluster_data", "get_cluster_metadata"}

-----------------------------------------------------------------------------
(* Variants: operators below, each with one plausible mistake. *)

\* Only the entry of the directory above is left alone.
IsDotDot(e) == e.base = ".."

\* One cluster more than the size has.
ClusterCountOver(e) == e.size \div CLUSTER_SIZE + 1

\* The slot is not advanced.
NotAdvanced == frames

\* The name is compared without the directories before it.
FoundFileByName(e) ==
    e.attr = "file" /\ path # << >> /\ path[Len(path)] = <<e.base, e.ext>>

\* -l shows deleted entries.
ShownDeleted(e) == e.attr # "label" \/ e.marked

\* COUNT includes the byte after the last.
RangeEndIncluded == range.offset + range.count + 1

\* The first line of a sector is not counted.
LineCountedLate == linecount + (IF row > 0 THEN 1 ELSE 0)

\* -t does not look for deleted entries.
EntersDeleted(e) == e.attr = "dir" /\ e.base \notin DotNames

-----------------------------------------------------------------------------
(* Entries *)

\* A cluster without directory entries has nothing that the walks act on.
Directory(c) == IF c \in DOMAIN disk.dirs THEN disk.dirs[c] ELSE << >>

\* What readcluster reads: one cluster.  It fails behind the end of the disk.
Entries(c) ==
    LET d == Directory(c % Wrap)
    IN  SubSeq(d, 1, IF Len(d) < Slots THEN Len(d) ELSE Slots)

Readable(c) == c % Wrap < disk.size

\* How often the size has a whole cluster.
ClusterCount(e) == e.size \div CLUSTER_SIZE

IsDots(e) == e.base \in DotNames
IsFile(e) == e.attr = "file" /\ ~e.marked
IsDir(e)  == e.attr = "dir" /\ ~e.marked

\* A file's text has all three characters of the extension, blanks included;
\* a directory's has no extension.
FileText(e) == <<e.base, [i \in 1 .. 3 |-> IF i <= Len(e.ext) THEN e.ext[i] ELSE Blank]>>
DirText(e)  == <<e.base>>

-----------------------------------------------------------------------------
(* Calls *)

Frame(buffer, begin) == [buffer |-> buffer, x |-> 1, begin |-> begin]

RootFrame == Frame(Entries(Root), << >>)

Top   == frames[Len(frames)]
Below == SubSeq(frames, 1, Len(frames) - 1)

Walking == walk \notin {"get_fat_table_content", "done"} /\ frames # << >>
AtEntry == Walking /\ Top.x <= Len(Top.buffer)

Entry == Top.buffer[Top.x]

\* parent_path after the text of the entry is appended.
Here(text) == Append(Top.begin, text)

Advanced == Append(Below, [Top EXCEPT !.x = @ + 1])

\* After a read that failed and was not looked at, the buffer is what the stack
\* has there: nothing, or all of what the last call at this depth had read.
Unchecked(c) ==
    {Entries(c)} \cup (IF Readable(c) THEN {} ELSE {memory[Len(frames) + 1]})

\* Only get_cluster_num goes on; the others return as at the end of an empty one.
Reads(c) == IF walk = "get_cluster_num" THEN Unchecked(c) ELSE {Entries(c)}

\* The walk goes on in a subdirectory.
Entered(e, buffer) == Append(Advanced, Frame(buffer, Here(DirText(e))))

Enter(e) ==
    \E buffer \in Reads(FirstCluster(e)) :
        /\ frames' = Entered(e, buffer)
        /\ memory' = [memory EXCEPT ![Len(frames) + 1] = buffer]

Init ==
    /\ disk \in Disks /\ option \in Options
    /\ path \in IF option \in {"f", "t"} THEN {<< >>} ELSE Paths
    /\ range \in IF option \in {"f", "r"} THEN Ranges ELSE {[offset |-> 0, count |-> 0]}
    /\ walk = FirstWalk[option]
    /\ frames = <<RootFrame>>
    /\ memory = [k \in 1 .. Cardinality(DOMAIN disk.dirs) + 1 |-> << >>]
    /\ result = 0
    /\ out = << >>
    /\ is_ended = 0 /\ row = 0 /\ linecount = 0

-----------------------------------------------------------------------------
(* get_cluster_num, get_cluster_data, get_cluster_metadata *)

FoundFile(e) == IsFile(e) /\ Here(FileText(e)) = path

\* Deleted entries are not told from others: a byte is never 0xffffffe5.
FoundDir(e) == IsDir(e) /\ ~IsDots(e) /\ Here(DirText(e)) = path

\* What is printed on a match: the clusters after the first, by counting on.
Report(e) ==
    CASE walk = "get_cluster_data" ->
            [i \in 1 .. ClusterCount(e) |-> FirstCluster(e) + i - 1]
      [] walk = "get_cluster_metadata" ->
            <<FirstCluster(e), ClusterCount(e), e.size>>
      [] OTHER -> << >>

\* The first cluster is returned, and 0 means that nothing was found: a match
\* of an empty file ends one call only.
Found ==
    /\ AtEntry
    /\ Searching
    /\ FoundFile(Entry) \/ FoundDir(Entry)
    /\ out' = out \o Report(Entry)
    /\ result' = FirstCluster(Entry)
    /\ frames' = IF FirstCluster(Entry) = 0 THEN Below ELSE << >>
    /\ UNCHANGED <<arguments, tableV, walk, memory>>

SearchBelow ==
    /\ AtEntry
    /\ Searching
    /\ IsDir(Entry) /\ ~IsDots(Entry) /\ ~FoundDir(Entry)
    /\ Enter(Entry)
    /\ UNCHANGED <<arguments, tableV, walk, result, out>>

SearchOn ==
    /\ AtEntry
    /\ Searching
    /\ IsDir(Entry) => IsDots(Entry)
    /\ ~FoundFile(Entry)
    /\ frames' = Advanced
    /\ UNCHANGED <<arguments, tableV, walk, memory, result, out>>

-----------------------------------------------------------------------------
(* print_files_path *)

Listing == walk = "print_files_path"

\* What is shown of a directory; here deleted entries are left out, and labels
\* with no other attribute.
Shown(e) == ~e.deleted /\ (e.attr # "label" \/ e.marked)

\* The number shown is its lowest byte.
Line(e) == [name |-> IF IsFile(e) THEN FileText(e) ELSE DirText(e),
            fcn  |-> FirstCluster(e) % 256,
            size |-> e.size]

Lines(entries) ==
    LET f[i \in 0 .. Len(entries)] ==
            IF i = 0 THEN << >>
            ELSE IF Shown(entries[i]) THEN Append(f[i - 1], Line(entries[i])) ELSE f[i - 1]
    IN  f[Len(entries)]

ListRoot ==
    /\ Listing /\ frames # << >>
    /\ path = << >>
    /\ out' = out \o Lines(Top.buffer)
    /\ frames' = << >>
    /\ UNCHANGED <<arguments, tableV, walk, memory, result>>

Lists(e) == IsDir(e) /\ Here(DirText(e)) = path

\* Here, too, nobody looks whether the directory could be read.
List ==
    /\ Listing /\ AtEntry /\ path # << >>
    /\ Lists(Entry)
    /\ \E buffer \in Unchecked(FirstCluster(Entry)) : out' = out \o Lines(buffer)
    /\ frames' = << >>
    /\ UNCHANGED <<arguments, tableV, walk, memory, result>>

ListBelow ==
    /\ Listing /\ AtEntry /\ path # << >>
    /\ IsDir(Entry) /\ ~IsDots(Entry) /\ ~Lists(Entry)
    /\ Enter(Entry)
    /\ UNCHANGED <<arguments, tableV, walk, result, out>>

ListOn ==
    /\ Listing /\ AtEntry /\ path # << >>
    /\ IsDir(Entry) => IsDots(Entry) /\ ~Lists(Entry)
    /\ frames' = Advanced
    /\ UNCHANGED <<arguments, tableV, walk, memory, result, out>>

-----------------------------------------------------------------------------
(* print_files *)

Printing == walk = "print_files"

\* Deleted entries are skipped.
Enters(e) == ~e.deleted /\ IsDir(e) /\ ~IsDots(e)

PrintsLine(e) == ~e.deleted /\ (IsFile(e) \/ (IsDir(e) /\ IsDots(e)))

PrintBelow ==
    /\ Printing /\ AtEntry
    /\ Enters(Entry)
    /\ out' = Append(out, Here(DirText(Entry)))
    /\ Enter(Entry)
    /\ UNCHANGED <<arguments, tableV, walk, result>>

PrintOn ==
    /\ Printing /\ AtEntry
    /\ ~Enters(Entry)
    /\ out' = IF ~PrintsLine(Entry) THEN out
              ELSE Append(out, Here(IF IsFile(Entry) THEN FileText(Entry)
                                                     ELSE DirText(Entry)))
    /\ frames' = Advanced
    /\ UNCHANGED <<arguments, tableV, walk, memory, result>>

-----------------------------------------------------------------------------
(* get_fat_table_content *)

\* An entry as it is printed: by its lowest byte, of which two values stand
\* for the end of a chain.  The first two entries of a FAT have these.
Cell(k) ==
    LET low == IF k \in DOMAIN disk.fat THEN disk.fat[k] % 256 ELSE 0
    IN  IF k < 2 \/ (k \in DOMAIN disk.fat /\ disk.fat[k] = EOC) \/ low \in {248, 255}
        THEN "EOF" ELSE low

\* A line is counted when it is ended, but for the last one of a sector.
LineCounted == linecount + (IF row + 1 < PerSector THEN 1 ELSE 0)

\* A count of 0 or less is met before the first line is ended; then, as after
\* the last line asked for, is_ended is set to 1 and counted up at once.
TableEntry ==
    /\ walk = "get_fat_table_content"
    /\ is_ended < 2
    /\ out' = Append(out, Cell(is_ended * PerSector + row))
    /\ linecount' = IF linecount >= range.count THEN linecount ELSE LineCounted
    /\ IF linecount' >= range.count
       THEN is_ended' = 2 /\ UNCHANGED row
       ELSE IF row + 1 = PerSector
       THEN is_ended' = is_ended + 1 /\ row' = 0
       ELSE row' = row + 1 /\ UNCHANGED is_ended
    /\ UNCHANGED <<arguments, walk, frames, memory, result>>

TableEnd ==
    /\ walk = "get_fat_table_content"
    /\ is_ended >= 2
    /\ walk' = "done"
    /\ UNCHANGED <<arguments, frames, memory, result, out, tableV>>

-----------------------------------------------------------------------------
(* The end of a call, and main *)

EndOfCluster ==
    /\ Walking
    /\ Top.x > Len(Top.buffer)
    /\ Listing => path # << >>
    /\ frames' = Below
    /\ result' = IF Searching THEN 0 ELSE result
    /\ UNCHANGED <<arguments, tableV, walk, memory, out>>

Returned == walk # "done" /\ frames = << >>

\* What lies next to the buffer of main, and what is in it after a failed read.
Outside == <<"outside">>
Unread  == <<"unread">>

\* A byte of the buffer: main reads the cluster that was returned, whatever it is,
\* and does not look whether it could be read.
Byte(at) ==
    IF at \notin 0 .. CLUSTER_SIZE - 1 THEN Outside
    ELSE IF Readable(result) THEN <<result % Wrap, at>> ELSE Unread

\* -a and -b print the buffer, whatever the size of the file.
PrintCluster ==
    /\ Returned
    /\ option \in {"a", "b"}
    /\ out' = [k \in 1 .. CLUSTER_SIZE |-> Byte(k - 1)]
    /\ walk' = "done"
    /\ UNCHANGED <<arguments, tableV, frames, memory, result>>

\* -r prints the bytes that it takes for OFFSET and COUNT from it.
RangeEnd == range.offset + range.count

PrintRange ==
    /\ Returned
    /\ option = "r"
    /\ out' = [k \in 1 .. RangeEnd - range.offset |-> Byte(range.offset + k - 1)]
    /\ walk' = "done"
    /\ UNCHANGED <<arguments, tableV, frames, memory, result>>

\* -l searches first, for a number that is only printed.
StartListing ==
    /\ Returned
    /\ option = "l" /\ ~Listing
    /\ walk' = "print_files_path"
    /\ frames' = <<RootFrame>>
    /\ UNCHANGED <<arguments, tableV, memory, result, out>>

Finish ==
    /\ Returned
    /\ option \in {"d", "n", "t"} \/ Listing
    /\ walk' = "done"
    /\ UNCHANGED <<arguments, tableV, frames, memory, result, out>>

Step ==
    \/ Found \/ SearchBelow \/ SearchOn
    \/ ListRoot \/ List \/ ListBelow \/ ListOn
    \/ PrintBelow \/ PrintOn
    \/ TableEntry \/ TableEnd
    \/ EndOfCluster \/ PrintCluster \/ PrintRange \/ StartListing \/ Finish

Next == Step \/ (walk = "done" /\ UNCHANGED vars)

\* A sequential program that runs on.
Spec == Init /\ [][Next]_vars /\ WF_vars(Step)
-----------------------------------------------------------------------------
(* What a disk and a path mean *)

\* The text of an entry as a user writes it.
Text(e) == IF e.ext = << >> THEN <<e.base>> ELSE <<e.base, e.ext>>

EntriesOf(c) == {Directory(c)[i] : i \in 1 .. Len(Directory(c))}

LiveIn(c) == {e \in EntriesOf(c) : IsLive(e)}

\* The live entries of directories dirs with a text.
Named(dirs, text) ==
    {e \in UNION {LiveIn(c) : c \in dirs} : ~IsDots(e) /\ Text(e) = text}

\* The directories (one or none) that the first k texts of the path lead to.
DirsAt ==
    LET f[k \in 0 .. Len(path)] ==
            IF k = 0 THEN {Root}
            ELSE {e.start : e \in {x \in Named(f[k - 1], path[k]) : x.attr = "dir"}}
    IN  f

Denoted ==
    IF path = << >> THEN {} ELSE Named(DirsAt[Len(path) - 1], path[Len(path)])

\* What the program reads as it should: a first cluster below 256, no other bits
\* in the attribute, and either a file with an extension of three or a directory.
Plain(e) == e.start < 256 /\ ~e.marked /\ (e.attr = "file" => Len(e.ext) = 3)

PlainPath ==
    \A k \in 1 .. Len(path) : \A e \in Named(DirsAt[k - 1], path[k]) : Plain(e)

\* The directories on the path are where the program looks for them.
PlainDirs ==
    \A k \in 1 .. Len(path) : \A c \in DirsAt[k] : c < 256

\* A directory that is no longer than the cluster that is read of it.
Fits(c) == Len(Directory(c)) <= Slots

ShortPath == \A k \in 0 .. Len(path) - 1 : \A c \in DirsAt[k] : Fits(c)

Unmarked(c) == \A e \in EntriesOf(c) : e.deleted \/ ~e.marked

\* The clusters of a file: its chain in the FAT, for as long as its size.
Chain(e) ==
    LET n == (e.size + CLUSTER_SIZE - 1) \div CLUSTER_SIZE
        f[k \in 1 .. n] == IF k = 1 THEN e.start ELSE disk.fat[f[k - 1]]
    IN  [k \in 1 .. n |-> f[k]]

Contiguous(s) == \A k \in 1 .. Len(s) : s[k] = s[1] + k - 1

\* The live directories, with their paths, by depth.
LiveDirs ==
    LET f[k \in 0 .. Cardinality(DOMAIN disk.dirs)] ==
            IF k = 0 THEN {[at |-> << >>, c |-> Root]}
            ELSE UNION {{[at |-> Append(d.at, DirText(e)), c |-> e.start] :
                            e \in {x \in LiveIn(d.c) : x.attr = "dir" /\ ~IsDots(x)}} :
                        d \in f[k - 1]}
    IN  UNION {f[k] : k \in DOMAIN f}

\* The name of an entry, as the program forms it.
NameOf(e) == IF e.attr = "file" THEN FileText(e) ELSE DirText(e)

\* The names of the live ones among the first n entries of a directory.
LiveNames(c) ==
    LET d == Directory(c)
        f[n \in 0 .. Len(d)] ==
            IF n = 0 THEN << >>
            ELSE IF IsLive(d[n]) THEN Append(f[n - 1], NameOf(d[n])) ELSE f[n - 1]
    IN  f

LiveLines == UNION {{Append(d.at, NameOf(e)) : e \in LiveIn(d.c)} : d \in LiveDirs}

-----------------------------------------------------------------------------
(* Properties *)

\* A call for each directory between the root and the one that is read, and one
\* for a cluster that is none.
FatTypeOK ==
    /\ disk \in Disks /\ option \in Options
    /\ path \in Paths \cup {<< >>}
    /\ range \in Ranges \cup {[offset |-> 0, count |-> 0]}
    /\ is_ended \in 0 .. 2 /\ row \in 0 .. PerSector - 1 /\ linecount \in Nat
    /\ walk \in {FirstWalk[o] : o \in Options} \cup {"print_files_path", "done"}
    /\ Len(frames) <= Cardinality(DOMAIN disk.dirs) + 1
    /\ \A k \in 1 .. Len(frames) :
          /\ frames[k].x \in 1 .. Len(frames[k].buffer) + 1
          /\ Len(frames[k].begin) = k - 1
    /\ memory \in [1 .. Cardinality(DOMAIN disk.dirs) + 1 -> Seq(Fields)]
    /\ result \in Nat

\* The searches (fat.c:761, 888, 1030) go through deleted directories, leave a
\* call with 0 for an empty file and go on after failed reads with the entries of
\* another directory.  As long as the directories on the path are below cluster
\* 256, whatever they find is an entry that the path means; and they find it if
\* all on the path is plain and its directories are no longer than a cluster.
SearchExact ==
    walk = "done" /\ option \notin {"f", "t"} =>
        /\ PlainDirs /\ result # 0 => \E e \in Denoted : result = FirstCluster(e)
        /\ PlainPath /\ ShortPath /\ Denoted # {} => \E e \in Denoted : result = e.start

\* -n (fat.c:761-886) lists the chain of a file, on a plain and short path, when
\* the file is contiguous and fills its last cluster.
ListedWhenContiguous ==
    walk = "done" /\ option = "n" /\ PlainPath /\ ShortPath =>
        \A e \in Denoted :
            IsFile(e) /\ e.size % CLUSTER_SIZE = 0 /\ Contiguous(Chain(e)) => out = Chain(e)

\* -l (fat.c:401-601) lists in order the live entries of the directory that a plain
\* path means: all of them, or those among its first Slots entries.  Where the path
\* means none it prints nothing.  Other attribute bits are left aside.
ListExact ==
    walk = "done" /\ option = "l" /\ PlainPath =>
        LET dirs  == DirsAt[Len(path)]
            names == [i \in 1 .. Len(out) |-> out[i].name]
        IN  /\ dirs = {} => out = << >>
            /\ ShortPath => \A c \in dirs : Unmarked(c) =>
                  names = LiveNames(c)[IF Fits(c) THEN Len(Directory(c)) ELSE Slots]

\* -t (fat.c:604-730) prints no line but those of live entries and none twice, a
\* directory before what is in it and nothing else between; it prints all of them
\* if every directory fits into a cluster and no entry has other attribute bits.
TreeExact ==
    walk = "done" /\ option = "t" /\ (\A d \in LiveDirs : d.c < 256) =>
        LET lines == {out[i] : i \in 1 .. Len(out)}
        IN  /\ lines \subseteq LiveLines
            /\ Len(out) = Cardinality(lines)
            /\ (\A d \in LiveDirs : Fits(d.c) /\ Unmarked(d.c)) => lines = LiveLines
            /\ \A k \in 1 .. Len(out) : Len(out[k]) > 1 =>
                  \E i \in 1 .. k - 1 :
                     LET at == SubSeq(out[k], 1, Len(out[k]) - 1)
                     IN  /\ out[i] = at
                         /\ \A j \in i + 1 .. k : SubSeq(out[j], 1, Len(at)) = at

\* -a and -b print the bytes of a file that are in its first cluster, before
\* anything else, and -r (fat.c:1534) the bytes that are asked for, from the places
\* where the FAT says they are, as long as they are in the first cluster.
ContentExact ==
    walk = "done" /\ PlainPath /\ ShortPath =>
        \A e \in {x \in Denoted : IsFile(x) /\ x.size > 0} :
            LET first == Chain(e)[1]
            IN  /\ option \in {"a", "b"} =>
                      \A at \in 0 .. CLUSTER_SIZE - 1 : at < e.size =>
                          at + 1 \in DOMAIN out /\ out[at + 1] = <<first, at>>
                /\ option = "r" =>
                      \A k \in 1 .. range.count :
                         LET at == range.offset + k - 1
                         IN  at \in 0 .. CLUSTER_SIZE - 1 /\ at < e.size =>
                               Len(out) = range.count /\ out[k] = <<first, at>>

\* -f (fat.c:264-342) prints no other entries than the first ones of the FAT, and
\* all that are asked for, up to two sectors of them; never more than one that
\* was not asked for, and none if COUNT is less than a sector has.
TableExact ==
    walk = "done" /\ option = "f" /\ range.count > 0 =>
        /\ out = [k \in 1 .. Len(out) |-> Cell(k - 1)]
        /\ Len(out) <= range.count + 1
        /\ Len(out) >= range.count \/ Len(out) = 2 * PerSector
        /\ range.count < PerSector => Len(out) = range.count

\* Every walk ends, also one through deleted entries whose cluster is in use
\* again, as long as no such entry leads back to a directory above it.
WalkEnds == <>(walk = "done")

=============================================================================
