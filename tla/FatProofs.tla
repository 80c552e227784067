----------------------------- MODULE FatProofs -----------------------------
(***************************************************************************)
(* Proofs about FatReader: the table that -f prints, the stack of the      *)
(* walks, and what the searches and the listing find on every disk and for *)
(* every path.                                                             *)
(***************************************************************************)
EXTENDS FatReader, SequenceTheorems, DataInduction

-----------------------------------------------------------------------------
(* The arguments *)

ArgumentsOK ==
    /\ disk \in Disks /\ option \in Options
    /\ path \in Paths \cup {<< >>}
    /\ option \in {"f", "t"} => path = << >>
    /\ range \in Ranges \cup {[offset |-> 0, count |-> 0]}

\* The function that walks is the one that main calls for the option.
WalkOK ==
    \/ walk \in {FirstWalk[option], "done"}
    \/ option = "l" /\ walk = "print_files_path"

\* What main calls, option by option.
LEMMA FirstWalks ==
    ASSUME NEW o \in Options
    PROVE  /\ FirstWalk[o] \in {"get_cluster_data", "get_cluster_metadata", "print_files",
                                "get_fat_table_content", "get_cluster_num"}
           /\ FirstWalk[o] = "get_fat_table_content" <=> o = "f"
           /\ FirstWalk[o] = "print_files" <=> o = "t"
           /\ FirstWalk[o] = "get_cluster_data" <=> o = "n"
           /\ FirstWalk[o] = "get_cluster_metadata" <=> o = "d"
  BY DEF FirstWalk, Options

\* No step changes what the program was called with.
LEMMA ArgumentsKept == [Next]_vars => UNCHANGED arguments
  BY DEF Next, Step, vars, arguments, Found, SearchBelow, SearchOn, ListRoot, List, ListBelow,
     ListOn, PrintBelow, PrintOn, TableEntry, TableEnd, EndOfCluster, PrintCluster,
     PrintRange, StartListing, Finish

\* The program is called with a disk, an option, a path and a range.
LEMMA InitArguments == Init => ArgumentsOK /\ WalkOK
  BY DEF Init, ArgumentsOK, WalkOK

\* It goes on with them, and with the functions that the option names.
LEMMA StepArguments ==
    ASSUME ArgumentsOK, WalkOK, [Next]_vars
    PROVE  ArgumentsOK' /\ WalkOK'
  <1>1. UNCHANGED arguments
    BY ArgumentsKept
  <1>2. \/ walk' = walk \/ walk' = "done"
        \/ option = "l" /\ walk' = "print_files_path"
    BY DEF Next, Step, vars, arguments, Found, SearchBelow, SearchOn, ListRoot, List, ListBelow,
       ListOn, PrintBelow, PrintOn, TableEntry, TableEnd, EndOfCluster, PrintCluster,
       PrintRange, StartListing, Finish
  <1>3. QED
    BY <1>1, <1>2 DEF arguments, ArgumentsOK, WalkOK

-----------------------------------------------------------------------------
(* get_fat_table_content *)

\* Between two entries; lines is_ended * (PerSector - 1) + row have been counted.
TableGoes ==
    /\ Len(out) = is_ended * PerSector + row
    /\ linecount = is_ended * (PerSector - 1) + row
    /\ Len(out) > 0 => linecount < range.count

\* After the last line asked for, or after two sectors.
TableEnded ==
    range.count > 0 =>
        /\ Len(out) <= range.count + 1
        /\ Len(out) >= range.count \/ Len(out) = 2 * PerSector
        /\ range.count < PerSector => Len(out) = range.count

TableTyped ==
    /\ is_ended \in 0 .. 2 /\ row \in 0 .. PerSector - 1 /\ linecount \in Nat

\* out is a sequence of the first entries; how long it is tells is_ended.
TableInv ==
    /\ TableTyped
    /\ option = "f" =>
          /\ range \in Ranges
          /\ Len(out) \in Nat
          /\ out = [k \in 1 .. Len(out) |-> Cell(k - 1)]
          /\ IF is_ended < 2 THEN walk = "get_fat_table_content" /\ TableGoes ELSE TableEnded

\* Nothing but TableEntry changes the table's variables.
LEMMA TableKept ==
    ASSUME [Next]_vars, ~TableEntry
    PROVE  UNCHANGED tableV
  BY DEF Next, Step, vars, tableV, Found, SearchBelow, SearchOn, ListRoot, List, ListBelow,
     ListOn, PrintBelow, PrintOn, TableEnd, EndOfCluster, PrintCluster,
     PrintRange, StartListing, Finish

\* And with -f nothing else prints.
LEMMA TablePrints ==
    ASSUME ArgumentsOK, WalkOK, [Next]_vars, ~TableEntry, option = "f"
    PROVE  out' = out /\ (walk' = walk \/ is_ended >= 2)
  <1>1. walk \in {"get_fat_table_content", "done"}
    BY FirstWalks DEF ArgumentsOK, WalkOK
  <1>2. QED
    BY <1>1 DEF Next, Step, vars, tableV, Found, SearchBelow, SearchOn, Searching, ListRoot, List,
       ListBelow, ListOn, Listing, PrintBelow, PrintOn, Printing, TableEnd, EndOfCluster, Walking,
       PrintCluster, PrintRange, StartListing, Finish

\* One entry more.
LEMMA TableEntryStep ==
    ASSUME ArgumentsOK, WalkOK, TableInv, TableEntry
    PROVE  TableInv'
  <1>1. /\ PerSector \in Nat \ {0}
        /\ option = "f"
        /\ is_ended \in {0, 1} /\ row \in 0 .. PerSector - 1 /\ linecount \in Nat
        /\ UNCHANGED <<disk, option, range, walk>>
    BY FirstWalks, FatAssumption DEF ArgumentsOK, WalkOK, TableInv, TableTyped, TableEntry, arguments
  <1>2. range.count \in Int
    BY <1>1, FatAssumption DEF TableInv
  <1>3. /\ Len(out) \in Nat /\ out = [k \in 1 .. Len(out) |-> Cell(k - 1)]
        /\ walk = "get_fat_table_content" /\ TableGoes
    BY <1>1 DEF TableInv
  <1> DEFINE n == Len(out)
  <1>4. n = is_ended * PerSector + row
    BY <1>3 DEF TableGoes
  <1>5. out' = Append(out, Cell(n))
    BY <1>4 DEF TableEntry
  <1>6. out' = [k \in 1 .. n + 1 |-> Cell(k - 1)] /\ Len(out') = n + 1
    <2> DEFINE S == {Cell(k) : k \in Nat}
    <2>1. n \in Nat /\ Cell(n) \in S
      BY <1>3
    <2>2. out \in Seq(S)
      <3>1. \A k \in 1 .. n : Cell(k - 1) \in S
        OBVIOUS
      <3>2. [k \in 1 .. n |-> Cell(k - 1)] \in Seq(S)
        BY <2>1, <3>1
      <3>3. QED
        BY <1>3, <3>2
    <2> HIDE DEF S
    <2>3. /\ out' \in Seq(S) /\ Len(out') = n + 1
          /\ \A k \in 1 .. n : out'[k] = out[k]
          /\ out'[n + 1] = Cell(n)
      BY <1>5, <2>1, <2>2
    <2>4. ASSUME NEW k \in 1 .. n + 1 PROVE out'[k] = Cell(k - 1)
      <3>1. CASE k \in 1 .. n
        <4>1. out[k] = Cell(k - 1)
          BY <1>3, <3>1
        <4>2. QED
          BY <2>3, <3>1, <4>1
      <3>2. CASE k = n + 1
        BY <2>1, <2>3, <3>2
      <3>3. QED
        BY <2>1, <3>1, <3>2
    <2>5. QED
      BY <2>1, <2>3, <2>4
  <1>7. Len(out') = n + 1 /\ out' = [k \in 1 .. Len(out') |-> Cell(k - 1)']
    BY <1>1, <1>6 DEF Cell
  <1> HIDE DEF n
  <1>8. /\ linecount' = IF linecount >= range.count THEN linecount
                        ELSE linecount + (IF row + 1 < PerSector THEN 1 ELSE 0)
        /\ IF linecount' >= range.count
           THEN is_ended' = 2 /\ row' = row
           ELSE IF row + 1 = PerSector
           THEN is_ended' = is_ended + 1 /\ row' = 0
           ELSE row' = row + 1 /\ is_ended' = is_ended
    BY DEF TableEntry, LineCounted
  <1>9. TableTyped'
    BY <1>1, <1>2, <1>8 DEF TableTyped
  <1>10. n \in Nat /\ linecount = is_ended * (PerSector - 1) + row /\ (n > 0 => linecount < range.count)
    BY <1>3 DEF TableGoes, n
  <1>11. CASE linecount' >= range.count
    <2>1. range.count > 0 =>
             /\ n + 1 <= range.count + 1
             /\ n + 1 >= range.count \/ n + 1 = 2 * PerSector
             /\ range.count < PerSector => n + 1 = range.count
      <3>1. CASE is_ended = 0
        BY <1>1, <1>2, <1>4, <1>8, <1>10, <1>11, <3>1
      <3>2. CASE is_ended = 1
        BY <1>1, <1>2, <1>4, <1>8, <1>10, <1>11, <3>2
      <3>3. QED
        BY <1>1, <3>1, <3>2
    <2>2. is_ended' = 2
      BY <1>8, <1>11
    <2>3. TableEnded'
      BY <1>1, <1>6, <2>1 DEF TableEnded
    <2>4. ~(is_ended' < 2)
      BY <2>2
    <2>5. QED
      BY <1>1, <1>3, <1>7, <1>9, <1>10, <2>3, <2>4 DEF TableInv
  <1>12. CASE ~(linecount' >= range.count)
    <2>1. linecount < range.count /\ linecount' < range.count
      BY <1>1, <1>2, <1>8, <1>12
    <2>2. CASE row + 1 = PerSector /\ is_ended = 1
      <3>1. /\ n + 1 <= range.count + 1
            /\ n + 1 = 2 * PerSector
            /\ range.count < PerSector => n + 1 = range.count
        BY <1>1, <1>2, <1>4, <1>10, <2>1, <2>2
      <3>2. is_ended' = 2
        BY <1>8, <1>12, <2>2
      <3>3. TableEnded'
        BY <1>1, <1>6, <3>1 DEF TableEnded
      <3>4. ~(is_ended' < 2)
        BY <3>2
      <3>5. QED
        BY <1>1, <1>3, <1>7, <1>9, <1>10, <3>3, <3>4 DEF TableInv
    <2>3. CASE row + 1 = PerSector /\ is_ended = 0
      <3>1. is_ended' = 1 /\ row' = 0 /\ linecount' = linecount
        BY <1>1, <1>8, <1>12, <2>1, <2>3
      <3>2. /\ n + 1 = is_ended' * PerSector + row'
            /\ linecount' = is_ended' * (PerSector - 1) + row'
        BY <1>1, <1>4, <1>10, <2>3, <3>1
      <3>3. QED
        BY <1>1, <1>3, <1>7, <1>9, <1>10, <2>1, <3>1, <3>2 DEF TableInv, TableGoes
    <2>4. CASE row + 1 # PerSector
      <3>1. is_ended' = is_ended /\ row' = row + 1 /\ linecount' = linecount + 1
        BY <1>1, <1>8, <1>12, <2>1, <2>4
      <3>2. /\ n + 1 = is_ended' * PerSector + row'
            /\ linecount' = is_ended' * (PerSector - 1) + row'
        <4>1. CASE is_ended = 0
          BY <1>1, <1>4, <1>10, <3>1, <4>1
        <4>2. CASE is_ended = 1
          BY <1>1, <1>4, <1>10, <3>1, <4>2
        <4>3. QED
          BY <1>1, <4>1, <4>2
      <3>3. QED
        BY <1>1, <1>3, <1>7, <1>9, <1>10, <2>1, <3>1, <3>2 DEF TableInv, TableGoes
    <2>5. QED
      BY <1>1, <2>2, <2>3, <2>4
  <1>13. QED
    BY <1>11, <1>12

\* The other steps leave the table as it is.
LEMMA TableOtherStep ==
    ASSUME ArgumentsOK, WalkOK, TableInv, [Next]_vars, ~TableEntry
    PROVE  TableInv'
  <1>1. UNCHANGED tableV /\ UNCHANGED arguments
    BY TableKept, ArgumentsKept
  <1>2. option = "f" => out' = out /\ (walk' = walk \/ is_ended >= 2)
    BY TablePrints
  <1>3. TableTyped'
    BY <1>1 DEF TableInv, TableTyped, tableV
  <1>4. ASSUME option = "f" PROVE TableInv'
    <2>1. \A k : Cell(k)' = Cell(k)
      BY <1>1 DEF Cell, arguments
    <2>2. \A k \in 1 .. Len(out) : Cell(k - 1)' = Cell(k - 1)
      BY <2>1
    <2>3. QED
      BY <1>1, <1>2, <1>3, <1>4, <2>2 DEF TableInv, TableTyped, TableGoes, TableEnded,
         arguments, tableV
  <1>5. QED
    BY <1>1, <1>3, <1>4 DEF TableInv, arguments

\* TableInv holds at every step.
LEMMA TableInvariance == Spec => [](ArgumentsOK /\ WalkOK /\ TableInv)
  <1> DEFINE Inv == ArgumentsOK /\ WalkOK /\ TableInv
  <1>1. Init => Inv
    <2> SUFFICES ASSUME Init PROVE TableInv
      BY InitArguments
    <2>1. /\ is_ended = 0 /\ row = 0 /\ linecount = 0 /\ out = << >>
          /\ option = "f" => walk = "get_fat_table_content" /\ range \in Ranges
      BY FirstWalks DEF Init
    <2>2. PerSector \in Nat \ {0}
      BY FatAssumption
    <2>3. TableTyped
      BY <2>1, <2>2 DEF TableTyped
    <2>4. Len(out) = 0 /\ out = [k \in 1 .. 0 |-> Cell(k - 1)]
      BY <2>1
    <2>5. TableGoes
      BY <2>1, <2>2, <2>4 DEF TableGoes
    <2>6. QED
      BY <2>1, <2>3, <2>4, <2>5 DEF TableInv
  <1>2. Inv /\ [Next]_vars => Inv'
    BY StepArguments, TableEntryStep, TableOtherStep
  <1>3. QED
    BY <1>1, <1>2, PTL DEF Spec

\* Counting lines and sectors as the code does, -f prints the first entries of
\* the FAT, as many as were asked for or one more, up to two sectors.
THEOREM TableIsExact == Spec => []TableExact
  <1> DEFINE Inv == ArgumentsOK /\ WalkOK /\ TableInv
  <1>1. Inv => TableExact
    <2> SUFFICES ASSUME Inv, walk = "done", option = "f", range.count > 0
                 PROVE  /\ out = [k \in 1 .. Len(out) |-> Cell(k - 1)]
                        /\ TableEnded
      BY DEF TableExact, TableEnded
    <2>1. is_ended >= 2
      BY DEF TableInv, TableTyped
    <2>2. QED
      BY <2>1 DEF TableInv, TableTyped
  <1>2. QED
    BY <1>1, TableInvariance, PTL

-----------------------------------------------------------------------------
(* The disk *)

Depth(d) == CHOOSE depth \in Depths(d.dirs) : Descends(d.dirs, depth)

Levels == Cardinality(DOMAIN disk.dirs)

\* What is assumed of a disk, in the form in which it is used.
LEMMA DiskFacts ==
    ASSUME ArgumentsOK
    PROVE  /\ Levels \in Nat \ {0}
           /\ Root \in DOMAIN disk.dirs
           /\ disk.size \in 1 .. Wrap /\ DOMAIN disk.dirs \subseteq 0 .. disk.size - 1
           /\ \A c : Directory(c) \in Seq(Fields)
           /\ \A c : \A i \in 1 .. Len(Directory(c)) :
                 IsEntry(Directory(c)[i]) /\ Directory(c)[i].start < disk.size
           /\ \A c : \A i, j \in 1 .. Len(Directory(c)) :
                 i # j /\ IsLive(Directory(c)[i]) /\ IsLive(Directory(c)[j]) =>
                    <<Directory(c)[i].base, Directory(c)[i].ext>>
                        # <<Directory(c)[j].base, Directory(c)[j].ext>>
  <1>1. IsDisk(disk)
    BY FatAssumption DEF ArgumentsOK
  <1>2. /\ Root \in DOMAIN disk.dirs
        /\ disk.size \in 1 .. Wrap /\ DOMAIN disk.dirs \subseteq 0 .. disk.size - 1
    BY <1>1 DEF IsDisk
  <1>3. Levels \in Nat \ {0}
    <2>1. IsFiniteSet(0 .. disk.size - 1)
      <3>1. disk.size - 1 \in Int
        BY <1>2
      <3>2. QED
        BY <3>1, FS_Interval
    <2>2. IsFiniteSet(DOMAIN disk.dirs)
      BY <1>2, <2>1, FS_Subset
    <2>3. QED
      BY <1>2, <2>2, FS_EmptySet, FS_CardinalityType DEF Levels
  <1>4. << >> \in Seq(Fields) /\ Len(<< >>) = 0
    OBVIOUS
  <1>5. \A c \in DOMAIN disk.dirs : disk.dirs[c] \in Seq(Fields)
    BY <1>1 DEF IsDisk
  <1>6. \A c \in DOMAIN disk.dirs : \A i \in 1 .. Len(disk.dirs[c]) :
           IsEntry(disk.dirs[c][i]) /\ disk.dirs[c][i].start < disk.size
    BY <1>1 DEF IsDisk
  <1>7. \A c \in DOMAIN disk.dirs : \A i, j \in 1 .. Len(disk.dirs[c]) :
           i # j /\ IsLive(disk.dirs[c][i]) /\ IsLive(disk.dirs[c][j]) =>
              <<disk.dirs[c][i].base, disk.dirs[c][i].ext>>
                 # <<disk.dirs[c][j].base, disk.dirs[c][j].ext>>
    BY <1>1 DEF IsDisk
  <1>8. \A c : Directory(c) \in Seq(Fields)
    BY <1>4, <1>5 DEF Directory
  <1>9. \A c : \A i \in 1 .. Len(Directory(c)) :
           IsEntry(Directory(c)[i]) /\ Directory(c)[i].start < disk.size
    BY <1>4, <1>6 DEF Directory
  <1>10. ASSUME NEW c
         PROVE  \A i, j \in 1 .. Len(Directory(c)) :
                   i # j /\ IsLive(Directory(c)[i]) /\ IsLive(Directory(c)[j]) =>
                      <<Directory(c)[i].base, Directory(c)[i].ext>>
                          # <<Directory(c)[j].base, Directory(c)[j].ext>>
    <2>1. CASE c \in DOMAIN disk.dirs
      BY <1>7, <2>1 DEF Directory
    <2>2. CASE c \notin DOMAIN disk.dirs
      <3>1. Len(Directory(c)) = 0
        BY <1>4, <2>2 DEF Directory
      <3>2. QED
        BY <3>1
    <2>3. QED
      BY <2>1, <2>2
  <1>11. QED
    BY <1>2, <1>3, <1>8, <1>9, <1>10

\* The first part of a directory that is read of it.
LEMMA ReadFacts ==
    ASSUME NEW d \in Seq(Fields), NEW n \in Nat
    PROVE  LET s == SubSeq(d, 1, IF Len(d) < n THEN Len(d) ELSE n)
           IN  /\ s \in Seq(Fields)
               /\ Len(s) = IF Len(d) < n THEN Len(d) ELSE n
               /\ \A i \in 1 .. Len(s) : i \in 1 .. Len(d) /\ s[i] = d[i]
               /\ Len(d) <= n => s = d
  <1> DEFINE m == IF Len(d) < n THEN Len(d) ELSE n
             s == SubSeq(d, 1, m)
  <1>1. Len(d) \in Nat /\ m \in Nat /\ m <= Len(d) /\ (Len(d) <= n => m = Len(d))
    OBVIOUS
  <1> HIDE DEF m
  <1>2. \A i \in 1 .. m : d[i] \in Fields
    BY <1>1
  <1>3. /\ s \in Seq(Fields)
        /\ Len(s) = IF 1 <= m THEN m - 1 + 1 ELSE 0
        /\ \A i \in 1 .. m - 1 + 1 : s[i] = d[1 + i - 1]
    BY <1>1, <1>2, SubSeqProperties
  <1> HIDE DEF s
  <1>4. Len(s) = m
    BY <1>1, <1>3
  <1>5. ASSUME NEW i \in 1 .. m PROVE i \in 1 .. Len(d) /\ s[i] = d[i]
    <2>1. i \in 1 .. m - 1 + 1 /\ 1 + i - 1 = i /\ i \in 1 .. Len(d)
      BY <1>1
    <2>2. QED
      BY <1>3, <2>1
  <1>6. ASSUME Len(d) <= n PROVE s = d
    BY <1>1, <1>3, <1>4, <1>5, <1>6
  <1>7. QED
    BY <1>3, <1>4, <1>5, <1>6 DEF m, s

\* What is read for a cluster number is the first part of a directory, or nothing.
LEMMA EntriesFacts ==
    ASSUME ArgumentsOK
    PROVE  /\ \A c : Entries(c) \in Seq(Fields)
           /\ \A c : \A i \in 1 .. Len(Entries(c)) :
                 /\ i \in 1 .. Len(Directory(c % Wrap))
                 /\ Entries(c)[i] = Directory(c % Wrap)[i]
                 /\ IsEntry(Entries(c)[i]) /\ Entries(c)[i] \in Fields
                 /\ Entries(c)[i].start < disk.size
           /\ \A c : Fits(c % Wrap) => Entries(c) = Directory(c % Wrap)
           /\ \A c : Entries(c) # << >> => c % Wrap \in DOMAIN disk.dirs
  <1>1. Slots \in Nat
    BY FatAssumption
  <1>2. ASSUME NEW c
        PROVE  /\ Entries(c) \in Seq(Fields)
               /\ \A i \in 1 .. Len(Entries(c)) :
                     i \in 1 .. Len(Directory(c % Wrap)) /\ Entries(c)[i] = Directory(c % Wrap)[i]
               /\ Fits(c % Wrap) => Entries(c) = Directory(c % Wrap)
    <2> DEFINE d == Directory(c % Wrap)
    <2>1. d \in Seq(Fields)
      BY DiskFacts
    <2>2. /\ Entries(c) = SubSeq(d, 1, IF Len(d) < Slots THEN Len(d) ELSE Slots)
          /\ Fits(c % Wrap) <=> Len(d) <= Slots
      BY DEF Entries, Fits
    <2> HIDE DEF d
    <2>3. /\ Entries(c) \in Seq(Fields)
          /\ \A i \in 1 .. Len(Entries(c)) : i \in 1 .. Len(d) /\ Entries(c)[i] = d[i]
          /\ Len(d) <= Slots => Entries(c) = d
      BY <1>1, <2>1, <2>2, ReadFacts
    <2>4. QED
      BY <2>2, <2>3 DEF d
  <1>3. ASSUME NEW c, NEW i \in 1 .. Len(Entries(c))
        PROVE  /\ IsEntry(Entries(c)[i]) /\ Entries(c)[i] \in Fields
               /\ Entries(c)[i].start < disk.size
    <2>1. IsEntry(Entries(c)[i]) /\ Entries(c)[i].start < disk.size
      BY <1>2, DiskFacts
    <2>2. QED
      BY <2>1 DEF IsEntry
  <1>4. ASSUME NEW c, Entries(c) # << >> PROVE c % Wrap \in DOMAIN disk.dirs
    <2> SUFFICES ASSUME c % Wrap \notin DOMAIN disk.dirs PROVE Len(Entries(c)) = 0
      BY <1>2, <1>4
    <2>1. Len(Directory(c % Wrap)) = 0
      BY DEF Directory
    <2>2. Len(Entries(c)) \in Nat
      BY <1>2
    <2>3. ~(1 \in 1 .. Len(Entries(c)))
      BY <1>2, <2>1
    <2>4. QED
      BY <2>2, <2>3
  <1>5. QED
    BY <1>2, <1>3, <1>4

\* A cluster of the disk is read by its number.
LEMMA ClusterPlace ==
    ASSUME ArgumentsOK
    PROVE  /\ \A c \in 0 .. disk.size - 1 : c % Wrap = c /\ Readable(c)
           /\ \A c \in DOMAIN disk.dirs : c \in 0 .. disk.size - 1
           /\ disk.size \in Nat \ {0} /\ \A c \in Nat : c % Wrap \in Nat
  <1>1. Wrap \in Nat \ {0}
    BY DEF Wrap
  <1>2. disk.size \in 1 .. Wrap
    BY DiskFacts
  <1>3. ASSUME NEW c \in 0 .. disk.size - 1 PROVE c % Wrap = c /\ Readable(c)
    <2>1. c \in 0 .. Wrap - 1 /\ c < disk.size
      BY <1>1, <1>2
    <2>2. c % Wrap = c
      BY <1>1, <2>1
    <2>3. QED
      BY <2>1, <2>2 DEF Readable
  <1>4. \A c \in Nat : c % Wrap \in Nat
    BY <1>1
  <1>5. disk.size \in Nat \ {0}
    BY <1>1, <1>2
  <1>6. QED
    BY <1>3, <1>4, <1>5, DiskFacts

\* Every directory has a depth, greater than that of a directory that leads to it.
LEMMA DepthFacts ==
    ASSUME ArgumentsOK
    PROVE  /\ \A c \in DOMAIN disk.dirs : Depth(disk)[c] \in 1 .. Levels
           /\ \A c \in DOMAIN disk.dirs : \A i \in 1 .. Len(disk.dirs[c]) :
                 LET e == disk.dirs[c][i]
                 IN  IsDir(e) /\ ~IsDots(e) /\ Reached(e) \in DOMAIN disk.dirs
                        => Depth(disk)[c] < Depth(disk)[Reached(e)]
  <1>1. \E depth \in Depths(disk.dirs) : Descends(disk.dirs, depth)
    BY FatAssumption DEF ArgumentsOK, IsDisk
  <1>2. Depth(disk) \in Depths(disk.dirs) /\ Descends(disk.dirs, Depth(disk))
    BY <1>1 DEF Depth
  <1>3. Depth(disk) \in [DOMAIN disk.dirs -> 1 .. Levels]
    BY <1>2 DEF Depths, Levels
  <1> HIDE DEF Depth
  <1>4. QED
    BY <1>2, <1>3 DEF Descends, IsDir, IsDots, Depth

\* What is assumed of a path.
LEMMA PathFacts ==
    ASSUME ArgumentsOK
    PROVE  /\ path \in Seq(Texts) /\ Len(path) \in Nat
           /\ \A k \in 1 .. Len(path) : path[k][1] \notin DotNames
           /\ \A c : \A i \in 1 .. Len(Directory(c)) : \A k \in 1 .. Len(path) :
                 Directory(c)[i].deleted => Directory(c)[i].base # path[k][1]
           /\ \A k \in 1 .. Len(path) : Len(path[k]) = 2 =>
                 \A i \in 1 .. Len(path[k][2]) : path[k][2][i] # Blank
  <1>1. IsPath(path)
    <2>1. IsPath(<< >>)
      <3>1. << >> \in Seq(Texts) /\ Len(<< >>) = 0
        OBVIOUS
      <3>2. QED
        BY <3>1 DEF IsPath
    <2>2. QED
      BY <2>1, FatAssumption DEF ArgumentsOK
  <1>2. path \in Seq(Texts) /\ Len(path) \in Nat
    <2>1. path \in Seq(Texts)
      BY <1>1, Zenon DEF IsPath
    <2>2. QED
      BY <2>1
  <1>3. \A k \in 1 .. Len(path) : ~WrittenOff(disk, path[k][1])
    BY <1>1 DEF IsPath, ArgumentsOK
  <1>4. ASSUME NEW c, NEW i \in 1 .. Len(Directory(c)), NEW k \in 1 .. Len(path),
               Directory(c)[i].deleted, Directory(c)[i].base = path[k][1]
        PROVE  FALSE
    <2>1. CASE c \in DOMAIN disk.dirs
      BY <1>3, <1>4, <2>1 DEF WrittenOff, Directory
    <2>2. CASE c \notin DOMAIN disk.dirs
      <3>1. Len(Directory(c)) = 0
        BY <2>2 DEF Directory
      <3>2. QED
        BY <3>1
    <2>3. QED
      BY <2>1, <2>2
  <1>5. QED
    BY <1>1, <1>2, <1>4 DEF IsPath

\* What a disk and a path mean does not change.
LEMMA MeaningKept ==
    ASSUME UNCHANGED arguments
    PROVE  /\ \A c : Directory(c)' = Directory(c)
           /\ \A c : Entries(c)' = Entries(c)
           /\ \A c : Readable(c)' = Readable(c)
           /\ DirsAt' = DirsAt /\ Denoted' = Denoted /\ Levels' = Levels
           /\ PlainDirs' = PlainDirs
  <1>1. ASSUME NEW c PROVE Directory(c)' = Directory(c)
    BY DEF arguments, Directory
  <1>2. ASSUME NEW c PROVE Entries(c)' = Entries(c)
    BY DEF arguments, Entries, Directory
  <1>3. ASSUME NEW c PROVE Readable(c)' = Readable(c)
    BY DEF arguments, Readable
  <1>4. DirsAt' = DirsAt
    BY DEF arguments, DirsAt, Named, LiveIn, EntriesOf, Directory, IsDots, Text
  <1>5. ASSUME NEW D, NEW t PROVE Named(D, t)' = Named(D, t)
    BY DEF arguments, Named, LiveIn, EntriesOf, Directory
  <1>6. Denoted' = Denoted
    BY <1>4, <1>5 DEF arguments, Denoted
  <1>7. Levels' = Levels
    BY DEF arguments, Levels
  <1>8. PlainDirs' = PlainDirs
    BY <1>4 DEF arguments, PlainDirs
  <1>9. QED
    BY <1>1, <1>2, <1>3, <1>4, <1>6, <1>7, <1>8

-----------------------------------------------------------------------------
(* The stack of calls *)

FrameSet == [buffer : Seq(Fields), x : Nat, begin : Seq(Texts)]

\* The call for the subdirectory e of the directory that is read.
Call(e, buffer) == Frame(buffer, Here(DirText(e)))

\* A buffer of the k-th call has what is read of a directory that is no less deep
\* than there are calls.
BufferOK(buffer, k) ==
    /\ buffer \in Seq(Fields)
    /\ buffer # << >> => \E c \in DOMAIN disk.dirs : buffer = Entries(c) /\ k <= Depth(disk)[c]

FrameOK(f, k) ==
    /\ f \in FrameSet
    /\ f.x \in 1 .. Len(f.buffer) + 1
    /\ Len(f.begin) = k - 1
    /\ k <= Levels + 1
    /\ BufferOK(f.buffer, k)

StackOK ==
    /\ frames \in Seq(FrameSet)
    /\ \A k \in 1 .. Len(frames) : FrameOK(frames[k], k)
    /\ memory \in [1 .. Levels + 1 -> Seq(Fields)]
    /\ \A k \in 1 .. Levels + 1 : BufferOK(memory[k], k)

\* What a step does to the stack.
LEMMA StackSteps ==
    ASSUME [Next]_vars
    PROVE  \/ /\ \/ frames' = frames
                 \/ frames' = << >>
                 \/ Walking /\ frames' = Below
                 \/ AtEntry /\ frames' = Advanced
                 \/ frames' = <<RootFrame>>
              /\ memory' = memory
           \/ AtEntry /\ IsDir(Entry) /\ ~IsDots(Entry) /\ Enter(Entry)
  BY DEF Next, Step, vars, Found, SearchBelow, SearchOn, ListRoot, List, ListBelow,
     ListOn, PrintBelow, PrintOn, Enters, TableEntry, TableEnd, EndOfCluster, PrintCluster,
     PrintRange, StartListing, Finish, AtEntry

\* The stack without its top, and with its top at the next slot.
LEMMA StackOps ==
    ASSUME frames \in Seq(FrameSet), frames # << >>
    PROVE  /\ Len(frames) \in Nat \ {0} /\ Top \in FrameSet
           /\ Below \in Seq(FrameSet) /\ Len(Below) = Len(frames) - 1
           /\ \A k \in 1 .. Len(Below) : Below[k] = frames[k]
           /\ Advanced \in Seq(FrameSet) /\ Len(Advanced) = Len(frames)
           /\ \A k \in 1 .. Len(Advanced) :
                 Advanced[k] = IF k = Len(frames) THEN [Top EXCEPT !.x = @ + 1] ELSE frames[k]
  <1>1. Len(frames) \in Nat \ {0} /\ Top \in FrameSet
    BY DEF Top
  <1>2. /\ Below \in Seq(FrameSet) /\ Len(Below) = Len(frames) - 1
        /\ \A k \in 1 .. Len(Below) : Below[k] = frames[k]
    <2> DEFINE n == Len(frames) - 1
    <2>1. n \in Nat /\ 1 \in Int /\ n \in Int /\ \A i \in 1 .. n : frames[i] \in FrameSet
      BY <1>1
    <2>2. Below = SubSeq(frames, 1, n)
      BY DEF Below
    <2> HIDE DEF n
    <2>3. /\ Below \in Seq(FrameSet)
          /\ Len(Below) = IF 1 <= n THEN n - 1 + 1 ELSE 0
          /\ \A i \in 1 .. n - 1 + 1 : Below[i] = frames[1 + i - 1]
      BY <2>1, <2>2, SubSeqProperties
    <2>4. Len(Below) = n
      BY <2>1, <2>3
    <2>5. ASSUME NEW k \in 1 .. n PROVE Below[k] = frames[k]
      <3>1. k \in 1 .. n - 1 + 1 /\ 1 + k - 1 = k
        BY <2>1
      <3>2. QED
        BY <2>3, <3>1
    <2>6. QED
      BY <2>3, <2>4, <2>5 DEF n
  <1>3. [Top EXCEPT !.x = @ + 1] \in FrameSet
    <2>1. Top.x + 1 \in Nat
      BY <1>1 DEF FrameSet
    <2>2. \A v \in Nat : [Top EXCEPT !.x = v] \in FrameSet
      BY <1>1 DEF FrameSet
    <2>3. QED
      BY <2>1, <2>2
  <1> DEFINE t == [Top EXCEPT !.x = @ + 1]
  <1>4. Advanced = Append(Below, t)
    BY DEF Advanced
  <1> HIDE DEF t
  <1>5. t \in FrameSet
    BY <1>3 DEF t
  <1>6. /\ Advanced \in Seq(FrameSet) /\ Len(Advanced) = Len(frames)
        /\ \A k \in 1 .. Len(Advanced) :
              Advanced[k] = IF k = Len(frames) THEN t ELSE frames[k]
    BY <1>1, <1>2, <1>4, <1>5
  <1>7. QED
    BY <1>1, <1>2, <1>6 DEF t

\* The entry that a walk is at.
LEMMA EntryFacts ==
    ASSUME ArgumentsOK, StackOK, AtEntry
    PROVE  /\ Len(frames) \in Nat \ {0} /\ Top \in FrameSet /\ FrameOK(Top, Len(frames))
           /\ Top.x \in 1 .. Len(Top.buffer) /\ Top.buffer \in Seq(Fields)
           /\ Top.buffer # << >>
           /\ IsEntry(Entry) /\ Entry \in Fields
           /\ Top.begin \in Seq(Texts) /\ Len(Top.begin) = Len(frames) - 1
           /\ DirText(Entry) \in Texts
           /\ Here(DirText(Entry)) \in Seq(Texts) /\ Len(Here(DirText(Entry))) = Len(frames)
           /\ \E c \in DOMAIN disk.dirs :
                 /\ Top.buffer = Entries(c) /\ c % Wrap = c
                 /\ Len(frames) <= Depth(disk)[c]
  <1>1. /\ frames # << >> /\ frames \in Seq(FrameSet) /\ Top.x <= Len(Top.buffer)
        /\ Len(frames) \in Nat \ {0} /\ Top \in FrameSet
    BY StackOps DEF AtEntry, Walking, StackOK
  <1>2. FrameOK(Top, Len(frames))
    BY <1>1 DEF StackOK, Top
  <1>3. /\ Top.x \in 1 .. Len(Top.buffer) /\ Top.buffer \in Seq(Fields) /\ Top.buffer # << >>
        /\ Top.begin \in Seq(Texts) /\ Len(Top.begin) = Len(frames) - 1
    BY <1>1, <1>2 DEF FrameOK, FrameSet
  <1>4. PICK c \in DOMAIN disk.dirs : Top.buffer = Entries(c) /\ Len(frames) <= Depth(disk)[c]
    BY <1>2, <1>3 DEF FrameOK, BufferOK
  <1>5. c % Wrap = c
    BY ClusterPlace
  <1>6. IsEntry(Entry)
    BY <1>3, <1>4, EntriesFacts DEF Entry
  <1>7. Entry \in Fields
    BY <1>6 DEF IsEntry
  <1>8. DirText(Entry) \in Texts
    BY <1>7 DEF DirText, Texts, Fields
  <1>9. Here(DirText(Entry)) \in Seq(Texts) /\ Len(Here(DirText(Entry))) = Len(frames)
    BY <1>1, <1>3, <1>8 DEF Here
  <1>10. QED
    BY <1>1, <1>2, <1>3, <1>4, <1>5, <1>6, <1>7, <1>8, <1>9

\* The call of the root directory is one that a walk may make.
LEMMA RootCall ==
    ASSUME ArgumentsOK
    PROVE  FrameOK(RootFrame, 1)
  <1>1. Entries(Root) \in Seq(Fields)
    BY EntriesFacts
  <1>2. 1 <= Depth(disk)[Root] /\ 1 <= Levels + 1 /\ Root \in DOMAIN disk.dirs
    BY DiskFacts, DepthFacts
  <1>3. << >> \in Seq(Texts) /\ Len(<< >>) = 0
    OBVIOUS
  <1>4. 1 \in Nat /\ 1 \in 1 .. Len(Entries(Root)) + 1
    BY <1>1
  <1>5. RootFrame \in FrameSet
    BY <1>1, <1>3, <1>4 DEF RootFrame, Frame, FrameSet
  <1>6. QED
    BY <1>1, <1>2, <1>3, <1>4, <1>5 DEF RootFrame, Frame, FrameOK, BufferOK

\* So is that of a subdirectory, also after a read that failed.
LEMMA ChildCall ==
    ASSUME ArgumentsOK, StackOK, AtEntry, IsDir(Entry), ~IsDots(Entry),
           NEW b \in Reads(FirstCluster(Entry))
    PROVE  /\ Len(frames) + 1 \in 1 .. Levels + 1
           /\ BufferOK(b, Len(frames) + 1)
           /\ FrameOK(Call(Entry, b), Len(frames) + 1)
  <1> DEFINE s == Reached(Entry)
             n == Len(frames) + 1
  <1>1. PICK c \in DOMAIN disk.dirs :
           Top.buffer = Entries(c) /\ c % Wrap = c /\ Len(frames) <= Depth(disk)[c]
    BY EntryFacts
  <1>2. s \in DOMAIN disk.dirs => Depth(disk)[c] < Depth(disk)[s]
    <2>1. /\ Top.x \in 1 .. Len(Directory(c)) /\ Entry = Directory(c)[Top.x]
          /\ Directory(c) = disk.dirs[c]
      BY <1>1, EntryFacts, EntriesFacts DEF Entry, Directory
    <2>2. QED
      BY <1>1, <2>1, DepthFacts
  <1>3. Depth(disk)[c] \in 1 .. Levels /\ (s \in DOMAIN disk.dirs => Depth(disk)[s] \in 1 .. Levels)
    BY <1>1, DepthFacts
  <1>4. Len(frames) \in Nat /\ Levels \in Nat
    BY EntryFacts, DiskFacts
  <1>5. n \in 1 .. Levels + 1
    BY <1>1, <1>3, <1>4
  <1>6. s \in DOMAIN disk.dirs => n <= Depth(disk)[s]
    BY <1>1, <1>2, <1>3, <1>4
  <1>7. BufferOK(Entries(FirstCluster(Entry)), n)
    <2> SUFFICES ASSUME Entries(FirstCluster(Entry)) # << >>
                 PROVE  \E d \in DOMAIN disk.dirs :
                           Entries(FirstCluster(Entry)) = Entries(d) /\ n <= Depth(disk)[d]
      BY EntriesFacts DEF BufferOK
    <2>1. s \in DOMAIN disk.dirs
      BY EntriesFacts DEF Reached
    <2>2. s % Wrap = s
      BY <2>1, ClusterPlace
    <2>3. Entries(FirstCluster(Entry)) = Entries(s)
      BY <2>2 DEF Entries, Reached
    <2>4. QED
      BY <1>6, <2>1, <2>3
  <1>8. BufferOK(b, n)
    <2>1. b = Entries(FirstCluster(Entry)) \/ b = memory[n]
      BY DEF Reads, Unchecked
    <2>2. BufferOK(memory[n], n)
      BY <1>5 DEF StackOK
    <2>3. QED
      BY <1>7, <2>1, <2>2
  <1> HIDE DEF s, n
  <1>9. b \in Seq(Fields) /\ 1 \in 1 .. Len(b) + 1
    BY <1>8 DEF BufferOK
  <1>10. /\ Call(Entry, b) \in FrameSet /\ Call(Entry, b).buffer = b /\ Call(Entry, b).x = 1
         /\ Len(Call(Entry, b).begin) = Len(frames)
    BY <1>9, EntryFacts DEF Call, Frame, FrameSet
  <1>11. n = Len(frames) + 1 /\ Len(frames) \in Nat
    BY <1>4 DEF n
  <1>12. FrameOK(Call(Entry, b), n)
    BY <1>5, <1>8, <1>9, <1>10, <1>11 DEF FrameOK
  <1>13. QED
    BY <1>5, <1>8, <1>11, <1>12

\* Each call on the stack after a step was there before, or has gone on to the
\* next slot, or has just been made.
LEMMA StackCases ==
    ASSUME ArgumentsOK, StackOK, [Next]_vars
    PROVE  /\ frames' \in Seq(FrameSet)
           /\ \A k \in 1 .. Len(frames') :
                 \/ k \in 1 .. Len(frames) /\ frames'[k] = frames[k]
                 \/ /\ k = Len(frames) /\ AtEntry
                    /\ frames'[k] = [Top EXCEPT !.x = @ + 1]
                 \/ /\ k = Len(frames) + 1 /\ AtEntry
                    /\ IsDir(Entry) /\ ~IsDots(Entry)
                    /\ \E b \in Reads(FirstCluster(Entry)) : frames'[k] = Call(Entry, b)
                 \/ k = 1 /\ frames'[k] = RootFrame
  <1>0. frames \in Seq(FrameSet)
    BY DEF StackOK
  <1>1. CASE frames' = frames
    BY <1>0, <1>1
  <1>2. CASE frames' = << >>
    BY <1>2
  <1>3. CASE Walking /\ frames' = Below
    <2>1. frames # << >>
      BY <1>3 DEF Walking
    <2>2. QED
      BY <1>0, <1>3, <2>1, StackOps
  <1>4. CASE AtEntry /\ frames' = Advanced
    <2>1. frames # << >>
      BY <1>4 DEF AtEntry, Walking
    <2>2. QED
      BY <1>0, <1>4, <2>1, StackOps
  <1>5. CASE AtEntry /\ IsDir(Entry) /\ ~IsDots(Entry) /\ Enter(Entry)
    <2>1. frames # << >>
      BY <1>5 DEF AtEntry, Walking
    <2>2. PICK b \in Reads(FirstCluster(Entry)) : frames' = Append(Advanced, Call(Entry, b))
      BY <1>5 DEF Enter, Entered, Call
    <2>3. Call(Entry, b) \in FrameSet
      BY <1>5, ChildCall DEF FrameOK
    <2>4. /\ frames' \in Seq(FrameSet) /\ Len(frames') = Len(frames) + 1
          /\ \A k \in 1 .. Len(frames) : frames'[k] = Advanced[k]
          /\ frames'[Len(frames) + 1] = Call(Entry, b)
      BY <1>0, <2>1, <2>2, <2>3, StackOps
    <2>5. QED
      BY <1>0, <1>5, <2>1, <2>4, StackOps
  <1>6. CASE frames' = <<RootFrame>>
    <2>1. RootFrame \in FrameSet
      BY RootCall DEF FrameOK
    <2>2. QED
      BY <1>6, <2>1
  <1>7. QED
    BY <1>1, <1>2, <1>3, <1>4, <1>5, <1>6, StackSteps

\* What the buffers had is forgotten only where a call is made.
LEMMA MemoryStep ==
    ASSUME ArgumentsOK, StackOK, [Next]_vars
    PROVE  /\ memory' \in [1 .. Levels + 1 -> Seq(Fields)]
           /\ \A k \in 1 .. Levels + 1 : BufferOK(memory'[k], k)
  <1>1. CASE memory' = memory
    BY <1>1 DEF StackOK
  <1>2. CASE AtEntry /\ IsDir(Entry) /\ ~IsDots(Entry) /\ Enter(Entry)
    <2>1. PICK b \in Reads(FirstCluster(Entry)) :
             memory' = [memory EXCEPT ![Len(frames) + 1] = b]
      BY <1>2 DEF Enter
    <2>2. Len(frames) + 1 \in 1 .. Levels + 1 /\ BufferOK(b, Len(frames) + 1)
      BY <1>2, ChildCall
    <2>3. b \in Seq(Fields)
      BY <2>2 DEF BufferOK
    <2> DEFINE n == Len(frames) + 1
               m == Levels + 1
    <2> HIDE DEF n, m
    <2>4. /\ memory' = [memory EXCEPT ![n] = b] /\ n \in 1 .. m /\ b \in Seq(Fields)
          /\ memory \in [1 .. m -> Seq(Fields)] /\ BufferOK(b, n)
          /\ \A k \in 1 .. m : BufferOK(memory[k], k)
      BY <2>1, <2>2, <2>3 DEF StackOK, n, m
    <2>5. memory' \in [1 .. m -> Seq(Fields)]
      BY <2>4
    <2>6. ASSUME NEW k \in 1 .. m PROVE BufferOK(memory'[k], k)
      <3>1. memory'[k] = IF k = n THEN b ELSE memory[k]
        BY <2>4
      <3>2. QED
        BY <2>4, <3>1
    <2>7. QED
      BY <2>5, <2>6 DEF m
  <1>3. QED
    BY <1>1, <1>2, StackSteps

\* The stack stays as deep as the directories allow.
LEMMA StackStep ==
    ASSUME ArgumentsOK, StackOK, [Next]_vars
    PROVE  StackOK'
  <1>1. ASSUME NEW k \in 1 .. Len(frames') PROVE FrameOK(frames'[k], k)
    <2>1. CASE k \in 1 .. Len(frames) /\ frames'[k] = frames[k]
      BY <2>1 DEF StackOK
    <2>2. CASE k = Len(frames) /\ AtEntry /\ frames'[k] = [Top EXCEPT !.x = @ + 1]
      <3> DEFINE t == [Top EXCEPT !.x = @ + 1]
      <3>1. t \in FrameSet
        <4>1. Top \in FrameSet /\ Top.x + 1 \in Nat
          BY <2>2, EntryFacts DEF FrameSet
        <4>2. \A v \in Nat : [Top EXCEPT !.x = v] \in FrameSet
          BY <4>1 DEF FrameSet
        <4>3. QED
          BY <4>1, <4>2
      <3>2. t.buffer = Top.buffer /\ t.x = Top.x + 1 /\ t.begin = Top.begin
        BY <2>2, EntryFacts DEF FrameSet
      <3>3. t.x \in 1 .. Len(t.buffer) + 1
        BY <2>2, <3>2, EntryFacts
      <3> HIDE DEF t
      <3>4. FrameOK(t, k)
        BY <2>2, <3>1, <3>2, <3>3, EntryFacts DEF FrameOK
      <3>5. QED
        BY <2>2, <3>4 DEF t
    <2>3. CASE /\ k = Len(frames) + 1 /\ AtEntry /\ IsDir(Entry) /\ ~IsDots(Entry)
               /\ \E b \in Reads(FirstCluster(Entry)) : frames'[k] = Call(Entry, b)
      BY <2>3, ChildCall
    <2>4. CASE k = 1 /\ frames'[k] = RootFrame
      BY <2>4, RootCall
    <2>5. QED
      BY <2>1, <2>2, <2>3, <2>4, StackCases
  <1>2. disk' = disk /\ Levels' = Levels /\ \A c : Entries(c)' = Entries(c)
    BY ArgumentsKept, MeaningKept DEF arguments
  <1>3. QED
    BY <1>1, <1>2, StackCases, MemoryStep DEF StackOK, FrameOK, BufferOK

\* The walk begins with the root directory.
LEMMA InitStack == Init => StackOK
  <1> SUFFICES ASSUME Init PROVE StackOK
    OBVIOUS
  <1>1. frames = <<RootFrame>>
    BY DEF Init
  <1>2. FrameOK(RootFrame, 1)
    BY InitArguments, RootCall
  <1>3. /\ memory \in [1 .. Levels + 1 -> Seq(Fields)]
        /\ \A k \in 1 .. Levels + 1 : BufferOK(memory[k], k)
    BY DEF Init, Levels, BufferOK
  <1>4. frames \in Seq(FrameSet) /\ Len(frames) = 1 /\ frames[1] = RootFrame
    BY <1>1, <1>2 DEF FrameOK
  <1>5. QED
    BY <1>2, <1>3, <1>4 DEF StackOK

\* get_cluster_num returns a number.
LEMMA ResultStep ==
    ASSUME ArgumentsOK, StackOK, result \in Nat, [Next]_vars
    PROVE  result' \in Nat
  <1>1. CASE Found
    <2>1. Entry \in Fields
      BY <1>1, EntryFacts DEF Found
    <2>2. Entry.start \in Nat
      BY <2>1 DEF Fields
    <2>3. FirstCluster(Entry) \in Nat
      BY <2>2 DEF FirstCluster
    <2>4. QED
      BY <1>1, <2>3 DEF Found
  <1>2. CASE ~Found
    BY <1>2 DEF Next, Step, vars, SearchBelow, SearchOn, ListRoot, List, ListBelow,
       ListOn, PrintBelow, PrintOn, TableEntry, TableEnd, EndOfCluster, PrintCluster,
       PrintRange, StartListing, Finish
  <1>3. QED
    BY <1>1, <1>2

BaseInv == ArgumentsOK /\ WalkOK /\ StackOK /\ result \in Nat

\* Arguments, stack and result are what they should be at every step.
LEMMA BaseInvariance == Spec => []BaseInv
  <1>1. Init => BaseInv
    BY InitArguments, InitStack DEF BaseInv, Init
  <1>2. BaseInv /\ [Next]_vars => BaseInv'
    BY StepArguments, StackStep, ResultStep DEF BaseInv
  <1>3. QED
    BY <1>1, <1>2, PTL DEF Spec

\* Every variable keeps its type, and the recursion goes no deeper than there are
\* directories on the disk, one call for a cluster that is none included.
THEOREM FatTypes == Spec => []FatTypeOK
  <1>1. BaseInv /\ TableInv => FatTypeOK
    <2> SUFFICES ASSUME BaseInv, TableInv PROVE FatTypeOK
      OBVIOUS
    <2>1. walk \in {FirstWalk[o] : o \in Options} \cup {"print_files_path", "done"}
      BY DEF BaseInv, ArgumentsOK, WalkOK
    <2>2. \A k \in 1 .. Len(frames) :
             /\ frames[k].x \in 1 .. Len(frames[k].buffer) + 1
             /\ Len(frames[k].begin) = k - 1
      BY DEF BaseInv, StackOK, FrameOK
    <2>3. Len(frames) <= Levels + 1
      <3>1. Len(frames) \in Nat /\ Levels \in Nat
        BY DiskFacts DEF BaseInv, StackOK
      <3>2. CASE Len(frames) = 0
        BY <3>1, <3>2
      <3>3. CASE Len(frames) > 0
        <4>1. Len(frames) \in 1 .. Len(frames)
          BY <3>1, <3>3
        <4>2. QED
          BY <4>1 DEF BaseInv, StackOK, FrameOK
      <3>4. QED
        BY <3>1, <3>2, <3>3
    <2>4. QED
      BY <2>1, <2>2, <2>3 DEF FatTypeOK, BaseInv, ArgumentsOK, StackOK, TableInv, TableTyped, Levels
  <1>2. QED
    BY <1>1, BaseInvariance, TableInvariance, PTL

-----------------------------------------------------------------------------
(* What a path means *)

\* The directories with the k-th text of the path in directories dirs.
Lead(dirs, k) == {e.start : e \in {x \in Named(dirs, path[k]) : x.attr = "dir"}}

IsDirsAt(f, n) ==
    f = [k \in 0 .. n |-> IF k = 0 THEN {Root} ELSE Lead(f[k - 1], k)]

\* The recursion of DirsAt has a solution, for as many texts as there may be.
LEMMA DirsAtExists == \A n \in Nat : \E f : IsDirsAt(f, n)
  <1> DEFINE Q == {n \in Nat : \E f : IsDirsAt(f, n)}
  <1>1. 0 \in Q
    <2>1. IsDirsAt([k \in 0 .. 0 |-> {Root}], 0)
      BY DEF IsDirsAt
    <2>2. QED
      BY <2>1
  <1>2. ASSUME NEW n \in Nat, n \in Q PROVE n + 1 \in Q
    <2>1. PICK f : IsDirsAt(f, n)
      BY <1>2
    <2> DEFINE g == [k \in 0 .. n + 1 |-> IF k <= n THEN f[k] ELSE Lead(f[n], n + 1)]
    <2>2. ASSUME NEW k \in 0 .. n + 1
          PROVE  g[k] = IF k = 0 THEN {Root} ELSE Lead(g[k - 1], k)
      <3>1. CASE k = 0
        <4>1. 0 \in 0 .. n
          OBVIOUS
        <4>2. f[0] = {Root}
          BY <2>1, <4>1 DEF IsDirsAt
        <4>3. QED
          BY <3>1, <4>2
      <3>2. CASE k \in 1 .. n
        <4>1. k \in 0 .. n /\ k - 1 \in 0 .. n /\ k # 0
          BY <3>2
        <4>2. f[k] = Lead(f[k - 1], k)
          BY <2>1, <4>1 DEF IsDirsAt
        <4>3. g[k] = f[k] /\ g[k - 1] = f[k - 1]
          BY <4>1
        <4>4. QED
          BY <4>1, <4>2, <4>3
      <3>3. CASE k = n + 1
        <4>1. g[k] = Lead(f[n], n + 1) /\ g[k - 1] = f[n] /\ k # 0
          BY <3>3
        <4>2. QED
          BY <3>3, <4>1
      <3>4. QED
        BY <3>1, <3>2, <3>3
    <2>3. g = [k \in 0 .. n + 1 |-> IF k = 0 THEN {Root} ELSE Lead(g[k - 1], k)]
      <3> HIDE DEF g
      <3>1. g = [k \in 0 .. n + 1 |-> g[k]]
        BY DEF g
      <3>2. QED
        BY <2>2, <3>1
    <2>4. IsDirsAt(g, n + 1)
      BY <2>3 DEF IsDirsAt
    <2> HIDE DEF g
    <2>5. QED
      BY <2>4
  <1> HIDE DEF Q
  <1>3. \A n \in Nat : n \in Q
    BY <1>1, <1>2, NatSetInduction
  <1>4. QED
    BY <1>3 DEF Q

\* DirsAt, text by text.
LEMMA DirsAtUnfold ==
    ASSUME ArgumentsOK
    PROVE  /\ DirsAt[0] = {Root}
           /\ \A k \in 1 .. Len(path) : DirsAt[k] = Lead(DirsAt[k - 1], k)
  <1>1. Len(path) \in Nat
    BY PathFacts
  <1>2. DirsAt = CHOOSE f : IsDirsAt(f, Len(path))
    BY DEF DirsAt, IsDirsAt, Lead
  <1>3. IsDirsAt(DirsAt, Len(path))
    BY <1>1, <1>2, DirsAtExists
  <1>4. 0 \in 0 .. Len(path)
    BY <1>1
  <1>5. DirsAt = [k \in 0 .. Len(path) |-> IF k = 0 THEN {Root} ELSE Lead(DirsAt[k - 1], k)]
    BY <1>3 DEF IsDirsAt
  <1>6. ASSUME NEW k \in 1 .. Len(path) PROVE DirsAt[k] = Lead(DirsAt[k - 1], k)
    <2>1. k \in 0 .. Len(path) /\ k # 0
      BY <1>1
    <2>2. QED
      BY <1>5, <2>1, Zenon
  <1>7. DirsAt[0] = {Root}
    BY <1>4, <1>5, Zenon
  <1>8. QED
    BY <1>6, <1>7

\* What is assumed of the entries that a path may mean.
LEMMA LiveFacts ==
    ASSUME ArgumentsOK
    PROVE  \A c : \A e \in LiveIn(c) :
              IsLive(e) /\ IsEntry(e) /\ e \in Fields /\ e.start < disk.size
  BY DiskFacts DEF LiveIn, EntriesOf, IsEntry

\* The directories that a path leads to have numbers of clusters of the disk.
LEMMA DirsAtPlace ==
    ASSUME ArgumentsOK
    PROVE  \A k \in 0 .. Len(path) : \A c \in DirsAt[k] : c \in 0 .. disk.size - 1 /\ c % Wrap = c
  <1> SUFFICES ASSUME NEW k \in 0 .. Len(path), NEW c \in DirsAt[k] PROVE c \in 0 .. disk.size - 1
    BY ClusterPlace
  <1>1. CASE k = 0
    <2>1. c = Root
      BY <1>1, DirsAtUnfold
    <2>2. QED
      BY <2>1, DiskFacts
  <1>2. CASE k # 0
    <2>1. k \in 1 .. Len(path)
      BY <1>2, PathFacts
    <2>2. PICK e \in Named(DirsAt[k - 1], path[k]) : c = e.start
      BY <2>1, DirsAtUnfold DEF Lead
    <2>3. e \in Fields /\ e.start < disk.size
      BY <2>2, LiveFacts DEF Named
    <2>4. e.start \in Nat /\ disk.size \in Nat
      <3>1. disk.size \in Nat
        BY ClusterPlace
      <3>2. QED
        BY <2>3, <3>1 DEF Fields
    <2>5. QED
      BY <2>2, <2>3, <2>4
  <1>3. QED
    BY <1>1, <1>2

\* Only first clusters below 256 are found again, and 0.
LEMMA ClusterFacts ==
    ASSUME NEW e \in Fields
    PROVE  /\ e.start \in Nat /\ FirstCluster(e) \in Nat
           /\ e.start < 256 => FirstCluster(e) = e.start
           /\ FirstCluster(e) = 0 => e.start = 0
  <1>1. e.start \in Nat
    BY DEF Fields
  <1>2. e.start < 256 => FirstCluster(e) = e.start
    BY <1>1 DEF FirstCluster
  <1>3. e.start >= 256 => FirstCluster(e) >= 65536
    BY <1>1 DEF FirstCluster
  <1>4. FirstCluster(e) \in Nat
    BY <1>1 DEF FirstCluster
  <1>5. QED
    BY <1>1, <1>2, <1>3, <1>4

\* Such a cluster is read.
LEMMA SmallRead ==
    ASSUME ArgumentsOK, NEW e \in Fields, e.start < 256, e.start < disk.size
    PROVE  /\ FirstCluster(e) = e.start /\ FirstCluster(e) % Wrap = e.start
           /\ Readable(FirstCluster(e))
           /\ Reads(FirstCluster(e)) = {Entries(e.start)}
           /\ Unchecked(FirstCluster(e)) = {Entries(e.start)}
  <1>1. e.start \in Nat /\ FirstCluster(e) = e.start
    BY ClusterFacts
  <1>2. e.start \in 0 .. disk.size - 1
    <2>1. disk.size \in Nat
      BY ClusterPlace
    <2>2. QED
      BY <1>1, <2>1
  <1>3. e.start % Wrap = e.start /\ Readable(e.start)
    BY <1>2, ClusterPlace
  <1>4. QED
    BY <1>1, <1>3 DEF Reads, Unchecked

\* The texts that the program makes of entries.
LEMMA TextTypes ==
    ASSUME NEW e \in Fields
    PROVE  DirText(e) \in Texts /\ FileText(e) \in Texts
  <1>1. e.base \in STRING /\ e.ext \in Seq(Chars)
    BY DEF Fields
  <1>2. DirText(e) \in Texts
    BY <1>1 DEF DirText, Texts
  <1>3. [i \in 1 .. 3 |-> IF i <= Len(e.ext) THEN e.ext[i] ELSE Blank] \in Seq(Chars)
    <2>1. \A i \in 1 .. 3 : (IF i <= Len(e.ext) THEN e.ext[i] ELSE Blank) \in Chars
      BY <1>1 DEF Chars
    <2>2. QED
      BY <2>1
  <1>4. QED
    BY <1>1, <1>2, <1>3 DEF FileText, Texts

\* An entry with the text of a path is live and has this text for the user, too.
LEMMA TextMeans ==
    ASSUME ArgumentsOK, NEW c, NEW i \in 1 .. Len(Entries(c)), NEW k \in 1 .. Len(path),
           \/ IsFile(Entries(c)[i]) /\ FileText(Entries(c)[i]) = path[k]
           \/ IsDir(Entries(c)[i]) /\ DirText(Entries(c)[i]) = path[k]
    PROVE  /\ IsLive(Entries(c)[i]) /\ ~IsDots(Entries(c)[i])
           /\ Text(Entries(c)[i]) = path[k]
  <1> DEFINE e == Entries(c)[i]
  <1>1. IsEntry(e) /\ e \in Fields
    BY EntriesFacts
  <1>2. /\ path[k][1] \notin DotNames
        /\ e.deleted => e.base # path[k][1]
        /\ Len(path[k]) = 2 => \A m \in 1 .. Len(path[k][2]) : path[k][2][m] # Blank
    BY PathFacts, EntriesFacts
  <1> HIDE DEF e
  <1>3. CASE IsFile(e) /\ FileText(e) = path[k]
    <2> DEFINE padded == [m \in 1 .. 3 |-> IF m <= Len(e.ext) THEN e.ext[m] ELSE Blank]
    <2>1. path[k] = <<e.base, padded>>
      BY <1>3 DEF FileText
    <2>2. padded \in Seq(Chars) /\ Len(padded) = 3
      <3>1. \A m \in 1 .. 3 : padded[m] \in Chars
        BY <1>1 DEF Fields, Chars
      <3>2. QED
        BY <3>1
    <2>3. e.ext \in Seq(Chars) /\ Len(e.ext) <= 3 /\ Len(e.ext) \in Nat
      BY <1>1 DEF IsEntry, Fields
    <2>4. \A m \in 1 .. 3 : padded[m] # Blank
      <3> HIDE DEF padded
      <3>1. Len(path[k]) = 2 /\ path[k][2] = padded
        BY <2>1
      <3>2. QED
        BY <1>2, <2>2, <3>1
    <2>5. Len(e.ext) = 3
      <3>1. padded[3] # Blank
        BY <2>4
      <3>2. 3 <= Len(e.ext)
        BY <3>1
      <3> DEFINE n == Len(e.ext)
      <3>3. n \in Nat /\ n <= 3 /\ 3 <= n
        BY <2>3, <3>2
      <3> HIDE DEF n
      <3>4. n = 3
        BY <3>3
      <3>5. QED
        BY <3>4 DEF n
    <2>6. padded = e.ext
      BY <2>3, <2>5
    <2>7. e.ext # << >>
      <3> HIDE DEF padded
      <3>1. Len(<< >>) # 3
        OBVIOUS
      <3>2. QED
        BY <2>5, <3>1, Zenon
    <2> HIDE DEF padded
    <2>8. Text(e) = path[k]
      BY <2>1, <2>6, <2>7 DEF Text
    <2>9. path[k][1] = e.base
      BY <2>1
    <2>10. QED
      BY <1>2, <1>3, <2>8, <2>9 DEF IsLive, IsDots, IsFile, e
  <1>4. CASE IsDir(e) /\ DirText(e) = path[k]
    <2>1. path[k] = <<e.base>> /\ path[k][1] = e.base
      BY <1>4 DEF DirText
    <2>2. Text(e) = path[k]
      BY <1>1, <1>4, <2>1 DEF Text, IsEntry, IsDir
    <2>3. QED
      BY <1>2, <1>4, <2>1, <2>2 DEF IsLive, IsDots, IsDir, e
  <1>5. QED
    BY <1>3, <1>4 DEF e

\* Conversely, for an entry that is read as it should be.
LEMMA PlainText ==
    ASSUME NEW e, IsEntry(e), IsLive(e), Plain(e)
    PROVE  /\ IsFile(e) \/ IsDir(e)
           /\ IsFile(e) => FileText(e) = Text(e)
           /\ IsDir(e) => DirText(e) = Text(e)
  <1>1. e \in Fields /\ e.ext \in Seq(Chars) /\ e.attr \in {"file", "dir", "label"}
    BY DEF IsEntry, Fields
  <1>2. IsFile(e) \/ IsDir(e)
    BY <1>1 DEF IsLive, IsFile, IsDir, Plain
  <1>3. IsDir(e) => DirText(e) = Text(e)
    BY DEF IsEntry, IsDir, DirText, Text
  <1>4. ASSUME IsFile(e) PROVE FileText(e) = Text(e)
    <2>1. Len(e.ext) = 3
      BY <1>4 DEF Plain, IsFile
    <2>2. [m \in 1 .. 3 |-> IF m <= Len(e.ext) THEN e.ext[m] ELSE Blank] = e.ext
      BY <1>1, <2>1
    <2>3. e.ext # << >>
      BY <2>1
    <2>4. QED
      BY <2>2, <2>3 DEF FileText, Text
  <1>5. QED
    BY <1>2, <1>3, <1>4

\* The directories of a plain path are where the program looks for them.
LEMMA PlainLeads == ArgumentsOK /\ PlainPath => PlainDirs
  <1> SUFFICES ASSUME ArgumentsOK, PlainPath, NEW k \in 1 .. Len(path), NEW c \in DirsAt[k]
               PROVE  c < 256
    BY DEF PlainDirs
  <1>1. PICK e \in Named(DirsAt[k - 1], path[k]) : c = e.start
    BY DirsAtUnfold DEF Lead
  <1>2. QED
    BY <1>1 DEF PlainPath, Plain

-----------------------------------------------------------------------------
(* What is found is what the path means *)

\* The texts of a call so far are those of the path.
OnPath(begin) ==
    /\ Len(begin) <= Len(path)
    /\ \A i \in 1 .. Len(begin) : begin[i] = path[i]

\* A call with texts of the path reads a directory that they lead to.
FrameSound(f) ==
    OnPath(f.begin) /\ f.buffer # << >> =>
        \E c \in DirsAt[Len(f.begin)] : f.buffer = Entries(c)

StackSound == \A k \in 1 .. Len(frames) : FrameSound(frames[k])

\* The text of the entry completes the path if it is the last one.
LEMMA Completes ==
    ASSUME ArgumentsOK, StackOK, AtEntry, NEW text \in Texts
    PROVE  Here(text) = path <=>
              OnPath(Top.begin) /\ Len(frames) = Len(path) /\ text = path[Len(path)]
  <1>1. /\ Top.begin \in Seq(Texts) /\ Len(Top.begin) = Len(frames) - 1
        /\ Len(frames) \in Nat \ {0}
    BY EntryFacts
  <1>2. path \in Seq(Texts) /\ Len(path) \in Nat
    BY PathFacts
  <1>3. /\ Here(text) \in Seq(Texts) /\ Len(Here(text)) = Len(frames)
        /\ \A i \in 1 .. Len(frames) - 1 : Here(text)[i] = Top.begin[i]
        /\ Here(text)[Len(frames)] = text
    BY <1>1 DEF Here
  <1>4. ASSUME Here(text) = path
        PROVE  OnPath(Top.begin) /\ Len(frames) = Len(path) /\ text = path[Len(path)]
    BY <1>1, <1>2, <1>3, <1>4 DEF OnPath
  <1>5. ASSUME OnPath(Top.begin), Len(frames) = Len(path), text = path[Len(path)]
        PROVE  Here(text) = path
    <2>1. ASSUME NEW i \in 1 .. Len(path) PROVE Here(text)[i] = path[i]
      BY <1>1, <1>2, <1>3, <1>5 DEF OnPath
    <2>2. QED
      BY <1>2, <1>3, <1>5, <2>1
  <1>6. QED
    BY <1>4, <1>5

\* In a directory of the path, an entry that has the next text is named by it.
LEMMA EntryNamed ==
    ASSUME ArgumentsOK, StackOK, StackSound, AtEntry,
           OnPath(Top.begin), Len(frames) <= Len(path),
           \/ IsFile(Entry) /\ FileText(Entry) = path[Len(frames)]
           \/ IsDir(Entry) /\ DirText(Entry) = path[Len(frames)]
    PROVE  Entry \in Named(DirsAt[Len(frames) - 1], path[Len(frames)])
  <1>1. /\ Len(frames) \in Nat \ {0} /\ Len(Top.begin) = Len(frames) - 1
        /\ Top.x \in 1 .. Len(Top.buffer) /\ Top.buffer # << >>
    BY EntryFacts
  <1>2. FrameSound(Top)
    BY <1>1 DEF StackSound, Top
  <1>3. PICK c \in DirsAt[Len(frames) - 1] : Top.buffer = Entries(c)
    BY <1>1, <1>2 DEF FrameSound
  <1>4. Len(frames) \in 1 .. Len(path)
    <2>1. Len(path) \in Nat
      BY PathFacts
    <2>2. QED
      BY <1>1, <2>1
  <1>5. /\ IsLive(Entry) /\ ~IsDots(Entry) /\ Text(Entry) = path[Len(frames)]
    BY <1>1, <1>3, <1>4, TextMeans DEF Entry
  <1>6. Entry \in LiveIn(c)
    <2>1. Len(frames) - 1 \in 0 .. Len(path)
      BY <1>1, <1>4, PathFacts
    <2>2. c % Wrap = c
      BY <2>1, DirsAtPlace
    <2>3. Top.x \in 1 .. Len(Directory(c)) /\ Entry = Directory(c)[Top.x]
      BY <1>1, <1>3, <2>2, EntriesFacts DEF Entry
    <2>4. QED
      BY <1>5, <2>3 DEF LiveIn, EntriesOf
  <1>7. QED
    BY <1>3, <1>5, <1>6 DEF Named

\* A match is an entry that the path means.
LEMMA MatchDenoted ==
    ASSUME ArgumentsOK, StackOK, StackSound, AtEntry,
           FoundFile(Entry) \/ FoundDir(Entry) \/ Lists(Entry)
    PROVE  Entry \in Denoted /\ path # << >>
  <1>1. FileText(Entry) \in Texts /\ DirText(Entry) \in Texts
    BY EntryFacts, TextTypes
  <1>2. /\ OnPath(Top.begin) /\ Len(frames) = Len(path)
        /\ \/ IsFile(Entry) /\ FileText(Entry) = path[Len(path)]
           \/ IsDir(Entry) /\ DirText(Entry) = path[Len(path)]
    BY <1>1, Completes DEF FoundFile, FoundDir, Lists
  <1>3. Len(path) \in Nat \ {0}
    BY <1>2, EntryFacts
  <1>4. path # << >>
    BY <1>3
  <1>5. QED
    BY <1>2, <1>3, <1>4, EntryNamed DEF Denoted

\* A directory that the path leads to is read by the number of its cluster.
LEMMA DirRead ==
    ASSUME ArgumentsOK, PlainDirs, NEW k \in 1 .. Len(path),
           NEW e \in Named(DirsAt[k - 1], path[k]), IsDir(e)
    PROVE  /\ e.start \in DirsAt[k] /\ FirstCluster(e) = e.start
           /\ Readable(FirstCluster(e))
           /\ Reads(FirstCluster(e)) = {Entries(e.start)}
           /\ Unchecked(FirstCluster(e)) = {Entries(e.start)}
  <1>1. e.start \in DirsAt[k]
    BY DirsAtUnfold DEF Lead, IsDir
  <1>2. e.start < 256
    BY <1>1 DEF PlainDirs
  <1>3. e \in Fields /\ e.start < disk.size
    BY LiveFacts DEF Named
  <1>4. QED
    BY <1>1, <1>2, <1>3, SmallRead

\* Every call keeps to the directories that the path leads to.
LEMMA SoundStep ==
    ASSUME ArgumentsOK, StackOK, PlainDirs, StackSound, [Next]_vars
    PROVE  StackSound'
  <1>1. ASSUME NEW k \in 1 .. Len(frames') PROVE FrameSound(frames'[k])
    <2>1. CASE k \in 1 .. Len(frames) /\ frames'[k] = frames[k]
      BY <2>1 DEF StackSound
    <2>2. CASE k = Len(frames) /\ AtEntry /\ frames'[k] = [Top EXCEPT !.x = @ + 1]
      <3>1. Top \in FrameSet /\ k \in 1 .. Len(frames) /\ Top = frames[k]
        BY <2>2, EntryFacts DEF Top
      <3>2. frames'[k].begin = Top.begin /\ frames'[k].buffer = Top.buffer
        BY <2>2, <3>1 DEF FrameSet
      <3>3. FrameSound(Top)
        BY <3>1 DEF StackSound
      <3>4. QED
        BY <3>2, <3>3 DEF FrameSound, OnPath
    <2>3. CASE /\ k = Len(frames) + 1 /\ AtEntry /\ IsDir(Entry) /\ ~IsDots(Entry)
               /\ \E b \in Reads(FirstCluster(Entry)) : frames'[k] = Call(Entry, b)
      <3> DEFINE n == Len(frames)
      <3>0. PICK b \in Reads(FirstCluster(Entry)) : frames'[k] = Call(Entry, b)
        BY <2>3
      <3>1. /\ n \in Nat \ {0} /\ Entry \in Fields /\ DirText(Entry) \in Texts
            /\ Top.begin \in Seq(Texts) /\ Len(Top.begin) = n - 1
        BY <2>3, EntryFacts
      <3>2. /\ Len(Here(DirText(Entry))) = n
            /\ \A i \in 1 .. n - 1 : Here(DirText(Entry))[i] = Top.begin[i]
            /\ Here(DirText(Entry))[n] = DirText(Entry)
        BY <3>1 DEF Here
      <3> SUFFICES ASSUME OnPath(Here(DirText(Entry)))
                   PROVE  \E c \in DirsAt[n] : b = Entries(c)
        BY <3>0, <3>2 DEF FrameSound, Call, Frame
      <3>3. OnPath(Top.begin) /\ n <= Len(path) /\ DirText(Entry) = path[n]
        <4>1. n <= Len(path) /\ \A i \in 1 .. n : Here(DirText(Entry))[i] = path[i]
          BY <3>2 DEF OnPath
        <4>2. n \in 1 .. n /\ \A i \in 1 .. n - 1 : i \in 1 .. n
          BY <3>1
        <4>3. DirText(Entry) = path[n]
          BY <3>2, <4>1, <4>2
        <4>4. \A i \in 1 .. n - 1 : Top.begin[i] = path[i]
          BY <3>2, <4>1, <4>2
        <4>5. n - 1 <= Len(path)
          BY <3>1, <4>1, PathFacts
        <4>6. QED
          BY <3>1, <4>1, <4>3, <4>4, <4>5 DEF OnPath
      <3>4. Entry \in Named(DirsAt[n - 1], path[n])
        BY <2>3, <3>3, EntryNamed
      <3>5. n \in 1 .. Len(path)
        <4>1. Len(path) \in Nat
          BY PathFacts
        <4>2. QED
          BY <3>1, <3>3, <4>1
      <3>6. Entry.start \in DirsAt[n] /\ Reads(FirstCluster(Entry)) = {Entries(Entry.start)}
        BY <2>3, <3>4, <3>5, DirRead
      <3>7. QED
        BY <3>6
    <2>4. CASE k = 1 /\ frames'[k] = RootFrame
      <3>1. Len(<< >>) = 0 /\ Root \in DirsAt[0]
        BY DirsAtUnfold
      <3>2. QED
        BY <2>4, <3>1 DEF FrameSound, RootFrame, Frame
    <2>5. QED
      BY <2>1, <2>2, <2>3, <2>4, StackCases
  <1>2. UNCHANGED arguments /\ (\A c : Entries(c)' = Entries(c)) /\ DirsAt' = DirsAt
    BY ArgumentsKept, MeaningKept
  <1>3. QED
    BY <1>1, <1>2 DEF StackSound, FrameSound, OnPath, arguments

ResultSound == result # 0 => \E e \in Denoted : result = FirstCluster(e)

\* A search returns 0, or the first cluster of an entry that the path means.
LEMMA ResultSoundStep ==
    ASSUME ArgumentsOK, StackOK, PlainDirs, StackSound, ResultSound, [Next]_vars
    PROVE  ResultSound'
  <1>1. CASE Found
    <2>1. AtEntry /\ (FoundFile(Entry) \/ FoundDir(Entry)) /\ result' = FirstCluster(Entry)
      BY <1>1 DEF Found
    <2>2. Entry \in Denoted
      BY <2>1, MatchDenoted
    <2>3. Denoted' = Denoted
      BY ArgumentsKept, MeaningKept
    <2>4. QED
      BY <2>1, <2>2, <2>3 DEF ResultSound
  <1>2. CASE ~Found
    <2>1. result' = result \/ result' = 0
      BY <1>2 DEF Next, Step, vars, SearchBelow, SearchOn, ListRoot, List, ListBelow,
         ListOn, PrintBelow, PrintOn, TableEntry, TableEnd, EndOfCluster, PrintCluster,
         PrintRange, StartListing, Finish
    <2>2. Denoted' = Denoted
      BY ArgumentsKept, MeaningKept
    <2>3. QED
      BY <2>1, <2>2 DEF ResultSound
  <1>3. QED
    BY <1>1, <1>2

-----------------------------------------------------------------------------
(* What the path means is found *)

\* Where the k-th entry of a route is.
Source(r, k) == IF k = 1 THEN Root ELSE FirstCluster(r[k - 1])

LiesIn(e, entries) == \E i \in 1 .. Len(entries) : entries[i] = e

\* The k-th entry of a route is a directory that the walk goes into.
Link(r, k) ==
    /\ LiesIn(r[k], Entries(Source(r, k)))
    /\ IsDir(r[k]) /\ ~IsDots(r[k]) /\ DirText(r[k]) = path[k]
    /\ Readable(FirstCluster(r[k]))

\* The entries that the walk meets on its way to a match.
Route(r) ==
    /\ Len(path) > 0
    /\ \A k \in 1 .. Len(path) - 1 : Link(r, k)
    /\ LET last == r[Len(path)]
       IN  /\ LiesIn(last, Entries(Source(r, Len(path))))
           /\ \/ IsFile(last) /\ FileText(last) = path[Len(path)]
              \/ IsDir(last) /\ ~IsDots(last) /\ DirText(last) = path[Len(path)]

\* What is live in a directory of a short path is read of it.
LEMMA ShortRead ==
    ASSUME ArgumentsOK, ShortPath, NEW k \in 0 .. Len(path) - 1, NEW c \in DirsAt[k],
           NEW e \in LiveIn(c)
    PROVE  LiesIn(e, Entries(c))
  <1>1. k \in 0 .. Len(path) /\ Fits(c)
    BY PathFacts DEF ShortPath
  <1>2. Entries(c) = Directory(c)
    BY <1>1, DirsAtPlace, EntriesFacts
  <1>3. QED
    BY <1>2 DEF LiveIn, EntriesOf, LiesIn

\* There is a route to every directory of a plain and short path.
LEMMA LinksExist ==
    ASSUME ArgumentsOK, PlainPath, ShortPath
    PROVE  \A n \in 0 .. Len(path) : \A c \in DirsAt[n] :
              \E r : /\ \A k \in 1 .. n : Link(r, k)
                     /\ c = Source(r, n + 1)
  <1> DEFINE Good(n) == \A c \in DirsAt[n] :
                            \E r : /\ DOMAIN r = 1 .. n
                                   /\ \A k \in 1 .. n : Link(r, k)
                                   /\ c = Source(r, n + 1)
             Q == {n \in Nat : n <= Len(path) => Good(n)}
  <1>0. Len(path) \in Nat
    BY PathFacts
  <1>1. 0 \in Q
    <2>1. ASSUME NEW c \in DirsAt[0]
          PROVE  \E r : /\ DOMAIN r = 1 .. 0 /\ \A k \in 1 .. 0 : Link(r, k)
                        /\ c = Source(r, 0 + 1)
      <3>1. c = Root
        BY DirsAtUnfold
      <3>2. DOMAIN << >> = 1 .. 0 /\ c = Source(<< >>, 0 + 1) /\ \A k \in 1 .. 0 : Link(<< >>, k)
        BY <3>1 DEF Source
      <3>3. QED
        BY <3>2
    <2>2. QED
      BY <2>1
  <1>2. ASSUME NEW n \in Nat, n \in Q PROVE n + 1 \in Q
    <2> SUFFICES ASSUME n + 1 <= Len(path), NEW c \in DirsAt[n + 1]
                 PROVE  \E r : /\ DOMAIN r = 1 .. n + 1
                               /\ \A k \in 1 .. n + 1 : Link(r, k)
                               /\ c = Source(r, n + 1 + 1)
      OBVIOUS
    <2>1. n + 1 \in 1 .. Len(path) /\ n + 1 - 1 = n /\ n <= Len(path)
      BY <1>0
    <2>2. DirsAt[n + 1] = Lead(DirsAt[n], n + 1)
      BY <2>1, DirsAtUnfold
    <2>3. PICK e \in Named(DirsAt[n], path[n + 1]) : e.attr = "dir" /\ c = e.start
      BY <2>2 DEF Lead
    <2>4. PICK c0 \in DirsAt[n] : e \in LiveIn(c0)
      BY <2>3 DEF Named
    <2>5. LiesIn(e, Entries(c0)) /\ IsLive(e) /\ ~IsDots(e) /\ Text(e) = path[n + 1]
      <3>1. n \in 0 .. Len(path) - 1
        BY <1>0, <2>1
      <3>2. LiesIn(e, Entries(c0))
        BY <2>4, <3>1, ShortRead
      <3>3. QED
        BY <2>3, <2>4, <3>2 DEF LiveIn, Named
    <2>6. IsEntry(e) /\ e \in Fields /\ e.start < disk.size
      BY <2>4, LiveFacts
    <2>7. Plain(e) /\ IsDir(e)
      BY <2>1, <2>3 DEF PlainPath, Plain, IsDir
    <2>8. FirstCluster(e) = c /\ Readable(FirstCluster(e))
      BY <2>3, <2>6, <2>7, SmallRead DEF Plain
    <2>9. DirText(e) = path[n + 1]
      BY <2>5, <2>6, <2>7, PlainText
    <2>10. PICK r0 : /\ DOMAIN r0 = 1 .. n
                     /\ \A k \in 1 .. n : Link(r0, k)
                     /\ c0 = Source(r0, n + 1)
      BY <1>2, <2>1, <2>4
    <2> DEFINE r == [k \in 1 .. n + 1 |-> IF k <= n THEN r0[k] ELSE e]
    <2>11. /\ \A k \in 1 .. n : r[k] = r0[k]
           /\ r[n + 1] = e /\ DOMAIN r = 1 .. n + 1
      OBVIOUS
    <2> HIDE DEF r
    <2>12. ASSUME NEW k \in 1 .. n PROVE Link(r, k)
      <3>1. r[k] = r0[k] /\ Source(r, k) = Source(r0, k)
        BY <2>11 DEF Source
      <3>2. QED
        BY <2>10, <3>1 DEF Link
    <2>13. Link(r, n + 1)
      <3>1. Source(r, n + 1) = Source(r0, n + 1)
        <4>1. CASE n = 0
          BY <4>1 DEF Source
        <4>2. CASE n # 0
          BY <2>11, <4>2 DEF Source
        <4>3. QED
          BY <4>1, <4>2
      <3>2. QED
        BY <2>5, <2>7, <2>8, <2>9, <2>10, <2>11, <3>1 DEF Link
    <2>14. c = Source(r, n + 1 + 1)
      BY <2>8, <2>11 DEF Source
    <2>15. \A k \in 1 .. n + 1 : Link(r, k)
      BY <2>12, <2>13
    <2>16. QED
      BY <2>11, <2>14, <2>15
  <1> HIDE DEF Q
  <1>3. \A n \in Nat : n \in Q
    BY <1>1, <1>2, NatSetInduction
  <1>4. QED
    BY <1>0, <1>3 DEF Q

\* What a plain path means is found by its number.
LEMMA DenotedFacts ==
    ASSUME ArgumentsOK, PlainPath, NEW e \in Denoted
    PROVE  /\ Len(path) \in Nat \ {0} /\ e \in Named(DirsAt[Len(path) - 1], path[Len(path)])
           /\ FirstCluster(e) = e.start /\ FirstCluster(e) % Wrap = e.start
           /\ Readable(FirstCluster(e)) /\ Unchecked(FirstCluster(e)) = {Entries(e.start)}
           /\ IsEntry(e) /\ IsLive(e) /\ ~IsDots(e)
           /\ IsFile(e) \/ IsDir(e)
           /\ IsFile(e) => FileText(e) = path[Len(path)]
           /\ IsDir(e) => DirText(e) = path[Len(path)]
  <1> DEFINE n == Len(path)
  <1>1. n \in Nat \ {0} /\ e \in Named(DirsAt[n - 1], path[n])
    <2>1. path # << >>
      BY DEF Denoted
    <2>2. path \in Seq(Texts)
      BY PathFacts
    <2>3. QED
      BY <2>1, <2>2 DEF Denoted
  <1>2. /\ IsEntry(e) /\ e \in Fields /\ e.start < disk.size /\ IsLive(e)
        /\ ~IsDots(e) /\ Text(e) = path[n]
    BY <1>1, LiveFacts DEF Named
  <1>3. Plain(e)
    BY <1>1 DEF PlainPath
  <1>4. QED
    BY <1>1, <1>2, <1>3, SmallRead, PlainText DEF Plain

\* There is a route to everything that a plain and short path means.
LEMMA RouteExists ==
    ASSUME ArgumentsOK, PlainPath, ShortPath, NEW e \in Denoted
    PROVE  \E r : Route(r) /\ r[Len(path)] = e
  <1> DEFINE n == Len(path)
  <1>1. n \in Nat \ {0} /\ e \in Named(DirsAt[n - 1], path[n])
    BY DenotedFacts
  <1>2. PICK c0 \in DirsAt[n - 1] : e \in LiveIn(c0)
    BY <1>1 DEF Named
  <1>3. LiesIn(e, Entries(c0)) /\ ~IsDots(e)
    <2>1. n - 1 \in 0 .. Len(path) - 1
      BY <1>1
    <2>2. QED
      BY <1>2, <2>1, ShortRead, DenotedFacts
  <1>7. /\ IsFile(e) \/ IsDir(e)
        /\ IsFile(e) => FileText(e) = path[n]
        /\ IsDir(e) => DirText(e) = path[n]
    BY DenotedFacts
  <1>8. PICK r0 : /\ \A k \in 1 .. n - 1 : Link(r0, k)
                  /\ c0 = Source(r0, n - 1 + 1)
    BY <1>1, <1>2, LinksExist
  <1> DEFINE r == [k \in 1 .. n |-> IF k <= n - 1 THEN r0[k] ELSE e]
  <1> HIDE DEF n
  <1>9. /\ \A k \in 1 .. n - 1 : r[k] = r0[k]
        /\ r[n] = e
    BY <1>1
  <1> HIDE DEF r
  <1>10. ASSUME NEW k \in 1 .. n - 1 PROVE Link(r, k)
    <2>1. r[k] = r0[k] /\ Source(r, k) = Source(r0, k)
      BY <1>1, <1>9 DEF Source
    <2>2. QED
      BY <1>8, <2>1 DEF Link
  <1>11. c0 = Source(r, n)
    <2>1. CASE n = 1
      BY <1>8, <2>1 DEF Source
    <2>2. CASE n # 1
      BY <1>1, <1>8, <1>9, <2>2 DEF Source
    <2>3. QED
      BY <2>1, <2>2
  <1>12. Route(r)
    BY <1>1, <1>3, <1>7, <1>9, <1>10, <1>11 DEF Route, n
  <1>13. QED
    BY <1>9, <1>12 DEF n

\* The next entry of the route is still ahead of one of the calls.
Ahead(f, r, k) ==
    /\ k <= Len(path)
    /\ OnPath(f.begin)
    /\ f.buffer = Entries(Source(r, k))
    /\ \E i \in f.x .. Len(f.buffer) : f.buffer[i] = r[k]

Pending(r) == \E k \in 1 .. Len(frames) : Ahead(frames[k], r, k)

\* It is ahead when the directory that it is in is entered.
LEMMA AheadAtFirst ==
    ASSUME ArgumentsOK, NEW r, Route(r), NEW k \in 1 .. Len(path),
           NEW f, f.x = 1, f.buffer = Entries(Source(r, k)), OnPath(f.begin)
    PROVE  Ahead(f, r, k)
  <1>1. Len(path) \in Nat
    BY PathFacts
  <1>2. LiesIn(r[k], Entries(Source(r, k)))
    <2>1. CASE k = Len(path)
      BY <2>1 DEF Route
    <2>2. CASE k \in 1 .. Len(path) - 1
      BY <2>2 DEF Route, Link
    <2>3. QED
      BY <1>1, <2>1, <2>2
  <1>3. QED
    BY <1>1, <1>2 DEF Ahead, LiesIn

\* The end of a call passes nothing over.
LEMMA PendingBelow ==
    ASSUME ArgumentsOK, StackOK, NEW r, Pending(r), EndOfCluster
    PROVE  \E k \in 1 .. Len(frames') : Ahead(frames'[k], r, k)
  <1>1. Walking /\ Top.x > Len(Top.buffer) /\ frames' = Below /\ frames # << >>
    BY DEF EndOfCluster, Walking
  <1>2. /\ Len(frames) \in Nat \ {0} /\ Len(Below) = Len(frames) - 1
        /\ \A k \in 1 .. Len(Below) : Below[k] = frames[k]
        /\ Top \in FrameSet
    BY <1>1, StackOps DEF StackOK
  <1>3. PICK k \in 1 .. Len(frames) : Ahead(frames[k], r, k)
    BY DEF Pending
  <1>4. k # Len(frames)
    <2> SUFFICES ASSUME k = Len(frames) PROVE FALSE
      OBVIOUS
    <2>1. \E i \in Top.x .. Len(Top.buffer) : TRUE
      BY <1>3 DEF Ahead, Top
    <2>2. Top.x \in Nat /\ Len(Top.buffer) \in Nat
      BY <1>2 DEF FrameSet
    <2>3. QED
      BY <1>1, <2>1, <2>2
  <1>5. k \in 1 .. Len(Below) /\ Below[k] = frames[k]
    BY <1>2, <1>4
  <1>6. QED
    BY <1>1, <1>3, <1>5

\* A walk that does not stop at an entry passes it over only if the route does
\* not go on there.
LEMMA PendingOn ==
    ASSUME ArgumentsOK, StackOK, NEW r, Route(r), Pending(r), AtEntry,
           \/ SearchBelow \/ SearchOn
           \/ (ListBelow \/ ListOn) /\ IsDir(r[Len(path)])
    PROVE  \E k \in 1 .. Len(frames') : Ahead(frames'[k], r, k)
  <1> DEFINE n == Len(frames)
  <1>1. /\ n \in Nat \ {0} /\ Top \in FrameSet /\ Top = frames[n]
        /\ Top.x \in 1 .. Len(Top.buffer) /\ Len(Top.begin) = n - 1
        /\ Top.begin \in Seq(Texts) /\ Top.buffer \in Seq(Fields) /\ frames # << >>
    BY EntryFacts DEF Top, AtEntry, Walking
  <1>2. Len(path) \in Nat
    BY PathFacts
  <1>3. /\ Entry \in Fields /\ DirText(Entry) \in Texts /\ FileText(Entry) \in Texts
    BY EntryFacts, TextTypes
  <1>4. \/ frames' = Advanced /\ (IsDir(Entry) => IsDots(Entry))
        \/ /\ IsDir(Entry) /\ ~IsDots(Entry)
           /\ \E b \in Reads(FirstCluster(Entry)) : frames' = Append(Advanced, Call(Entry, b))
    BY DEF SearchBelow, SearchOn, ListBelow, ListOn, Enter, Entered, Call
  <1>5. /\ Len(Advanced) = n /\ Advanced \in Seq(FrameSet)
        /\ \A k \in 1 .. n : Advanced[k] = IF k = n THEN [Top EXCEPT !.x = @ + 1] ELSE frames[k]
    BY <1>1, StackOps DEF StackOK
  <1>6. /\ Len(frames') \in Nat /\ Len(frames') >= n
        /\ \A k \in 1 .. n : frames'[k] = Advanced[k]
    <2>1. CASE frames' = Advanced
      BY <1>1, <1>5, <2>1
    <2>2. CASE /\ IsDir(Entry) /\ ~IsDots(Entry)
               /\ \E b \in Reads(FirstCluster(Entry)) : frames' = Append(Advanced, Call(Entry, b))
      <3>1. PICK b \in Reads(FirstCluster(Entry)) : frames' = Append(Advanced, Call(Entry, b))
        BY <2>2
      <3>2. Call(Entry, b) \in FrameSet
        BY <2>2, ChildCall DEF FrameOK
      <3>3. QED
        BY <1>1, <1>5, <3>1, <3>2
    <2>3. QED
      BY <1>4, <2>1, <2>2
  <1>7. PICK k \in 1 .. n : Ahead(frames[k], r, k)
    BY DEF Pending
  <1>8. k \in 1 .. Len(frames') /\ frames'[k] = Advanced[k]
    BY <1>1, <1>6, <1>7
  <1>9. CASE k # n
    <2>1. frames'[k] = frames[k]
      BY <1>1, <1>5, <1>8, <1>9
    <2>2. QED
      BY <1>7, <1>8, <2>1
  <1>10. CASE k = n
    <2>1. Ahead(Top, r, n)
      BY <1>1, <1>7, <1>10
    <2>2. PICK i \in Top.x .. Len(Top.buffer) : Top.buffer[i] = r[n]
      BY <2>1 DEF Ahead
    <2>3. CASE i # Top.x
      <3> DEFINE t == [Top EXCEPT !.x = @ + 1]
      <3>1. t.x = Top.x + 1 /\ t.buffer = Top.buffer /\ t.begin = Top.begin
        BY <1>1 DEF FrameSet
      <3>2. frames'[n] = t
        BY <1>1, <1>5, <1>8, <1>10
      <3> HIDE DEF t
      <3>3. i \in t.x .. Len(t.buffer)
        BY <1>1, <2>2, <2>3, <3>1
      <3>4. Ahead(t, r, n)
        BY <2>1, <2>2, <3>1, <3>3 DEF Ahead
      <3>5. QED
        BY <1>8, <1>10, <3>2, <3>4
    <2>4. CASE i = Top.x
      <3>1. Entry = r[n] /\ OnPath(Top.begin) /\ n <= Len(path)
        BY <2>1, <2>2, <2>4 DEF Entry, Ahead
      <3>2. n # Len(path)
        <4> SUFFICES ASSUME n = Len(path) PROVE FALSE
          OBVIOUS
        <4>1. /\ Here(DirText(Entry)) = path <=> DirText(Entry) = path[n]
              /\ Here(FileText(Entry)) = path <=> FileText(Entry) = path[n]
          BY <1>3, <3>1, Completes
        <4>2. \/ IsFile(Entry) /\ FileText(Entry) = path[n]
              \/ IsDir(Entry) /\ ~IsDots(Entry) /\ DirText(Entry) = path[n]
          BY <3>1 DEF Route
        <4>3. FoundFile(Entry) \/ FoundDir(Entry)
          BY <4>1, <4>2 DEF FoundFile, FoundDir
        <4>4. IsDir(r[Len(path)]) => FoundDir(Entry) /\ Lists(Entry)
          BY <3>1, <4>1, <4>2 DEF FoundDir, Lists, IsFile, IsDir
        <4>5. QED
          BY <3>1, <4>3, <4>4 DEF SearchBelow, SearchOn, ListBelow, ListOn, FoundDir, FoundFile,
             IsFile, IsDir
      <3>3. Link(r, n) /\ n + 1 \in 1 .. Len(path)
        BY <1>1, <1>2, <3>1, <3>2 DEF Route
      <3>4. PICK b \in Reads(FirstCluster(Entry)) : frames' = Append(Advanced, Call(Entry, b))
        BY <1>4, <3>1, <3>3 DEF Link
      <3>5. Source(r, n + 1) = FirstCluster(Entry) /\ b = Entries(FirstCluster(Entry))
        BY <1>1, <3>1, <3>3, <3>4 DEF Source, Link, Reads, Unchecked
      <3>6. OnPath(Here(DirText(Entry)))
        <4>1. /\ Len(Here(DirText(Entry))) = n
              /\ \A m \in 1 .. n - 1 : Here(DirText(Entry))[m] = Top.begin[m]
              /\ Here(DirText(Entry))[n] = DirText(Entry)
          BY <1>1, <1>3 DEF Here
        <4>2. DirText(Entry) = path[n]
          BY <3>1, <3>3 DEF Link
        <4>3. ASSUME NEW m \in 1 .. n PROVE Here(DirText(Entry))[m] = path[m]
          BY <1>1, <3>1, <4>1, <4>2, <4>3 DEF OnPath
        <4>4. QED
          BY <3>1, <4>1, <4>3 DEF OnPath
      <3>7. Ahead(Call(Entry, b), r, n + 1)
        <4>1. /\ Call(Entry, b).x = 1 /\ Call(Entry, b).buffer = Entries(Source(r, n + 1))
              /\ OnPath(Call(Entry, b).begin)
          BY <3>5, <3>6 DEF Call, Frame
        <4>2. QED
          BY <3>3, <4>1, AheadAtFirst
      <3>8. frames'[n + 1] = Call(Entry, b) /\ n + 1 \in 1 .. Len(frames')
        <4>1. Call(Entry, b) \in FrameSet
          BY <3>1, <3>3, <3>4, ChildCall DEF FrameOK, Link
        <4>2. Advanced \in Seq(FrameSet) /\ Len(Advanced) = n
          BY <1>5
        <4> HIDE DEF n
        <4>3. /\ Len(Append(Advanced, Call(Entry, b))) = n + 1
              /\ Append(Advanced, Call(Entry, b))[n + 1] = Call(Entry, b)
          BY <4>1, <4>2, AppendProperties
        <4>4. QED
          BY <1>1, <3>4, <4>3
      <3>9. QED
        BY <3>7, <3>8
    <2>5. QED
      BY <2>3, <2>4
  <1>11. QED
    BY <1>9, <1>10

\* A match of an empty file ends one call only.
EmptyMatch == \E e \in Denoted : FirstCluster(e) = 0

\* A search that has found something makes no more calls.
SearchStops == Searching /\ result # 0 => frames = << >>

\* Until there is a result, every route is still ahead.
SearchComplete ==
    \A r : Route(r) => EmptyMatch \/ result # 0 \/ (Searching /\ Pending(r))

\* What is found is known as long as the walk keeps to the path.
SearchInv == SearchStops /\ (PlainDirs => StackSound /\ ResultSound /\ SearchComplete)

\* The meaning of routes is that of the disk and the path.
LEMMA RoutesKept ==
    ASSUME UNCHANGED arguments
    PROVE  /\ \A r : Route(r)' = Route(r)
           /\ \A f, r, k : Ahead(f, r, k)' = Ahead(f, r, k)
           /\ EmptyMatch' = EmptyMatch
  <1>1. (\A c : Entries(c)' = Entries(c)) /\ path' = path /\ Denoted' = Denoted
    BY MeaningKept DEF arguments
  <1>2. ASSUME NEW r, NEW k PROVE Link(r, k)' = Link(r, k)
    BY <1>1, MeaningKept DEF Link
  <1>3. ASSUME NEW r PROVE Route(r)' = Route(r)
    BY <1>1, <1>2 DEF Route
  <1>4. ASSUME NEW f, NEW r, NEW k PROVE Ahead(f, r, k)' = Ahead(f, r, k)
    BY <1>1 DEF Ahead, OnPath
  <1>5. EmptyMatch' = EmptyMatch
    BY <1>1 DEF EmptyMatch
  <1>6. QED
    BY <1>3, <1>4, <1>5

\* A search starts with every route ahead and nothing found.
LEMMA InitSearch == Init => SearchInv
  <1> SUFFICES ASSUME Init PROVE SearchInv
    OBVIOUS
  <1>1. ArgumentsOK /\ StackOK
    BY InitArguments, InitStack
  <1>2. frames = <<RootFrame>> /\ result = 0 /\ walk = FirstWalk[option]
    BY DEF Init
  <1>3. << >> \in Seq(Texts) /\ Len(<< >>) = 0
    OBVIOUS
  <1>4. StackSound
    <2>1. Root \in DirsAt[0]
      BY <1>1, DirsAtUnfold
    <2>2. FrameSound(RootFrame)
      BY <1>3, <2>1 DEF FrameSound, RootFrame, Frame
    <2>3. QED
      BY <1>2, <2>2 DEF StackSound
  <1>5. ASSUME NEW r, Route(r) PROVE Searching /\ Pending(r)
    <2>1. Len(path) > 0 /\ Len(path) \in Nat
      BY <1>1, <1>5, PathFacts DEF Route
    <2>2. path # << >>
      BY <1>3, <2>1
    <2>3. Searching
      BY <1>1, <1>2, <2>2, FirstWalks DEF ArgumentsOK, Searching
    <2>4. OnPath(<< >>)
      BY <1>3, <2>1 DEF OnPath
    <2>5. Ahead(RootFrame, r, 1)
      BY <1>1, <1>5, <2>1, <2>4, AheadAtFirst DEF RootFrame, Frame, Source
    <2>6. QED
      BY <1>2, <2>3, <2>5 DEF Pending
  <1>6. QED
    BY <1>2, <1>4, <1>5 DEF SearchInv, ResultSound, SearchStops, SearchComplete

\* The functions that do not search are others than those that do.
LEMMA StopsStep ==
    ASSUME ArgumentsOK, StackOK, SearchStops, [Next]_vars
    PROVE  SearchStops'
  <1>1. CASE Found
    BY <1>1 DEF Found, SearchStops, Searching
  <1>2. CASE SearchBelow \/ SearchOn
    <2>1. frames # << >> /\ Searching /\ UNCHANGED <<walk, result>>
      BY <1>2 DEF SearchBelow, SearchOn, AtEntry, Walking
    <2>2. QED
      BY <2>1 DEF SearchStops, Searching
  <1>3. CASE EndOfCluster
    BY <1>3 DEF EndOfCluster, SearchStops, Searching
  <1>4. CASE ListRoot \/ List \/ ListBelow \/ ListOn \/ PrintBelow \/ PrintOn \/ TableEntry
             \/ TableEnd \/ PrintCluster \/ PrintRange \/ StartListing \/ Finish
    <2>1. walk' \notin {"get_cluster_num", "get_cluster_data", "get_cluster_metadata"}
      BY <1>4 DEF ListRoot, List, ListBelow, ListOn, Listing, PrintBelow, PrintOn, Printing,
         TableEntry, TableEnd, PrintCluster, PrintRange, StartListing, Finish
    <2>2. QED
      BY <2>1 DEF SearchStops, Searching
  <1>5. CASE UNCHANGED vars
    BY <1>5 DEF vars, SearchStops, Searching
  <1>6. QED
    BY <1>1, <1>2, <1>3, <1>4, <1>5 DEF Next, Step

\* No step passes a route over without a result.
LEMMA CompleteStep ==
    ASSUME ArgumentsOK, StackOK, PlainDirs, SearchInv, [Next]_vars
    PROVE  SearchComplete'
  <1>1. /\ \A r : Route(r)' = Route(r)
        /\ \A f, r, k : Ahead(f, r, k)' = Ahead(f, r, k)
        /\ EmptyMatch' = EmptyMatch
    BY ArgumentsKept, RoutesKept
  <1>2. SUFFICES ASSUME NEW r, Route(r), ~EmptyMatch, result' = 0
                 PROVE  Searching' /\ \E k \in 1 .. Len(frames') : Ahead(frames'[k], r, k)
    <2>0. (\A c : Entries(c)' = Entries(c)) /\ path' = path
      BY ArgumentsKept, MeaningKept DEF arguments
    <2>1. ASSUME NEW r, NEW k \in 1 .. Len(frames'), Ahead(frames'[k], r, k)
          PROVE  Ahead(frames[k], r, k)'
      BY <2>0, <2>1 DEF Ahead, OnPath
    <2>2. ASSUME NEW r, \E k \in 1 .. Len(frames') : Ahead(frames'[k], r, k)
          PROVE  Pending(r)'
      BY <2>1, <2>2 DEF Pending
    <2>3. QED
      BY <1>1, <1>2, <2>2 DEF SearchComplete
  <1>3. result # 0 \/ (Searching /\ Pending(r))
    BY <1>2 DEF SearchInv, SearchComplete
  <1>4. Pending(r) => frames # << >>
    BY DEF Pending
  <1>5. CASE Found
    <2>1. AtEntry /\ (FoundFile(Entry) \/ FoundDir(Entry)) /\ FirstCluster(Entry) = 0
      BY <1>2, <1>5 DEF Found
    <2>2. Entry \in Denoted
      BY <2>1, MatchDenoted DEF SearchInv
    <2>3. QED
      BY <1>2, <2>1, <2>2 DEF EmptyMatch
  <1>6. CASE SearchBelow \/ SearchOn
    <2>1. AtEntry /\ Searching /\ UNCHANGED <<walk, result>>
      BY <1>6 DEF SearchBelow, SearchOn
    <2>2. Pending(r)
      BY <1>2, <1>3, <2>1
    <2>3. \E k \in 1 .. Len(frames') : Ahead(frames'[k], r, k)
      BY <1>2, <1>6, <2>1, <2>2, PendingOn
    <2>4. QED
      BY <2>1, <2>3 DEF Searching
  <1>7. CASE EndOfCluster
    <2>1. frames # << >> /\ walk' = walk /\ result' = IF Searching THEN 0 ELSE result
      BY <1>7 DEF EndOfCluster, Walking
    <2>2. Searching /\ Pending(r)
      BY <1>2, <1>3, <2>1 DEF SearchInv, SearchStops
    <2>3. QED
      BY <1>2, <1>7, <2>1, <2>2, PendingBelow DEF Searching
  <1>8. CASE ListRoot \/ List \/ ListBelow \/ ListOn \/ PrintBelow \/ PrintOn \/ TableEntry
             \/ TableEnd
    <2>1. ~Searching /\ result' = result
      BY <1>8 DEF ListRoot, List, ListBelow, ListOn, Listing, PrintBelow, PrintOn, Printing,
         TableEntry, TableEnd, Searching
    <2>2. QED
      BY <1>2, <1>3, <2>1
  <1>9. CASE PrintCluster \/ PrintRange \/ StartListing \/ Finish
    <2>1. frames = << >> /\ result' = result
      BY <1>9 DEF PrintCluster, PrintRange, StartListing, Finish, Returned
    <2>2. QED
      BY <1>2, <1>3, <1>4, <2>1
  <1>10. CASE UNCHANGED vars
    BY <1>2, <1>3, <1>10 DEF vars, Pending, Searching
  <1>11. QED
    BY <1>5, <1>6, <1>7, <1>8, <1>9, <1>10 DEF Next, Step

\* SearchInv holds at every step.
LEMMA SearchInvariance == Spec => []SearchInv
  <1>1. BaseInv /\ SearchInv /\ [Next]_vars => SearchInv'
    <2> SUFFICES ASSUME BaseInv, SearchInv, [Next]_vars PROVE SearchInv'
      OBVIOUS
    <2>1. PlainDirs' = PlainDirs
      BY ArgumentsKept, MeaningKept
    <2>2. SearchStops'
      BY StopsStep DEF BaseInv, SearchInv
    <2>3. ASSUME PlainDirs PROVE StackSound' /\ ResultSound' /\ SearchComplete'
      BY <2>3, SoundStep, ResultSoundStep, CompleteStep DEF BaseInv, SearchInv
    <2>4. QED
      BY <2>1, <2>2, <2>3 DEF SearchInv
  <1>2. QED
    BY <1>1, InitSearch, BaseInvariance, PTL DEF Spec

\* On every disk, for every path: as long as the directories on the path are below
\* cluster 256, what a search returns is the first cluster of an entry that the path
\* means, whatever deleted or reused directories it goes through and whatever reads
\* fail; and if all on the path is plain and short it misses nothing.
THEOREM SearchIsExact == Spec => []SearchExact
  <1>1. BaseInv /\ SearchInv => SearchExact
    <2> SUFFICES ASSUME BaseInv, SearchInv, walk = "done" PROVE SearchExact
      BY DEF SearchExact
    <2>1. PlainDirs /\ result # 0 => \E e \in Denoted : result = FirstCluster(e)
      BY DEF SearchInv, ResultSound
    <2>2. ASSUME PlainPath, ShortPath, Denoted # {} PROVE \E e \in Denoted : result = e.start
      <3>1. PlainDirs /\ \A e \in Denoted : FirstCluster(e) = e.start
        BY <2>2, DenotedFacts, PlainLeads DEF BaseInv
      <3>2. CASE result # 0
        BY <2>1, <3>1, <3>2
      <3>3. CASE result = 0
        <4>1. PICK e0 \in Denoted : TRUE
          BY <2>2
        <4>2. PICK r : Route(r)
          BY <2>2, <4>1, RouteExists DEF BaseInv
        <4>3. EmptyMatch
          BY <3>1, <3>3, <4>2 DEF SearchInv, SearchComplete, Searching
        <4>4. QED
          BY <3>1, <3>3, <4>3 DEF EmptyMatch
      <3>4. QED
        BY <3>2, <3>3
    <2>3. QED
      BY <2>1, <2>2 DEF SearchExact
  <1>2. QED
    BY <1>1, BaseInvariance, SearchInvariance, PTL

-----------------------------------------------------------------------------
(* A path means one entry at most *)

\* Live entries of a directory with the same text are the same.
LEMMA NamedOnce ==
    ASSUME ArgumentsOK, NEW c, NEW e \in LiveIn(c), NEW f \in LiveIn(c), Text(e) = Text(f)
    PROVE  e = f
  <1>1. PICK i \in 1 .. Len(Directory(c)) : Directory(c)[i] = e
    BY DEF LiveIn, EntriesOf
  <1>2. PICK j \in 1 .. Len(Directory(c)) : Directory(c)[j] = f
    BY DEF LiveIn, EntriesOf
  <1>3. IsLive(e) /\ IsLive(f)
    BY DEF LiveIn
  <1>4. <<e.base, e.ext>> = <<f.base, f.ext>>
    <2>1. CASE e.ext = << >> /\ f.ext = << >>
      <3>1. <<e.base>> = <<f.base>>
        BY <2>1 DEF Text
      <3>2. QED
        BY <2>1, <3>1
    <2>2. CASE e.ext # << >> /\ f.ext # << >>
      BY <2>2 DEF Text
    <2>3. CASE e.ext = << >> /\ f.ext # << >>
      <3>1. <<e.base>> = <<f.base, f.ext>>
        BY <2>3 DEF Text
      <3>2. QED
        BY <3>1
    <2>4. CASE e.ext # << >> /\ f.ext = << >>
      <3>1. <<e.base, e.ext>> = <<f.base>>
        BY <2>4 DEF Text
      <3>2. QED
        BY <3>1
    <2>5. QED
      BY <2>1, <2>2, <2>3, <2>4
  <1>5. i = j
    BY <1>1, <1>2, <1>3, <1>4, DiskFacts
  <1>6. QED
    BY <1>1, <1>2, <1>5

\* So a path leads to one directory at most.
LEMMA DirsAtOnce ==
    ASSUME ArgumentsOK
    PROVE  \A n \in 0 .. Len(path) : \A c, d \in DirsAt[n] : c = d
  <1> DEFINE Q == {n \in Nat : n <= Len(path) => \A c, d \in DirsAt[n] : c = d}
  <1>0. Len(path) \in Nat
    BY PathFacts
  <1>1. 0 \in Q
    BY DirsAtUnfold
  <1>2. ASSUME NEW n \in Nat, n \in Q PROVE n + 1 \in Q
    <2> SUFFICES ASSUME n + 1 <= Len(path), NEW c \in DirsAt[n + 1], NEW d \in DirsAt[n + 1]
                 PROVE  c = d
      OBVIOUS
    <2>1. n + 1 \in 1 .. Len(path) /\ n + 1 - 1 = n /\ n <= Len(path)
      BY <1>0
    <2>2. DirsAt[n + 1] = Lead(DirsAt[n], n + 1)
      BY <2>1, DirsAtUnfold
    <2>3. PICK e \in Named(DirsAt[n], path[n + 1]) : c = e.start
      BY <2>2 DEF Lead
    <2>4. PICK f \in Named(DirsAt[n], path[n + 1]) : d = f.start
      BY <2>2 DEF Lead
    <2>5. PICK a \in DirsAt[n] : e \in LiveIn(a)
      BY <2>3 DEF Named
    <2>6. PICK b \in DirsAt[n] : f \in LiveIn(b)
      BY <2>4 DEF Named
    <2>7. a = b /\ Text(e) = Text(f)
      BY <1>2, <2>1, <2>3, <2>4, <2>5, <2>6 DEF Named
    <2>8. e = f
      BY <2>5, <2>6, <2>7, NamedOnce
    <2>9. QED
      BY <2>3, <2>4, <2>8
  <1> HIDE DEF Q
  <1>3. \A n \in Nat : n \in Q
    BY <1>1, <1>2, NatSetInduction
  <1>4. QED
    BY <1>0, <1>3 DEF Q

\* And means one entry at most.
LEMMA DenotedOnce ==
    ASSUME ArgumentsOK, NEW e \in Denoted, NEW f \in Denoted
    PROVE  e = f
  <1> DEFINE n == Len(path)
  <1>1. n \in Nat \ {0} /\ e \in Named(DirsAt[n - 1], path[n]) /\ f \in Named(DirsAt[n - 1], path[n])
    <2>1. path # << >>
      BY DEF Denoted
    <2>2. path \in Seq(Texts)
      BY PathFacts
    <2>3. QED
      BY <2>1, <2>2 DEF Denoted
  <1>2. PICK a \in DirsAt[n - 1] : e \in LiveIn(a)
    BY <1>1 DEF Named
  <1>3. PICK b \in DirsAt[n - 1] : f \in LiveIn(b)
    BY <1>1 DEF Named
  <1>4. a = b /\ Text(e) = Text(f)
    BY <1>1, <1>2, <1>3, DirsAtOnce DEF Named
  <1>5. QED
    BY <1>2, <1>3, <1>4, NamedOnce

\* What a search has come to when it has ended.
LEMMA SearchEnds ==
    ASSUME BaseInv, SearchInv, ~Searching, PlainPath, ShortPath, NEW e \in Denoted
    PROVE  /\ result = e.start /\ FirstCluster(e) = e.start /\ IsEntry(e)
           /\ result % Wrap = result /\ Readable(result)
  <1>1. /\ FirstCluster(e) = e.start /\ IsEntry(e) /\ PlainDirs
        /\ e.start % Wrap = e.start /\ Readable(e.start)
    BY DenotedFacts, PlainLeads DEF BaseInv
  <1>2. PICK r : Route(r)
    BY RouteExists DEF BaseInv
  <1>3. EmptyMatch \/ result # 0
    BY <1>1, <1>2 DEF SearchInv, SearchComplete
  <1>4. result # 0 => result = FirstCluster(e)
    BY <1>1, DenotedOnce DEF BaseInv, SearchInv, ResultSound
  <1>5. EmptyMatch => FirstCluster(e) = 0
    BY DenotedOnce DEF BaseInv, EmptyMatch
  <1>6. QED
    BY <1>1, <1>3, <1>4, <1>5

-----------------------------------------------------------------------------
(* The clusters of a file *)

IsChain(f, e, n) ==
    f = [k \in 1 .. n |-> IF k = 1 THEN e.start ELSE disk.fat[f[k - 1]]]

\* The recursion of Chain has a solution.
LEMMA ChainExists == \A e : \A n \in Nat : \E f : IsChain(f, e, n)
  <1> SUFFICES ASSUME NEW e PROVE \A n \in Nat : \E f : IsChain(f, e, n)
    OBVIOUS
  <1> DEFINE Q == {n \in Nat : \E f : IsChain(f, e, n)}
  <1>1. 0 \in Q
    <2>1. IsChain([k \in 1 .. 0 |-> 0], e, 0)
      BY DEF IsChain
    <2>2. QED
      BY <2>1
  <1>2. ASSUME NEW n \in Nat, n \in Q PROVE n + 1 \in Q
    <2>1. PICK f : IsChain(f, e, n)
      BY <1>2
    <2> DEFINE g == [k \in 1 .. n + 1 |->
                        IF k <= n THEN f[k] ELSE IF k = 1 THEN e.start ELSE disk.fat[f[n]]]
    <2>2. ASSUME NEW k \in 1 .. n + 1
          PROVE  g[k] = IF k = 1 THEN e.start ELSE disk.fat[g[k - 1]]
      <3>1. CASE k \in 1 .. n
        <4>1. f[k] = IF k = 1 THEN e.start ELSE disk.fat[f[k - 1]]
          BY <2>1, <3>1 DEF IsChain
        <4>2. g[k] = f[k] /\ (k # 1 => g[k - 1] = f[k - 1])
          BY <3>1
        <4>3. QED
          BY <4>1, <4>2
      <3>2. CASE k = n + 1
        <4>1. g[k] = IF k = 1 THEN e.start ELSE disk.fat[f[n]]
          BY <3>2
        <4>2. k # 1 => k - 1 = n /\ g[n] = f[n]
          BY <3>2
        <4>3. QED
          BY <4>1, <4>2
      <3>3. QED
        BY <3>1, <3>2
    <2>3. IsChain(g, e, n + 1)
      <3>1. g = [k \in 1 .. n + 1 |-> g[k]]
        OBVIOUS
      <3> HIDE DEF g
      <3>2. QED
        BY <2>2, <3>1 DEF IsChain
    <2> HIDE DEF g
    <2>4. QED
      BY <2>3
  <1> HIDE DEF Q
  <1>3. \A n \in Nat : n \in Q
    BY <1>1, <1>2, NatSetInduction
  <1>4. QED
    BY <1>3 DEF Q

ChainLength(e) == (e.size + CLUSTER_SIZE - 1) \div CLUSTER_SIZE

\* A chain is as long as the size of the file says, and starts where its entry says.
LEMMA ChainFacts ==
    ASSUME NEW e, e.size \in Nat
    PROVE  /\ ChainLength(e) \in Nat
           /\ Chain(e) = [k \in 1 .. ChainLength(e) |-> Chain(e)[k]]
           /\ e.size > 0 => ChainLength(e) > 0 /\ Chain(e)[1] = e.start
  <1> DEFINE n == ChainLength(e)
             f == CHOOSE g : IsChain(g, e, n)
  <1>1. n \in Nat /\ (e.size > 0 => n > 0)
    BY DEF ChainLength, CLUSTER_SIZE
  <1>2. Chain(e) = [k \in 1 .. n |-> f[k]]
    BY DEF Chain, IsChain, ChainLength
  <1> HIDE DEF n
  <1>3. IsChain(f, e, n)
    BY <1>1, ChainExists
  <1> HIDE DEF f
  <1>4. ASSUME e.size > 0 PROVE Chain(e)[1] = e.start
    <2>1. 1 \in 1 .. n
      BY <1>1, <1>4
    <2>2. f[1] = e.start
      BY <1>3, <2>1 DEF IsChain
    <2>3. QED
      BY <1>2, <2>1, <2>2
  <1>5. Chain(e) = [k \in 1 .. n |-> Chain(e)[k]]
    BY <1>2
  <1>6. QED
    BY <1>1, <1>4, <1>5 DEF n

-----------------------------------------------------------------------------
(* -a, -b and -r *)

ClusterBytes == [k \in 1 .. CLUSTER_SIZE |-> Byte(k - 1)]

RangeBytes == [k \in 1 .. RangeEnd - range.offset |-> Byte(range.offset + k - 1)]

\* At the end -a and -b have printed the buffer with the cluster that was returned,
\* -r the bytes of it.
ContentInv ==
    walk = "done" =>
        /\ option \in {"a", "b"} => out = ClusterBytes
        /\ option = "r" => out = RangeBytes

\* Only the printing of content ends these options.
LEMMA ContentStep ==
    ASSUME ArgumentsOK, WalkOK, ContentInv, [Next]_vars
    PROVE  ContentInv'
  <1>1. CASE walk = "done"
    <2>1. UNCHANGED vars
      BY <1>1 DEF Next, Step, vars, Found, SearchBelow, SearchOn, ListRoot, List, ListBelow,
         ListOn, Listing, PrintBelow, PrintOn, Printing, TableEntry, TableEnd, EndOfCluster,
         AtEntry, Walking, PrintCluster, PrintRange, StartListing, Finish, Returned
    <2>2. QED
      BY <2>1 DEF vars, arguments, ContentInv, ClusterBytes, RangeBytes, RangeEnd, Byte, Readable
  <1>2. CASE walk # "done"
    <2> SUFFICES ASSUME walk' = "done", option \in {"a", "b", "r"}
                 PROVE  /\ option \in {"a", "b"} => out' = ClusterBytes'
                        /\ option = "r" => out' = RangeBytes'
      BY ArgumentsKept DEF ContentInv, arguments
    <2>1. walk \notin {"get_fat_table_content", "print_files_path"}
      BY FirstWalks DEF ArgumentsOK, WalkOK
    <2>2. PrintCluster \/ PrintRange
      BY <1>2, <2>1 DEF Next, Step, vars, Found, SearchBelow, SearchOn, ListRoot, List, ListBelow,
         ListOn, Listing, PrintBelow, PrintOn, TableEntry, TableEnd, EndOfCluster,
         StartListing, Finish
    <2>3. CASE PrintCluster
      BY <2>3 DEF PrintCluster, ClusterBytes, Byte, Readable, arguments
    <2>4. CASE PrintRange
      BY <2>4 DEF PrintRange, RangeBytes, RangeEnd, Byte, Readable, arguments
    <2>5. QED
      BY <2>2, <2>3, <2>4
  <1>3. QED
    BY <1>1, <1>2

\* For every file of a plain and short path -a and -b print the bytes of its first
\* cluster before anything else, and -r those of them that are asked for.
THEOREM ContentIsExact == Spec => []ContentExact
  <1>1. BaseInv /\ SearchInv /\ ContentInv => ContentExact
    <2> SUFFICES ASSUME BaseInv, SearchInv, ContentInv, walk = "done", PlainPath, ShortPath,
                        NEW e \in Denoted, IsFile(e), e.size > 0
                 PROVE  /\ option \in {"a", "b"} =>
                              \A at \in 0 .. CLUSTER_SIZE - 1 : at < e.size =>
                                 at + 1 \in DOMAIN out /\ out[at + 1] = <<Chain(e)[1], at>>
                        /\ option = "r" =>
                              \A k \in 1 .. range.count :
                                 LET at == range.offset + k - 1
                                 IN  at \in 0 .. CLUSTER_SIZE - 1 /\ at < e.size =>
                                       Len(out) = range.count /\ out[k] = <<Chain(e)[1], at>>
      BY DEF ContentExact
    <2>1. result = e.start /\ IsEntry(e) /\ result % Wrap = result /\ Readable(result)
      BY SearchEnds DEF Searching
    <2>2. e.size \in Nat
      BY <2>1 DEF IsEntry, Fields
    <2>3. Chain(e)[1] = result
      BY <2>1, <2>2, ChainFacts
    <2>4. \A at \in 0 .. CLUSTER_SIZE - 1 : Byte(at) = <<Chain(e)[1], at>>
      BY <2>1, <2>3 DEF Byte
    <2>5. CLUSTER_SIZE \in Nat
      BY DEF CLUSTER_SIZE
    <2>6. ASSUME option \in {"a", "b"}, NEW at \in 0 .. CLUSTER_SIZE - 1
          PROVE  at + 1 \in DOMAIN out /\ out[at + 1] = <<Chain(e)[1], at>>
      <3>1. out = [k \in 1 .. CLUSTER_SIZE |-> Byte(k - 1)]
        BY <2>6 DEF ContentInv, ClusterBytes
      <3>2. at + 1 \in 1 .. CLUSTER_SIZE /\ at + 1 - 1 = at
        BY <2>5
      <3>3. out[at + 1] = Byte(at)
        BY <3>1, <3>2
      <3>4. QED
        BY <2>4, <3>1, <3>2, <3>3
    <2>7. ASSUME option = "r", NEW k \in 1 .. range.count,
                 range.offset + k - 1 \in 0 .. CLUSTER_SIZE - 1
          PROVE  Len(out) = range.count /\ out[k] = <<Chain(e)[1], range.offset + k - 1>>
      <3>1. range.offset \in Int /\ range.count \in Int
        BY FatAssumption DEF BaseInv, ArgumentsOK
      <3>2. RangeEnd - range.offset = range.count
        BY <3>1 DEF RangeEnd
      <3>3. out = [m \in 1 .. range.count |-> Byte(range.offset + m - 1)]
        BY <2>7, <3>2 DEF ContentInv, RangeBytes
      <3>4. range.count \in Nat
        BY <2>7, <3>1
      <3>5. Len(out) = range.count
        BY <3>3, <3>4
      <3>6. out[k] = Byte(range.offset + k - 1)
        BY <2>7, <3>3
      <3>7. QED
        BY <2>4, <2>7, <3>5, <3>6
    <2>8. QED
      BY <2>6, <2>7
  <1>2. Init => ContentInv
    <2> SUFFICES ASSUME Init PROVE walk # "done"
      BY DEF ContentInv
    <2>1. QED
      BY FirstWalks DEF Init
  <1>3. BaseInv /\ ContentInv /\ [Next]_vars => ContentInv'
    BY ContentStep DEF BaseInv
  <1>4. QED
    BY <1>1, <1>2, <1>3, BaseInvariance, SearchInvariance, PTL DEF Spec

-----------------------------------------------------------------------------
(* -n *)

Clusters(e) == [i \in 1 .. ClusterCount(e) |-> FirstCluster(e) + i - 1]

\* Nothing is printed for an empty file, so that what is printed is one report.
ClustersInv ==
    option = "n" /\ PlainDirs =>
        IF result = 0 THEN out = << >>
        ELSE \E e \in Denoted : result = FirstCluster(e) /\ out = Clusters(e)

\* A match prints the clusters, and no other step prints.
LEMMA ClustersStep ==
    ASSUME BaseInv, SearchInv, ClustersInv, [Next]_vars
    PROVE  ClustersInv'
  <1> USE DEF BaseInv
  <1>1. Denoted' = Denoted /\ option' = option /\ PlainDirs' = PlainDirs
    BY ArgumentsKept, MeaningKept DEF arguments
  <1> SUFFICES ASSUME option = "n", PlainDirs
               PROVE  IF result' = 0 THEN out' = << >>
                      ELSE \E e \in Denoted : result' = FirstCluster(e) /\ out' = Clusters(e)
    BY <1>1 DEF ClustersInv, Clusters, ClusterCount
  <1>2. walk \in {"get_cluster_data", "done"}
    BY FirstWalks DEF ArgumentsOK, WalkOK
  <1>3. CASE Found
    <2>1. out' = out \o Report(Entry) /\ result' = FirstCluster(Entry)
      BY <1>3 DEF Found
    <2>2. AtEntry /\ frames # << >> /\ walk = "get_cluster_data" /\ Searching
          /\ (FoundFile(Entry) \/ FoundDir(Entry))
      BY <1>2, <1>3 DEF Found, AtEntry, Walking
    <2>3. result = 0 /\ out = << >>
      BY <2>2 DEF SearchInv, SearchStops, ClustersInv
    <2>4. Entry \in Denoted
      BY <2>2, MatchDenoted DEF SearchInv
    <2>5. IsEntry(Entry) /\ Entry \in Fields
      BY <2>2, EntryFacts
    <2>6. Report(Entry) = Clusters(Entry)
      BY <2>2 DEF Report, Clusters
    <2>7. ClusterCount(Entry) \in Nat
      BY <2>5 DEF ClusterCount, CLUSTER_SIZE, Fields
    <2>8. Clusters(Entry) \in Seq(Int)
      <3>1. FirstCluster(Entry) \in Nat
        BY <2>5, ClusterFacts
      <3>2. \A i \in 1 .. ClusterCount(Entry) : FirstCluster(Entry) + i - 1 \in Int
        BY <3>1
      <3>3. QED
        BY <2>7, <3>2 DEF Clusters
    <2>9. out' = Clusters(Entry)
      BY <2>1, <2>3, <2>6, <2>8
    <2>10. FirstCluster(Entry) = 0 => Clusters(Entry) = << >>
      <3> SUFFICES ASSUME FirstCluster(Entry) = 0 PROVE Clusters(Entry) = << >>
        OBVIOUS
      <3>1. Entry.size = 0
        BY <2>5, ClusterFacts DEF IsEntry
      <3>2. ClusterCount(Entry) = 0
        BY <3>1 DEF ClusterCount, CLUSTER_SIZE
      <3>3. Len(Clusters(Entry)) = 0
        BY <3>2 DEF Clusters
      <3>4. QED
        BY <2>8, <3>3
    <2>11. QED
      BY <2>1, <2>4, <2>9, <2>10
  <1>4. CASE SearchBelow \/ SearchOn \/ TableEnd \/ Finish \/ UNCHANGED vars
    <2>1. out' = out /\ result' = result
      BY <1>4 DEF SearchBelow, SearchOn, TableEnd, Finish, vars
    <2>2. QED
      BY <2>1 DEF ClustersInv
  <1>5. CASE EndOfCluster
    <2>1. out' = out /\ frames # << >> /\ Searching /\ result' = 0
      BY <1>2, <1>5 DEF EndOfCluster, Walking, Searching
    <2>2. result = 0
      BY <2>1 DEF SearchInv, SearchStops
    <2>3. QED
      BY <2>1, <2>2 DEF ClustersInv
  <1>6. ~(\/ ListRoot \/ List \/ ListBelow \/ ListOn \/ PrintBelow \/ PrintOn \/ TableEntry
          \/ PrintCluster \/ PrintRange \/ StartListing)
    BY <1>2 DEF ListRoot, List, ListBelow, ListOn, Listing, PrintBelow, PrintOn, Printing,
       TableEntry, PrintCluster, PrintRange, StartListing
  <1>7. QED
    BY <1>3, <1>4, <1>5, <1>6 DEF Next, Step

\* For every file that lies in one piece and fills its last cluster, on a plain and
\* short path, -n prints the chain that the FAT has for it.
THEOREM ContiguousListed == Spec => []ListedWhenContiguous
  <1>1. BaseInv /\ SearchInv /\ ClustersInv => ListedWhenContiguous
    <2> SUFFICES ASSUME BaseInv, SearchInv, ClustersInv, walk = "done", option = "n", PlainPath,
                        ShortPath, NEW e \in Denoted, IsFile(e), e.size % CLUSTER_SIZE = 0,
                        Contiguous(Chain(e))
                 PROVE  out = Chain(e)
      BY DEF ListedWhenContiguous
    <2>1. result = e.start /\ FirstCluster(e) = e.start /\ IsEntry(e) /\ PlainDirs
      BY SearchEnds, PlainLeads DEF Searching, BaseInv
    <2>2. e.size \in Nat /\ e.start \in Nat
      BY <2>1 DEF IsEntry, Fields
    <2>3. ChainLength(e) = ClusterCount(e) /\ ClusterCount(e) \in Nat
      BY <2>2 DEF ChainLength, ClusterCount, CLUSTER_SIZE
    <2>4. Chain(e) = [k \in 1 .. ClusterCount(e) |-> Chain(e)[k]]
      BY <2>2, <2>3, ChainFacts
    <2>5. CASE e.size = 0
      <3>1. ClusterCount(e) = 0
        BY <2>5 DEF ClusterCount, CLUSTER_SIZE
      <3>2. Chain(e) = << >> /\ Clusters(e) = << >>
        BY <2>4, <3>1 DEF Clusters
      <3>3. result # 0 => out = Clusters(e)
        BY <2>1, DenotedOnce DEF BaseInv, ClustersInv
      <3>4. QED
        BY <2>1, <3>2, <3>3 DEF ClustersInv
    <2>6. CASE e.size # 0
      <3>1. e.start # 0
        BY <2>1, <2>6 DEF IsEntry
      <3>2. out = Clusters(e)
        BY <2>1, <3>1, DenotedOnce DEF BaseInv, ClustersInv
      <3>3. Chain(e)[1] = e.start
        BY <2>2, <2>6, ChainFacts
      <3>4. Len(Chain(e)) = ClusterCount(e)
        BY <2>3, <2>4
      <3>5. \A k \in 1 .. ClusterCount(e) : Chain(e)[k] = e.start + k - 1
        BY <3>3, <3>4 DEF Contiguous
      <3>6. QED
        BY <2>1, <2>4, <3>2, <3>5 DEF Clusters
    <2>7. QED
      BY <2>5, <2>6
  <1>2. Init => ClustersInv
    BY DEF Init, ClustersInv
  <1>3. BaseInv /\ SearchInv /\ ClustersInv /\ [Next]_vars => ClustersInv'
    BY ClustersStep
  <1>4. QED
    BY <1>1, <1>2, <1>3, BaseInvariance, SearchInvariance, PTL DEF Spec

-----------------------------------------------------------------------------
(* -l *)

Listed == \E e \in Denoted : IsDir(e) /\ out = Lines(Entries(FirstCluster(e)))

\* A listing of the root directory is done at once.
RootListed ==
    /\ Listing => \/ frames = <<RootFrame>> /\ out = << >>
                  \/ frames = << >> /\ out = Lines(Entries(Root))
    /\ walk = "done" => out = Lines(Entries(Root))

\* Otherwise nothing but a directory that the path means is listed, and its route
\* is ahead until then.
PathListed ==
    /\ out # << >> => Listed
    /\ Listing /\ out # << >> => frames = << >>
    /\ \A r : Route(r) /\ IsDir(r[Len(path)]) =>
          Listed \/ Searching \/ (Listing /\ Pending(r))

ListInv ==
    option = "l" /\ PlainDirs =>
        /\ Searching => out = << >>
        /\ IF path = << >> THEN RootListed ELSE PathListed

IsPicked(f, n, chosen, item) ==
    f = [i \in 0 .. n |-> IF i = 0 THEN << >>
                          ELSE IF i \in chosen THEN Append(f[i - 1], item[i]) ELSE f[i - 1]]

\* The recursions that pick items one by one have a solution.
LEMMA PickedExists ==
    ASSUME NEW chosen, NEW item
    PROVE  \A n \in Nat : \E f : IsPicked(f, n, chosen, item)
  <1> DEFINE More(s, i) == IF i \in chosen THEN Append(s, item[i]) ELSE s
             Q == {n \in Nat : \E f : f = [i \in 0 .. n |-> IF i = 0 THEN << >> ELSE More(f[i - 1], i)]}
  <1> HIDE DEF More
  <1>1. 0 \in Q
    <2>1. [i \in 0 .. 0 |-> << >>] =
             [i \in 0 .. 0 |-> IF i = 0 THEN << >> ELSE More([j \in 0 .. 0 |-> << >>][i - 1], i)]
      OBVIOUS
    <2>2. QED
      BY <2>1
  <1>2. ASSUME NEW n \in Nat, n \in Q PROVE n + 1 \in Q
    <2>1. PICK f : f = [i \in 0 .. n |-> IF i = 0 THEN << >> ELSE More(f[i - 1], i)]
      BY <1>2
    <2> DEFINE g == [i \in 0 .. n + 1 |-> IF i <= n THEN f[i] ELSE More(f[n], n + 1)]
    <2>2. ASSUME NEW i \in 0 .. n + 1
          PROVE  g[i] = IF i = 0 THEN << >> ELSE More(g[i - 1], i)
      <3>1. CASE i = 0
        <4>1. g[0] = f[0]
          OBVIOUS
        <4>2. QED
          BY <2>1, <3>1, <4>1
      <3>2. CASE i \in 1 .. n
        <4>1. f[i] = More(f[i - 1], i)
          BY <2>1, <3>2
        <4>2. g[i] = f[i] /\ g[i - 1] = f[i - 1]
          BY <3>2
        <4>3. QED
          BY <3>2, <4>1, <4>2
      <3>3. CASE i = n + 1
        BY <3>3
      <3>4. QED
        BY <3>1, <3>2, <3>3
    <2>3. g = [i \in 0 .. n + 1 |-> IF i = 0 THEN << >> ELSE More(g[i - 1], i)]
      <3> HIDE DEF g
      <3>1. g = [i \in 0 .. n + 1 |-> g[i]]
        BY DEF g
      <3>2. QED
        BY <2>2, <3>1
    <2> HIDE DEF g
    <2>4. QED
      BY <2>3
  <1> HIDE DEF Q
  <1>3. \A n \in Nat : n \in Q
    BY <1>1, <1>2, NatSetInduction
  <1>4. QED
    BY <1>3 DEF Q, IsPicked, More

IsPrinted(f, s) ==
    f = [i \in 0 .. Len(s) |->
            IF i = 0 THEN << >>
            ELSE IF Shown(s[i]) THEN Append(f[i - 1], Line(s[i])) ELSE f[i - 1]]

\* Lines, slot by slot.
LEMMA LinesUnfold ==
    ASSUME NEW s \in Seq(Fields)
    PROVE  \E f : IsPrinted(f, s) /\ Lines(s) = f[Len(s)]
  <1> DEFINE chosen == {i \in 1 .. Len(s) : Shown(s[i])}
             item   == [i \in 1 .. Len(s) |-> Line(s[i])]
  <1>1. PICK g : IsPicked(g, Len(s), chosen, item)
    <2>1. Len(s) \in Nat
      OBVIOUS
    <2> HIDE DEF chosen, item
    <2>2. QED
      BY <2>1, PickedExists
  <1>2. IsPrinted(g, s)
    <2>1. ASSUME NEW i \in 0 .. Len(s)
          PROVE  (IF i = 0 THEN << >>
                  ELSE IF i \in chosen THEN Append(g[i - 1], item[i]) ELSE g[i - 1])
               = (IF i = 0 THEN << >>
                  ELSE IF Shown(s[i]) THEN Append(g[i - 1], Line(s[i])) ELSE g[i - 1])
      <3>1. i # 0 => i \in 1 .. Len(s)
        OBVIOUS
      <3>2. i # 0 => (i \in chosen <=> Shown(s[i])) /\ item[i] = Line(s[i])
        BY <3>1
      <3>3. QED
        BY <3>2
    <2> HIDE DEF chosen, item
    <2>2. QED
      BY <1>1, <2>1 DEF IsPicked, IsPrinted
  <1>3. Lines(s) = (CHOOSE f : IsPrinted(f, s))[Len(s)]
    BY DEF Lines, IsPrinted
  <1>4. QED
    BY <1>2, <1>3

IsNames(f, d) ==
    f = [n \in 0 .. Len(d) |->
            IF n = 0 THEN << >>
            ELSE IF IsLive(d[n]) THEN Append(f[n - 1], NameOf(d[n])) ELSE f[n - 1]]

\* LiveNames, slot by slot.
LEMMA NamesUnfold ==
    ASSUME NEW c, Directory(c) \in Seq(Fields)
    PROVE  IsNames(LiveNames(c), Directory(c))
  <1> DEFINE d      == Directory(c)
             chosen == {i \in 1 .. Len(d) : IsLive(d[i])}
             item   == [i \in 1 .. Len(d) |-> NameOf(d[i])]
  <1>1. PICK g : IsPicked(g, Len(d), chosen, item)
    <2>1. Len(d) \in Nat
      OBVIOUS
    <2> HIDE DEF chosen, item, d
    <2>2. QED
      BY <2>1, PickedExists
  <1>2. IsNames(g, d)
    <2>1. ASSUME NEW i \in 0 .. Len(d)
          PROVE  (IF i = 0 THEN << >>
                  ELSE IF i \in chosen THEN Append(g[i - 1], item[i]) ELSE g[i - 1])
               = (IF i = 0 THEN << >>
                  ELSE IF IsLive(d[i]) THEN Append(g[i - 1], NameOf(d[i])) ELSE g[i - 1])
      <3>1. i # 0 => i \in 1 .. Len(d)
        OBVIOUS
      <3>2. i # 0 => (i \in chosen <=> IsLive(d[i])) /\ item[i] = NameOf(d[i])
        BY <3>1
      <3>3. QED
        BY <3>2
    <2> HIDE DEF chosen, item
    <2>2. QED
      BY <1>1, <2>1 DEF IsPicked, IsNames
  <1>3. LiveNames(c) = CHOOSE f : IsNames(f, d)
    BY DEF LiveNames, IsNames
  <1>4. QED
    BY <1>2, <1>3

LineSet == {Line(e) : e \in Fields}

\* A listing is a sequence of lines.
LEMMA LinesTyped ==
    ASSUME NEW s \in Seq(Fields)
    PROVE  Lines(s) \in Seq(LineSet)
  <1>1. PICK f : IsPrinted(f, s) /\ Lines(s) = f[Len(s)]
    BY LinesUnfold
  <1> DEFINE m == Len(s)
             Q == {i \in Nat : i <= m => f[i] \in Seq(LineSet)}
  <1>2. m \in Nat
    OBVIOUS
  <1>3. \A i \in 0 .. m : f[i] = IF i = 0 THEN << >>
                                 ELSE IF Shown(s[i]) THEN Append(f[i - 1], Line(s[i])) ELSE f[i - 1]
    BY <1>1 DEF IsPrinted
  <1>4. \A i \in 1 .. m : Line(s[i]) \in LineSet
    BY DEF LineSet
  <1> HIDE DEF m
  <1>5. 0 \in Q
    <2>1. << >> \in Seq(LineSet) /\ f[0] = << >>
      BY <1>2, <1>3
    <2>2. QED
      BY <2>1
  <1>6. ASSUME NEW i \in Nat, i \in Q PROVE i + 1 \in Q
    <2> SUFFICES ASSUME i + 1 <= m PROVE f[i + 1] \in Seq(LineSet)
      OBVIOUS
    <2>1. i + 1 \in 1 .. m /\ i + 1 \in 0 .. m /\ i + 1 # 0 /\ i + 1 - 1 = i
      BY <1>2
    <2>2. f[i] \in Seq(LineSet)
      BY <1>2, <1>6
    <2>3. f[i + 1] = IF Shown(s[i + 1]) THEN Append(f[i], Line(s[i + 1])) ELSE f[i]
      BY <1>3, <2>1
    <2>4. QED
      BY <1>4, <2>1, <2>2, <2>3
  <1> HIDE DEF Q
  <1>7. \A i \in Nat : i \in Q
    BY <1>5, <1>6, NatSetInduction
  <1>8. QED
    BY <1>1, <1>2, <1>7 DEF Q, m

\* The lines of a directory have the names of the live entries that are read of it.
LEMMA LinesNamed ==
    ASSUME ArgumentsOK, NEW c, c % Wrap = c, Unmarked(c)
    PROVE  [i \in 1 .. Len(Lines(Entries(c))) |-> Lines(Entries(c))[i].name]
              = LiveNames(c)[IF Fits(c) THEN Len(Directory(c)) ELSE Slots]
  <1> DEFINE s == Entries(c)
             d == Directory(c)
             m == Len(s)
             g == LiveNames(c)
  <1>1. s \in Seq(Fields) /\ d \in Seq(Fields)
    BY EntriesFacts, DiskFacts
  <1>2. PICK f : IsPrinted(f, s) /\ Lines(s) = f[m]
    BY <1>1, LinesUnfold
  <1>3. IsNames(g, d)
    BY <1>1, NamesUnfold
  <1>4. /\ m \in Nat /\ m <= Len(d) /\ m = IF Fits(c) THEN Len(d) ELSE Slots
        /\ \A i \in 1 .. m : i \in 1 .. Len(d) /\ s[i] = d[i]
    <2>1. Slots \in Nat
      BY FatAssumption
    <2>2. s = SubSeq(d, 1, IF Len(d) < Slots THEN Len(d) ELSE Slots)
      BY DEF Entries
    <2>3. /\ m = IF Len(d) < Slots THEN Len(d) ELSE Slots
          /\ \A i \in 1 .. m : i \in 1 .. Len(d) /\ s[i] = d[i]
      <3> HIDE DEF s, d
      <3>1. /\ Len(s) = IF Len(d) < Slots THEN Len(d) ELSE Slots
            /\ \A i \in 1 .. Len(s) : i \in 1 .. Len(d) /\ s[i] = d[i]
        BY <1>1, <2>1, <2>2, ReadFacts
      <3>2. QED
        BY <3>1
    <2>4. Len(d) \in Nat /\ (Fits(c) <=> Len(d) <= Slots)
      BY <1>1 DEF Fits
    <2> HIDE DEF d, m
    <2>5. QED
      BY <2>1, <2>3, <2>4
  <1>5. \A i \in 1 .. m : /\ s[i] \in Fields /\ Line(s[i]) \in LineSet /\ NameOf(s[i]) \in Texts
                          /\ Shown(s[i]) <=> IsLive(s[i])
                          /\ IsLive(s[i]) => Line(s[i]).name = NameOf(s[i])
    <2> SUFFICES ASSUME NEW i \in 1 .. m
                 PROVE  /\ s[i] \in Fields /\ Line(s[i]) \in LineSet /\ NameOf(s[i]) \in Texts
                        /\ Shown(s[i]) <=> IsLive(s[i])
                        /\ IsLive(s[i]) => Line(s[i]).name = NameOf(s[i])
      OBVIOUS
    <2>1. s[i] \in Fields /\ s[i] \in EntriesOf(c)
      BY <1>1, <1>4 DEF EntriesOf
    <2>2. s[i].deleted \/ ~s[i].marked
      BY <2>1 DEF Unmarked
    <2>3. Line(s[i]) \in LineSet /\ NameOf(s[i]) \in Texts
      BY <2>1, TextTypes DEF LineSet, NameOf
    <2>4. Shown(s[i]) <=> IsLive(s[i])
      BY <2>2 DEF Shown, IsLive
    <2>5. IsLive(s[i]) => Line(s[i]).name = NameOf(s[i])
      BY <2>2 DEF IsLive, Line, NameOf, IsFile
    <2>6. QED
      BY <2>1, <2>3, <2>4, <2>5
  <1>6. \A i \in 1 .. m :
           /\ f[i] = IF Shown(s[i]) THEN Append(f[i - 1], Line(s[i])) ELSE f[i - 1]
           /\ g[i] = IF IsLive(s[i]) THEN Append(g[i - 1], NameOf(s[i])) ELSE g[i - 1]
    <2> SUFFICES ASSUME NEW i \in 1 .. m
                 PROVE  /\ f[i] = IF Shown(s[i]) THEN Append(f[i - 1], Line(s[i])) ELSE f[i - 1]
                        /\ g[i] = IF IsLive(s[i]) THEN Append(g[i - 1], NameOf(s[i])) ELSE g[i - 1]
      OBVIOUS
    <2>1. i # 0 /\ i \in 0 .. m /\ i \in 0 .. Len(d) /\ s[i] = d[i]
      BY <1>1, <1>4
    <2> HIDE DEF s, d, g
    <2>2. f[i] = IF i = 0 THEN << >>
                 ELSE IF Shown(s[i]) THEN Append(f[i - 1], Line(s[i])) ELSE f[i - 1]
      BY <1>2, <2>1 DEF IsPrinted
    <2>3. g[i] = IF i = 0 THEN << >>
                 ELSE IF IsLive(d[i]) THEN Append(g[i - 1], NameOf(d[i])) ELSE g[i - 1]
      BY <1>3, <2>1 DEF IsNames
    <2>4. QED
      BY <2>1, <2>2, <2>3
  <1>7. f[0] = << >> /\ g[0] = << >>
    <2>1. 0 \in 0 .. m /\ 0 \in 0 .. Len(d)
      BY <1>1, <1>4
    <2> HIDE DEF s, d, g
    <2>2. QED
      BY <1>2, <1>3, <2>1 DEF IsPrinted, IsNames
  <1> HIDE DEF m, s, d, g
  <1> DEFINE Same(i) == /\ f[i] \in Seq(LineSet) /\ g[i] \in Seq(Texts) /\ Len(f[i]) = Len(g[i])
                        /\ \A j \in 1 .. Len(g[i]) : f[i][j].name = g[i][j]
             Q == {i \in Nat : i <= m => Same(i)}
  <1>8. 0 \in Q
    <2>1. << >> \in Seq(LineSet) /\ << >> \in Seq(Texts) /\ Len(<< >>) = 0
      OBVIOUS
    <2>2. Same(0)
      BY <1>7, <2>1
    <2> HIDE DEF Same
    <2>3. QED
      BY <2>2
  <1>9. ASSUME NEW i \in Nat, i \in Q PROVE i + 1 \in Q
    <2> SUFFICES ASSUME i + 1 <= m PROVE Same(i + 1)
      OBVIOUS
    <2>1. i + 1 \in 1 .. m /\ i + 1 - 1 = i /\ i <= m
      BY <1>4
    <2>2. Same(i)
      BY <1>9, <2>1
    <2>3. /\ f[i + 1] = IF IsLive(s[i + 1]) THEN Append(f[i], Line(s[i + 1])) ELSE f[i]
          /\ g[i + 1] = IF IsLive(s[i + 1]) THEN Append(g[i], NameOf(s[i + 1])) ELSE g[i]
      BY <1>5, <1>6, <2>1
    <2>4. CASE ~IsLive(s[i + 1])
      BY <2>2, <2>3, <2>4
    <2>5. CASE IsLive(s[i + 1])
      <3> DEFINE a == f[i]
                 b == g[i]
                 x == Line(s[i + 1])
                 y == NameOf(s[i + 1])
      <3>1. /\ a \in Seq(LineSet) /\ b \in Seq(Texts) /\ x \in LineSet /\ y \in Texts
            /\ Len(a) = Len(b) /\ x.name = y
            /\ \A j \in 1 .. Len(b) : a[j].name = b[j]
        BY <1>5, <2>1, <2>2, <2>5
      <3>2. f[i + 1] = Append(a, x) /\ g[i + 1] = Append(b, y)
        BY <2>3, <2>5
      <3> HIDE DEF a, b, x, y
      <3>3. /\ Append(a, x) \in Seq(LineSet) /\ Len(Append(a, x)) = Len(a) + 1
            /\ \A j \in 1 .. Len(a) : Append(a, x)[j] = a[j]
            /\ Append(a, x)[Len(a) + 1] = x
        BY <3>1, AppendProperties
      <3>4. /\ Append(b, y) \in Seq(Texts) /\ Len(Append(b, y)) = Len(b) + 1
            /\ \A j \in 1 .. Len(b) : Append(b, y)[j] = b[j]
            /\ Append(b, y)[Len(b) + 1] = y
        BY <3>1, AppendProperties
      <3>5. Len(b) \in Nat
        BY <3>1
      <3>6. ASSUME NEW j \in 1 .. Len(b) + 1 PROVE Append(a, x)[j].name = Append(b, y)[j]
        <4>1. CASE j = Len(b) + 1
          BY <3>1, <3>3, <3>4, <4>1
        <4>2. CASE j # Len(b) + 1
          <5>1. j \in 1 .. Len(b)
            BY <3>5, <4>2
          <5>2. QED
            BY <3>1, <3>3, <3>4, <5>1
        <4>3. QED
          BY <4>1, <4>2
      <3>7. QED
        BY <3>1, <3>2, <3>3, <3>4, <3>6
    <2>6. QED
      BY <2>4, <2>5
  <1> HIDE DEF Q
  <1>10. \A i \in Nat : i \in Q
    BY <1>8, <1>9, NatSetInduction
  <1>11. Same(m)
    BY <1>4, <1>10 DEF Q
  <1>12. [i \in 1 .. Len(f[m]) |-> f[m][i].name] = g[m]
    <2>1. g[m] = [i \in 1 .. Len(g[m]) |-> g[m][i]]
      BY <1>11
    <2>2. QED
      BY <1>11, <2>1
  <1>13. QED
    BY <1>2, <1>4, <1>12 DEF s, d, g

\* Lines are added to nothing.
LEMMA LinesAdded == \A s \in Seq(Fields) : << >> \o Lines(s) = Lines(s)
  BY LinesTyped

\* What is listed changes with out alone.
LEMMA ListingKept ==
    ASSUME UNCHANGED arguments
    PROVE  /\ \A c : Lines(Entries(c))' = Lines(Entries(c))
           /\ Listed' <=> \E e \in Denoted : IsDir(e) /\ out' = Lines(Entries(FirstCluster(e)))
           /\ \A r : (Route(r) /\ IsDir(r[Len(path)]))' = (Route(r) /\ IsDir(r[Len(path)]))
           /\ \A r : (\E k \in 1 .. Len(frames') : Ahead(frames'[k], r, k)) => Pending(r)'
  <1>1. ASSUME NEW c PROVE Lines(Entries(c))' = Lines(Entries(c))
    BY DEF arguments, Lines, Entries, Directory
  <1>2. Denoted' = Denoted /\ path' = path /\ \A c : Entries(c)' = Entries(c)
    BY MeaningKept DEF arguments
  <1>3. \A e : Lines(Entries(FirstCluster(e)))' = Lines(Entries(FirstCluster(e)))
    BY <1>1
  <1>4. Listed' <=> \E e \in Denoted : IsDir(e) /\ out' = Lines(Entries(FirstCluster(e)))
    BY <1>2, <1>3 DEF Listed
  <1>5. ASSUME NEW r PROVE (Route(r) /\ IsDir(r[Len(path)]))' = (Route(r) /\ IsDir(r[Len(path)]))
    BY <1>2, RoutesKept
  <1>6. ASSUME NEW r, NEW k \in 1 .. Len(frames'), Ahead(frames'[k], r, k)
        PROVE  Pending(r)'
    <2>1. Ahead(frames[k], r, k)'
      BY <1>2, <1>6 DEF Ahead, OnPath
    <2>2. QED
      BY <1>6, <2>1 DEF Pending
  <1>7. QED
    BY <1>1, <1>4, <1>5, <1>6

\* With -l, main calls get_cluster_num and then print_files_path.
LEMMA ListWalks ==
    ASSUME ArgumentsOK, WalkOK, option = "l"
    PROVE  /\ walk \in {"get_cluster_num", "print_files_path", "done"}
           /\ Searching <=> walk = "get_cluster_num"
  BY FirstWalks DEF ArgumentsOK, WalkOK, Searching

\* The search before the listing prints nothing.
LEMMA ListSearchStep ==
    ASSUME BaseInv, ListInv, PlainDirs, option = "l", Searching,
           Found \/ SearchBelow \/ SearchOn \/ EndOfCluster
    PROVE  out' = << >> /\ walk' = walk
  <1>1. walk = "get_cluster_num" /\ out = << >>
    BY ListWalks DEF BaseInv, ListInv
  <1>2. Report(Entry) = << >>
    BY <1>1 DEF Report
  <1>3. << >> \o << >> = << >>
    OBVIOUS
  <1>4. QED
    BY <1>1, <1>2, <1>3 DEF Found, SearchBelow, SearchOn, EndOfCluster

\* The listing of the root directory.
LEMMA RootListStep ==
    ASSUME BaseInv, ListInv, PlainDirs, option = "l", path = << >>, [Next]_vars
    PROVE  RootListed'
  <1>1. UNCHANGED arguments /\ \A c : Lines(Entries(c))' = Lines(Entries(c))
    BY ArgumentsKept, ListingKept
  <1>2. walk \in {"get_cluster_num", "print_files_path", "done"}
        /\ (Searching <=> walk = "get_cluster_num")
    BY ListWalks DEF BaseInv
  <1>3. RootListed /\ (Searching => out = << >>)
    BY DEF ListInv
  <1>4. RootFrame' = RootFrame
    BY MeaningKept, <1>1 DEF RootFrame, Frame
  <1>5. ASSUME walk' = "print_files_path",
               \/ frames' = <<RootFrame>> /\ out' = << >>
               \/ frames' = << >> /\ out' = Lines(Entries(Root))
        PROVE  RootListed'
    BY <1>1, <1>4, <1>5 DEF RootListed, Listing
  <1>6. CASE Searching
    <2>1. CASE Found \/ SearchBelow \/ SearchOn \/ EndOfCluster
      <3>1. walk' = "get_cluster_num"
        BY <1>2, <1>6, <2>1, ListSearchStep
      <3>2. QED
        BY <3>1 DEF RootListed, Listing
    <2>2. CASE StartListing
      BY <1>3, <1>5, <1>6, <2>2 DEF StartListing
    <2>3. CASE UNCHANGED vars
      BY <1>2, <1>6, <2>3 DEF vars, RootListed, Listing
    <2>4. QED
      BY <1>2, <1>6, <2>1, <2>2, <2>3 DEF Next, Step, ListRoot, List, ListBelow, ListOn, Listing,
         PrintBelow, PrintOn, Printing, TableEntry, TableEnd, PrintCluster, PrintRange, Finish
  <1>7. CASE walk = "print_files_path"
    <2>1. \/ frames = <<RootFrame>> /\ out = << >>
          \/ frames = << >> /\ out = Lines(Entries(Root))
      BY <1>3, <1>7 DEF RootListed, Listing
    <2>2. CASE ListRoot
      <3>1. frames = <<RootFrame>> /\ out = << >>
        BY <2>1, <2>2 DEF ListRoot
      <3>2. Top.buffer = Entries(Root)
        BY <3>1 DEF Top, RootFrame, Frame
      <3>3. out' = Lines(Entries(Root)) /\ frames' = << >> /\ walk' = walk
        BY <2>2, <3>1, <3>2, LinesAdded, EntriesFacts DEF ListRoot, BaseInv
      <3>4. QED
        BY <1>5, <1>7, <3>3
    <2>3. CASE Finish
      <3>1. frames = << >> /\ walk' = "done" /\ out' = out
        BY <2>3 DEF Finish, Returned
      <3>2. out = Lines(Entries(Root))
        BY <2>1, <3>1
      <3>3. QED
        BY <1>1, <3>1, <3>2 DEF RootListed, Listing
    <2>4. CASE UNCHANGED vars
      BY <1>5, <1>7, <2>1, <2>4 DEF vars
    <2>5. QED
      BY <1>2, <1>7, <2>2, <2>3, <2>4 DEF Next, Step, Found, SearchBelow, SearchOn, List, ListBelow,
         ListOn, PrintBelow, PrintOn, Printing, TableEntry, TableEnd, PrintCluster, PrintRange,
         EndOfCluster, StartListing, Listing
  <1>8. CASE walk = "done"
    <2>1. UNCHANGED vars
      BY <1>8 DEF Next, Step, vars, Found, SearchBelow, SearchOn, ListRoot, List, ListBelow,
         ListOn, Listing, PrintBelow, PrintOn, Printing, TableEntry, TableEnd, EndOfCluster,
         AtEntry, Walking, PrintCluster, PrintRange, StartListing, Finish, Returned
    <2>2. QED
      BY <1>1, <1>3, <1>8, <2>1 DEF vars, RootListed, Listing
  <1>9. QED
    BY <1>2, <1>6, <1>7, <1>8

\* The listing of a directory that the path means.
LEMMA PathListStep ==
    ASSUME BaseInv, SearchInv, ListInv, PlainDirs, option = "l", path # << >>, [Next]_vars
    PROVE  PathListed'
  <1> DEFINE DirRoute(r) == Route(r) /\ IsDir(r[Len(path)])
             NowListed == \E e \in Denoted : IsDir(e) /\ out' = Lines(Entries(FirstCluster(e)))
             NowPending(r) == \E k \in 1 .. Len(frames') : Ahead(frames'[k], r, k)
  <1> USE DEF BaseInv
  <1>1. walk \in {"get_cluster_num", "print_files_path", "done"}
        /\ (Searching <=> walk = "get_cluster_num")
    BY ListWalks
  <1>2. PathListed /\ (Searching => out = << >>)
    BY DEF ListInv
  <1>3. SUFFICES /\ out' # << >> => NowListed
                 /\ walk' = "print_files_path" /\ out' # << >> => frames' = << >>
                 /\ \A r : DirRoute(r) => \/ NowListed
                                          \/ walk' = "get_cluster_num"
                                          \/ walk' = "print_files_path" /\ NowPending(r)
    <2>1. /\ Listed' <=> NowListed
          /\ \A r : DirRoute(r)' = DirRoute(r)
          /\ \A r : NowPending(r) => Pending(r)'
      BY ArgumentsKept, ListingKept
    <2> HIDE DEF NowListed, NowPending
    <2>2. \A r : DirRoute(r)' => Listed' \/ Searching' \/ (Listing' /\ Pending(r)')
      BY <1>3, <2>1 DEF Searching, Listing
    <2> HIDE DEF DirRoute
    <2>3. /\ out' # << >> => Listed'
          /\ Listing' /\ out' # << >> => frames' = << >>
      BY <1>3, <2>1 DEF Listing
    <2>4. QED
      BY <2>2, <2>3 DEF PathListed, DirRoute
  <1>4. Listed /\ out' = out => NowListed
    BY DEF Listed
  <1> HIDE DEF NowListed, NowPending
  <1>5. CASE Searching
    <2>1. CASE Found \/ SearchBelow \/ SearchOn \/ EndOfCluster
      <3>1. out' = << >> /\ walk' = "get_cluster_num"
        BY <1>1, <1>5, <2>1, ListSearchStep
      <3>2. QED
        BY <3>1
    <2>2. CASE StartListing
      <3>1. frames' = <<RootFrame>> /\ out' = << >> /\ walk' = "print_files_path"
        BY <1>2, <1>5, <2>2 DEF StartListing
      <3>2. ASSUME NEW r, DirRoute(r) PROVE NowPending(r)
        <4>1. Len(path) \in Nat /\ Len(path) > 0
          BY <3>2, PathFacts DEF Route
        <4>2. Len(<< >>) = 0
          OBVIOUS
        <4>3. OnPath(<< >>)
          BY <4>1, <4>2 DEF OnPath
        <4>4. Ahead(RootFrame, r, 1)
          BY <3>2, <4>1, <4>3, AheadAtFirst DEF RootFrame, Frame, Source
        <4>5. QED
          BY <3>1, <4>4 DEF NowPending
      <3>3. QED
        BY <3>1, <3>2
    <2>3. CASE UNCHANGED vars
      BY <1>1, <1>2, <1>5, <2>3 DEF vars
    <2>4. QED
      BY <1>1, <1>5, <2>1, <2>2, <2>3 DEF Next, Step, ListRoot, List, ListBelow, ListOn, Listing,
         PrintBelow, PrintOn, Printing, TableEntry, TableEnd, PrintCluster, PrintRange, Finish
  <1>6. CASE walk = "print_files_path"
    <2>0. /\ out # << >> => Listed /\ frames = << >>
          /\ \A r : DirRoute(r) => Listed \/ Pending(r)
      BY <1>1, <1>2, <1>6 DEF PathListed, Listing
    <2>1. CASE List
      <3>1. AtEntry /\ Lists(Entry) /\ frames # << >> /\ frames' = << >> /\ walk' = walk
        BY <2>1 DEF List, AtEntry, Walking
      <3>2. out = << >>
        BY <2>0, <3>1
      <3>4. Entry \in Denoted /\ IsDir(Entry)
        BY <3>1, MatchDenoted DEF SearchInv, Lists
      <3>3. out' = Lines(Entries(FirstCluster(Entry)))
        <4>1. Len(path) \in 1 .. Len(path) /\ Entry \in Named(DirsAt[Len(path) - 1], path[Len(path)])
          <5>1. path \in Seq(Texts) /\ path # << >>
            BY PathFacts
          <5>2. QED
            BY <3>4, <5>1 DEF Denoted
        <4>2. Unchecked(FirstCluster(Entry)) = {Entries(FirstCluster(Entry))}
          BY <3>4, <4>1, DirRead
        <4>3. Entries(FirstCluster(Entry)) \in Seq(Fields)
          BY EntriesFacts
        <4>4. QED
          BY <2>1, <3>2, <4>2, <4>3, LinesAdded DEF List
      <3>5. NowListed
        BY <3>3, <3>4 DEF NowListed
      <3>6. QED
        BY <3>1, <3>5
    <2>2. CASE ListBelow \/ ListOn
      <3>1. AtEntry /\ frames # << >> /\ out' = out /\ walk' = walk
        BY <2>2 DEF ListBelow, ListOn, AtEntry, Walking
      <3>2. out = << >>
        BY <2>0, <3>1
      <3>3. ASSUME NEW r, DirRoute(r) PROVE NowListed \/ NowPending(r)
        <4>1. CASE Listed
          BY <1>4, <3>1, <4>1
        <4>2. CASE Pending(r)
          BY <2>2, <3>1, <3>3, <4>2, PendingOn DEF NowPending
        <4>3. QED
          BY <2>0, <3>3, <4>1, <4>2
      <3>4. QED
        BY <1>6, <3>1, <3>2, <3>3
    <2>3. CASE EndOfCluster
      <3>1. frames # << >> /\ out' = out /\ walk' = walk
        BY <2>3 DEF EndOfCluster, Walking
      <3>2. out = << >>
        BY <2>0, <3>1
      <3>3. ASSUME NEW r, DirRoute(r) PROVE NowListed \/ NowPending(r)
        <4>1. CASE Listed
          BY <1>4, <3>1, <4>1
        <4>2. CASE Pending(r)
          BY <2>3, <4>2, PendingBelow DEF NowPending
        <4>3. QED
          BY <2>0, <3>3, <4>1, <4>2
      <3>4. QED
        BY <1>6, <3>1, <3>2, <3>3
    <2>4. CASE Finish
      <3>1. frames = << >> /\ walk' = "done" /\ out' = out
        BY <2>4 DEF Finish, Returned
      <3>2. \A r : ~Pending(r)
        BY <3>1 DEF Pending
      <3>3. QED
        BY <1>4, <2>0, <3>1, <3>2
    <2>5. CASE UNCHANGED vars
      <3>1. out' = out /\ frames' = frames /\ walk' = walk
        BY <2>5 DEF vars
      <3>2. \A r : Pending(r) => NowPending(r)
        BY <3>1 DEF Pending, NowPending
      <3>3. QED
        BY <1>4, <1>6, <2>0, <3>1, <3>2
    <2>6. QED
      BY <1>1, <1>6, <2>1, <2>2, <2>3, <2>4, <2>5 DEF Next, Step, Found, SearchBelow, SearchOn,
         ListRoot, PrintBelow, PrintOn, Printing, TableEntry, TableEnd, PrintCluster,
         PrintRange, StartListing, Listing
  <1>7. CASE walk = "done"
    <2>1. UNCHANGED vars
      BY <1>7 DEF Next, Step, vars, Found, SearchBelow, SearchOn, ListRoot, List, ListBelow,
         ListOn, Listing, PrintBelow, PrintOn, Printing, TableEntry, TableEnd, EndOfCluster,
         AtEntry, Walking, PrintCluster, PrintRange, StartListing, Finish, Returned
    <2>2. out' = out /\ walk' = walk
      BY <2>1 DEF vars
    <2>3. QED
      BY <1>1, <1>2, <1>4, <1>7, <2>2 DEF PathListed, Listing
  <1>8. QED
    BY <1>1, <1>5, <1>6, <1>7

\* ListInv holds at every step.
LEMMA ListStep ==
    ASSUME BaseInv, SearchInv, ListInv, [Next]_vars
    PROVE  ListInv'
  <1> SUFFICES ASSUME option = "l", PlainDirs
               PROVE  /\ Searching' => out' = << >>
                      /\ IF path = << >> THEN RootListed' ELSE PathListed'
    BY ArgumentsKept, MeaningKept DEF arguments, ListInv
  <1>1. ASSUME Searching' PROVE out' = << >>
    <2>1. BaseInv'
      BY StepArguments, StackStep, ResultStep DEF BaseInv
    <2>2. walk' = "get_cluster_num"
      <3>1. option' = "l"
        BY ArgumentsKept DEF arguments
      <3>2. FirstWalk[option'] = "get_cluster_num" \/ FirstWalk[option'] \notin
               {"get_cluster_data", "get_cluster_metadata"}
        BY <2>1, <3>1, FirstWalks DEF BaseInv, ArgumentsOK
      <3>3. QED
        BY <1>1, <2>1, <3>1, <3>2, FirstWalks DEF BaseInv, ArgumentsOK, WalkOK, Searching
    <2>3. Searching /\ ~StartListing
      <3>1. walk' = walk \/ walk' \in {"done", "print_files_path"}
        BY DEF Next, Step, vars, Found, SearchBelow, SearchOn, ListRoot, List, ListBelow,
           ListOn, PrintBelow, PrintOn, TableEntry, TableEnd, EndOfCluster, PrintCluster,
           PrintRange, StartListing, Finish
      <3>2. QED
        BY <2>2, <3>1 DEF Searching, StartListing
    <2>4. CASE Found \/ SearchBelow \/ SearchOn \/ EndOfCluster
      BY <2>3, <2>4, ListSearchStep
    <2>5. CASE UNCHANGED vars
      BY <2>3, <2>5 DEF vars, ListInv
    <2>6. QED
      BY <2>2, <2>3, <2>4, <2>5 DEF Next, Step, ListRoot, List, ListBelow, ListOn, Listing,
         PrintBelow, PrintOn, Printing, TableEntry, TableEnd, PrintCluster, PrintRange, Finish,
         Searching
  <1>2. QED
    BY <1>1, RootListStep, PathListStep

\* -l lists, in order, the live entries that are read of the directory that a plain
\* and short path means: all of them if the directory fits into a cluster.  If the
\* path means none it prints nothing.
THEOREM ListIsExact == Spec => []ListExact
  <1>1. BaseInv /\ SearchInv /\ ListInv => ListExact
    <2> SUFFICES ASSUME BaseInv, ListInv, walk = "done", option = "l", PlainPath
                 PROVE  /\ DirsAt[Len(path)] = {} => out = << >>
                        /\ ShortPath => \A c \in DirsAt[Len(path)] : Unmarked(c) =>
                              [i \in 1 .. Len(out) |-> out[i].name]
                                 = LiveNames(c)[IF Fits(c) THEN Len(Directory(c)) ELSE Slots]
      BY DEF ListExact
    <2>0. PlainDirs /\ Len(path) \in 0 .. Len(path)
      BY PlainLeads, PathFacts DEF BaseInv
    <2> USE DEF BaseInv
    <2>1. ASSUME path = << >>
          PROVE  /\ DirsAt[Len(path)] = {} => out = << >>
                 /\ ShortPath => \A c \in DirsAt[Len(path)] : out = Lines(Entries(c))
      <3>1. DirsAt[Len(path)] = {Root}
        <4>1. Len(path) = 0
          BY <2>1
        <4>2. QED
          BY <4>1, DirsAtUnfold
      <3>2. out = Lines(Entries(Root))
        BY <2>0, <2>1 DEF ListInv, RootListed
      <3>3. QED
        BY <3>1, <3>2
    <2>2. ASSUME path # << >>
          PROVE  /\ DirsAt[Len(path)] = {} => out = << >>
                 /\ ShortPath => \A c \in DirsAt[Len(path)] : out = Lines(Entries(c))
      <3>1. Len(path) \in 1 .. Len(path)
        <4>1. path \in Seq(Texts)
          BY PathFacts
        <4>2. QED
          BY <2>2, <4>1
      <3>2. Denoted = Named(DirsAt[Len(path) - 1], path[Len(path)])
        BY <2>2 DEF Denoted
      <3>3. DirsAt[Len(path)] = {e.start : e \in {x \in Denoted : x.attr = "dir"}}
        BY <3>1, <3>2, DirsAtUnfold DEF Lead
      <3>4. ASSUME Listed PROVE \E c \in DirsAt[Len(path)] : out = Lines(Entries(c))
        <4>1. PICK e \in Denoted : IsDir(e) /\ out = Lines(Entries(FirstCluster(e)))
          BY <3>4 DEF Listed
        <4>2. FirstCluster(e) = e.start
          BY DenotedFacts
        <4>3. QED
          BY <3>3, <4>1, <4>2 DEF IsDir
      <3>5. PathListed /\ ~Searching /\ ~Listing
        BY <2>0, <2>2 DEF ListInv, Searching, Listing
      <3>6. ASSUME DirsAt[Len(path)] = {} PROVE out = << >>
        BY <3>4, <3>5, <3>6 DEF PathListed
      <3>7. ASSUME ShortPath, NEW c \in DirsAt[Len(path)] PROVE out = Lines(Entries(c))
        <4>1. PICK e \in Denoted : e.attr = "dir"
          BY <3>3
        <4>2. IsDir(e)
          BY <4>1, DenotedFacts DEF IsDir, IsFile
        <4>3. PICK r : Route(r) /\ r[Len(path)] = e
          BY <3>7, RouteExists
        <4>4. Listed
          BY <3>5, <4>2, <4>3 DEF PathListed
        <4>5. PICK d \in DirsAt[Len(path)] : out = Lines(Entries(d))
          BY <3>4, <4>4
        <4>6. d = c
          BY <2>0, DirsAtOnce
        <4>7. QED
          BY <4>5, <4>6
      <3>8. QED
        BY <3>6, <3>7
    <2>3. /\ DirsAt[Len(path)] = {} => out = << >>
          /\ ShortPath => \A c \in DirsAt[Len(path)] : out = Lines(Entries(c))
      BY <2>1, <2>2
    <2>4. ASSUME ShortPath, NEW c \in DirsAt[Len(path)], Unmarked(c)
          PROVE  [i \in 1 .. Len(out) |-> out[i].name]
                    = LiveNames(c)[IF Fits(c) THEN Len(Directory(c)) ELSE Slots]
      <3>1. c % Wrap = c
        BY <2>0, DirsAtPlace
      <3>2. out = Lines(Entries(c))
        BY <2>3, <2>4
      <3>3. QED
        BY <2>4, <3>1, <3>2, LinesNamed
    <2>5. QED
      BY <2>3, <2>4
  <1>2. Init => ListInv
    <2> SUFFICES ASSUME Init, option = "l" PROVE ListInv
      BY DEF ListInv
    <2>1. Searching /\ out = << >> /\ ~Listing /\ walk # "done"
      <3>1. walk = FirstWalk[option] /\ out = << >> /\ option \in Options
        BY DEF Init
      <3>2. walk = "get_cluster_num"
        BY <3>1, FirstWalks
      <3>3. QED
        BY <3>1, <3>2 DEF Searching, Listing
    <2>2. QED
      BY <2>1 DEF ListInv, RootListed, PathListed
  <1>3. BaseInv /\ SearchInv /\ ListInv /\ [Next]_vars => ListInv'
    BY ListStep
  <1>4. QED
    BY <1>1, <1>2, <1>3, BaseInvariance, SearchInvariance, PTL DEF Spec
=============================================================================
