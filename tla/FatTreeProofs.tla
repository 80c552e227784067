--------------------------- MODULE FatTreeProofs ---------------------------
(***************************************************************************)
(* Proof that -t prints each entry that it sees once, a directory just     *)
(* before what is in it; and that what it sees are live entries, all of    *)
(* them if every directory fits into a cluster and no entry has other bits *)
(* in its attribute.                                                       *)
(*                                                                         *)
(* The calls on the stack read directories that are seen, each in the one  *)
(* below (CallsInTree, CallsNested).  A line is due in a call when its     *)
(* entry, or the directory on the way to it, has a slot the call has yet   *)
(* to come to: every line that is seen is printed or due, and never both   *)
(* (LinesPrinted).                                                         *)
(***************************************************************************)
EXTENDS FatProofs

-----------------------------------------------------------------------------
(* The lines of one directory *)

\* The entries that -t takes for live ones, and those of a directory, of which it
\* reads one cluster.
Seen(e) == IsLive(e) /\ ~e.marked

SeenIn(c) == {e \in {Entries(c)[i] : i \in 1 .. Len(Entries(c))} : Seen(e)}

\* What -t appends to the path of a directory for an entry in it.
LineText(e) == IF IsFile(e) THEN FileText(e) ELSE DirText(e)

Padded(ext) == [i \in 1 .. 3 |-> IF i <= Len(ext) THEN ext[i] ELSE Blank]

\* Blanks in place of what is missing tell short extensions apart.
LEMMA PaddedOnce ==
    ASSUME NEW a \in Seq(Chars), NEW b \in Seq(Chars), Len(a) <= 3, Len(b) <= 3,
           \A i \in 1 .. Len(a) : a[i] # Blank, \A i \in 1 .. Len(b) : b[i] # Blank,
           Padded(a) = Padded(b)
    PROVE  a = b
  <1>1. Len(a) \in 0 .. 3 /\ Len(b) \in 0 .. 3
    <2> DEFINE m == Len(a)
               n == Len(b)
    <2>1. m \in Nat /\ n \in Nat /\ m <= 3 /\ n <= 3
      OBVIOUS
    <2> HIDE DEF m, n
    <2>2. m \in 0 .. 3 /\ n \in 0 .. 3
      BY <2>1
    <2>3. QED
      BY <2>2 DEF m, n
  <1>2. \A i \in 1 .. 3 : (IF i <= Len(a) THEN a[i] ELSE Blank) = (IF i <= Len(b) THEN b[i] ELSE Blank)
    <2>1. \A i \in 1 .. 3 : Padded(a)[i] = Padded(b)[i]
      OBVIOUS
    <2>2. QED
      BY <2>1 DEF Padded
  <1>3. ~(Len(a) < Len(b))
    <2> SUFFICES ASSUME Len(a) < Len(b) PROVE FALSE
      OBVIOUS
    <2>1. Len(b) \in 1 .. 3 /\ Len(b) \in 1 .. Len(b)
      BY <1>1
    <2>2. b[Len(b)] = Blank
      BY <1>1, <1>2, <2>1
    <2>3. QED
      BY <2>1, <2>2
  <1>4. ~(Len(b) < Len(a))
    <2> SUFFICES ASSUME Len(b) < Len(a) PROVE FALSE
      OBVIOUS
    <2>1. Len(a) \in 1 .. 3 /\ Len(a) \in 1 .. Len(a)
      BY <1>1
    <2>2. a[Len(a)] = Blank
      BY <1>1, <1>2, <2>1
    <2>3. QED
      BY <2>1, <2>2
  <1>5. Len(a) = Len(b)
    BY <1>1, <1>3, <1>4
  <1>6. \A i \in 1 .. Len(a) : a[i] = b[i]
    BY <1>1, <1>2, <1>5
  <1>7. QED
    BY <1>5, <1>6

\* No two entries of a directory have the same line.
LEMMA LineOnce ==
    ASSUME ArgumentsOK, NEW c, NEW i \in 1 .. Len(Entries(c)), NEW j \in 1 .. Len(Entries(c)),
           Seen(Entries(c)[i]), Seen(Entries(c)[j]),
           LineText(Entries(c)[i]) = LineText(Entries(c)[j])
    PROVE  i = j
  <1> DEFINE e == Entries(c)[i]
             f == Entries(c)[j]
  <1>1. IsEntry(e) /\ IsEntry(f)
    BY EntriesFacts
  <1>2. <<e.base, e.ext>> # <<f.base, f.ext>> \/ i = j
    <2>1. /\ i \in 1 .. Len(Directory(c % Wrap)) /\ e = Directory(c % Wrap)[i]
          /\ j \in 1 .. Len(Directory(c % Wrap)) /\ f = Directory(c % Wrap)[j]
      BY EntriesFacts
    <2>2. IsLive(e) /\ IsLive(f)
      BY DEF Seen, IsLive
    <2> HIDE DEF e, f
    <2>3. QED
      BY <2>1, <2>2, DiskFacts
  <1>3. Seen(e) /\ Seen(f) /\ LineText(e) = LineText(f)
    OBVIOUS
  <1> HIDE DEF e, f
  <1>4. e.attr \in {"file", "dir", "label"} /\ f.attr \in {"file", "dir", "label"}
    BY <1>1 DEF IsEntry, Fields
  <1>5. e.ext \in Seq(Chars) /\ f.ext \in Seq(Chars)
    BY <1>1 DEF IsEntry, Fields
  <1>6. CASE IsFile(e) /\ IsFile(f)
    <2>1. <<e.base, Padded(e.ext)>> = <<f.base, Padded(f.ext)>>
      BY <1>3, <1>6 DEF LineText, FileText, Padded
    <2>2. e.base = f.base /\ Padded(e.ext) = Padded(f.ext)
      BY <2>1
    <2>3. e.ext = f.ext
      BY <1>1, <1>5, <2>2, PaddedOnce DEF IsEntry
    <2>4. QED
      BY <1>2, <2>2, <2>3
  <1>7. CASE IsDir(e) /\ IsDir(f)
    <2>1. <<e.base>> = <<f.base>>
      BY <1>3, <1>7 DEF LineText, DirText, IsDir, IsFile
    <2>2. e.base = f.base /\ e.ext = << >> /\ f.ext = << >>
      BY <1>1, <1>7, <2>1 DEF IsEntry, IsDir
    <2>3. QED
      BY <1>2, <2>2
  <1>8. CASE IsFile(e) /\ IsDir(f)
    <2>1. <<e.base, Padded(e.ext)>> = <<f.base>>
      BY <1>3, <1>8 DEF LineText, FileText, DirText, Padded, IsDir, IsFile
    <2>2. QED
      BY <2>1
  <1>9. CASE IsDir(e) /\ IsFile(f)
    <2>1. <<e.base>> = <<f.base, Padded(f.ext)>>
      BY <1>3, <1>9 DEF LineText, FileText, DirText, Padded, IsDir, IsFile
    <2>2. QED
      BY <2>1
  <1>10. QED
    BY <1>3, <1>4, <1>6, <1>7, <1>8, <1>9 DEF Seen, IsLive, IsFile, IsDir

-----------------------------------------------------------------------------
(* The directories *)

\* The subdirectories of directories D, with their paths: the live ones, or those
\* that are seen.
Below1(D, all) ==
    UNION {{[at |-> Append(d.at, DirText(e)), c |-> e.start] :
               e \in {x \in (IF all THEN LiveIn(d.c) ELSE SeenIn(d.c)) :
                         x.attr = "dir" /\ ~IsDots(x)}} : d \in D}

IsTree(f, n, all) ==
    f = [k \in 0 .. n |-> IF k = 0 THEN {[at |-> << >>, c |-> Root]} ELSE Below1(f[k - 1], all)]

Tree == CHOOSE f : IsTree(f, Levels, FALSE)

SeenDirs == UNION {Tree[k] : k \in 0 .. Levels}

SeenLines == UNION {{Append(d.at, LineText(e)) : e \in SeenIn(d.c)} : d \in SeenDirs}

\* The recursions over the levels have a solution.
LEMMA TreeExists ==
    ASSUME NEW all
    PROVE  \A n \in Nat : \E f : IsTree(f, n, all)
  <1> DEFINE Q == {n \in Nat : \E f : IsTree(f, n, all)}
  <1>1. 0 \in Q
    <2>1. IsTree([k \in 0 .. 0 |-> {[at |-> << >>, c |-> Root]}], 0, all)
      BY DEF IsTree
    <2>2. QED
      BY <2>1
  <1>2. ASSUME NEW n \in Nat, n \in Q PROVE n + 1 \in Q
    <2>1. PICK f : IsTree(f, n, all)
      BY <1>2
    <2> DEFINE g == [k \in 0 .. n + 1 |-> IF k <= n THEN f[k] ELSE Below1(f[n], all)]
    <2>2. ASSUME NEW k \in 0 .. n + 1
          PROVE  g[k] = IF k = 0 THEN {[at |-> << >>, c |-> Root]} ELSE Below1(g[k - 1], all)
      <3>1. CASE k = 0
        <4>1. 0 \in 0 .. n
          OBVIOUS
        <4>2. f[0] = {[at |-> << >>, c |-> Root]}
          BY <2>1, <4>1 DEF IsTree
        <4>3. QED
          BY <3>1, <4>2
      <3>2. CASE k \in 1 .. n
        <4>1. k \in 0 .. n /\ k - 1 \in 0 .. n /\ k # 0
          BY <3>2
        <4>2. f[k] = Below1(f[k - 1], all)
          BY <2>1, <4>1 DEF IsTree
        <4>3. g[k] = f[k] /\ g[k - 1] = f[k - 1]
          BY <4>1
        <4>4. QED
          BY <4>1, <4>2, <4>3
      <3>3. CASE k = n + 1
        <4>1. g[k] = Below1(f[n], all) /\ g[k - 1] = f[n] /\ k # 0
          BY <3>3
        <4>2. QED
          BY <3>3, <4>1
      <3>4. QED
        BY <3>1, <3>2, <3>3
    <2>3. IsTree(g, n + 1, all)
      <3>1. g = [k \in 0 .. n + 1 |-> g[k]]
        OBVIOUS
      <3> HIDE DEF g
      <3>2. QED
        BY <2>2, <3>1 DEF IsTree
    <2> HIDE DEF g
    <2>4. QED
      BY <2>3
  <1> HIDE DEF Q
  <1>3. \A n \in Nat : n \in Q
    BY <1>1, <1>2, NatSetInduction
  <1>4. QED
    BY <1>3 DEF Q

\* A function with the values of IsTree has them level by level.
LEMMA LevelByLevel ==
    ASSUME NEW f, NEW n \in Nat, NEW all, IsTree(f, n, all)
    PROVE  /\ f[0] = {[at |-> << >>, c |-> Root]}
           /\ \A k \in 1 .. n : f[k] = Below1(f[k - 1], all)
           /\ DOMAIN f = 0 .. n
  <1>1. f = [k \in 0 .. n |-> IF k = 0 THEN {[at |-> << >>, c |-> Root]} ELSE Below1(f[k - 1], all)]
    BY DEF IsTree
  <1>2. DOMAIN f = 0 .. n
    BY <1>1, Zenon
  <1>3. 0 \in 0 .. n
    OBVIOUS
  <1>4. f[0] = {[at |-> << >>, c |-> Root]}
    BY <1>1, <1>3, Zenon
  <1>5. ASSUME NEW k \in 1 .. n PROVE f[k] = Below1(f[k - 1], all)
    <2>1. k \in 0 .. n /\ k # 0
      OBVIOUS
    <2>2. QED
      BY <1>1, <2>1, Zenon
  <1>6. QED
    BY <1>2, <1>4, <1>5

\* The directories that are seen, level by level.
LEMMA TreeUnfold ==
    ASSUME ArgumentsOK
    PROVE  /\ Tree[0] = {[at |-> << >>, c |-> Root]}
           /\ \A k \in 1 .. Levels : Tree[k] = Below1(Tree[k - 1], FALSE)
  <1>1. Levels \in Nat
    BY DiskFacts
  <1>2. IsTree(Tree, Levels, FALSE)
    BY <1>1, TreeExists DEF Tree
  <1> HIDE DEF Tree
  <1>3. QED
    BY <1>1, <1>2, LevelByLevel

-----------------------------------------------------------------------------
(* Lines *)

IsChild(p, e, d) ==
    /\ e \in SeenIn(p.c) /\ IsDir(e) /\ ~IsDots(e)
    /\ d = [at |-> Append(p.at, DirText(e)), c |-> e.start]

\* The directories of a level are those below the directories of the one above.
LEMMA TreeChildren ==
    ASSUME ArgumentsOK, NEW k \in 1 .. Levels
    PROVE  /\ \A d \in Tree[k] : \E p \in Tree[k - 1] : \E e \in SeenIn(p.c) : IsChild(p, e, d)
           /\ \A p \in Tree[k - 1] : \A e \in SeenIn(p.c) : \A d : IsChild(p, e, d) => d \in Tree[k]
  <1>1. Tree[k] = Below1(Tree[k - 1], FALSE)
    BY TreeUnfold
  <1>2. \A c : \A e \in SeenIn(c) : IsDir(e) <=> e.attr = "dir"
    BY DEF SeenIn, Seen, IsLive, IsDir
  <1>3. QED
    BY <1>1, <1>2 DEF Below1, IsChild

\* An entry that is seen has a slot and a text.
LEMMA SeenFacts ==
    ASSUME ArgumentsOK, NEW c, NEW e \in SeenIn(c)
    PROVE  /\ \E i \in 1 .. Len(Entries(c)) : Entries(c)[i] = e
           /\ Seen(e) /\ IsEntry(e) /\ e \in Fields
           /\ DirText(e) \in Texts /\ LineText(e) \in Texts
           /\ IsDir(e) => LineText(e) = DirText(e)
           /\ ~IsDir(e) => IsFile(e)
  <1>1. PICK i \in 1 .. Len(Entries(c)) : Entries(c)[i] = e
    BY DEF SeenIn
  <1>2. Seen(e)
    BY DEF SeenIn
  <1>3. IsEntry(e) /\ e \in Fields
    BY <1>1, EntriesFacts
  <1>4. DirText(e) \in Texts /\ LineText(e) \in Texts
    BY <1>3, TextTypes DEF LineText
  <1>5. e.attr \in {"file", "dir"} /\ ~e.marked
    BY <1>2, <1>3 DEF Seen, IsLive, Fields
  <1>6. QED
    BY <1>1, <1>2, <1>3, <1>4, <1>5 DEF LineText, IsDir, IsFile

\* Two entries with the same line are one.
LEMMA SeenOnce ==
    ASSUME ArgumentsOK, NEW c, NEW e \in SeenIn(c), NEW f \in SeenIn(c), LineText(e) = LineText(f)
    PROVE  e = f
  <1>1. PICK i \in 1 .. Len(Entries(c)) : Entries(c)[i] = e
    BY SeenFacts
  <1>2. PICK j \in 1 .. Len(Entries(c)) : Entries(c)[j] = f
    BY SeenFacts
  <1>3. Seen(e) /\ Seen(f)
    BY DEF SeenIn
  <1>4. i = j
    BY <1>1, <1>2, <1>3, LineOnce
  <1>5. QED
    BY <1>1, <1>2, <1>4

\* The path of a directory that is seen has a text for each level.
LEMMA TreeTypes ==
    ASSUME ArgumentsOK
    PROVE  \A k \in 0 .. Levels : \A d \in Tree[k] : d.at \in Seq(Texts) /\ Len(d.at) = k
  <1> DEFINE Q == {k \in Nat : k <= Levels => \A d \in Tree[k] : d.at \in Seq(Texts) /\ Len(d.at) = k}
  <1>0. Levels \in Nat
    BY DiskFacts
  <1>1. 0 \in Q
    <2>1. Tree[0] = {[at |-> << >>, c |-> Root]}
      BY TreeUnfold
    <2>2. << >> \in Seq(Texts) /\ Len(<< >>) = 0
      OBVIOUS
    <2>3. ASSUME NEW d \in Tree[0] PROVE d.at = << >>
      BY <2>1
    <2>4. \A d \in Tree[0] : d.at \in Seq(Texts) /\ Len(d.at) = 0
      BY <2>2, <2>3, Zenon
    <2>5. QED
      BY <2>4
  <1>2. ASSUME NEW n \in Nat, n \in Q PROVE n + 1 \in Q
    <2> SUFFICES ASSUME n + 1 <= Levels, NEW d \in Tree[n + 1]
                 PROVE  d.at \in Seq(Texts) /\ Len(d.at) = n + 1
      OBVIOUS
    <2>1. n + 1 \in 1 .. Levels /\ n + 1 - 1 = n /\ n <= Levels
      BY <1>0
    <2>a. PICK p \in Tree[n] : \E e \in SeenIn(p.c) : IsChild(p, e, d)
      BY <2>1, TreeChildren
    <2>2. PICK e \in SeenIn(p.c) : IsChild(p, e, d)
      BY <2>a
    <2>3. p.at \in Seq(Texts) /\ Len(p.at) = n
      BY <1>2, <2>1, <2>2
    <2>4. DirText(e) \in Texts
      BY <2>2, SeenFacts
    <2>5. d.at = Append(p.at, DirText(e))
      BY <2>2 DEF IsChild
    <2>6. QED
      BY <2>3, <2>4, <2>5
  <1> HIDE DEF Q
  <1>3. \A n \in Nat : n \in Q
    BY <1>1, <1>2, NatSetInduction
  <1>4. QED
    BY <1>0, <1>3 DEF Q

\* What a path with one more text is made of.
LEMMA AppendParts ==
    ASSUME NEW s \in Seq(Texts), NEW x \in Texts
    PROVE  /\ Append(s, x) \in Seq(Texts) /\ Len(Append(s, x)) = Len(s) + 1
           /\ \A i \in 1 .. Len(s) : Append(s, x)[i] = s[i]
           /\ Append(s, x)[Len(s) + 1] = x
  OBVIOUS

\* A path has one last text and one rest.
LEMMA AppendOnce ==
    ASSUME NEW s \in Seq(Texts), NEW t \in Seq(Texts), NEW x \in Texts, NEW y \in Texts,
           Append(s, x) = Append(t, y)
    PROVE  s = t /\ x = y
  <1>1. Len(s) \in Nat /\ Len(t) \in Nat /\ Len(s) + 1 = Len(t) + 1
    BY AppendParts
  <1>2. Len(s) = Len(t)
    BY <1>1
  <1>3. x = y
    BY <1>2, AppendParts
  <1>4. \A i \in 1 .. Len(s) : s[i] = t[i]
    BY <1>2, AppendParts
  <1>5. QED
    BY <1>2, <1>3, <1>4

\* A path leads to one directory that is seen.
LEMMA TreeOnce ==
    ASSUME ArgumentsOK
    PROVE  \A k \in 0 .. Levels : \A d, g \in Tree[k] : d.at = g.at => d = g
  <1> DEFINE Q == {k \in Nat : k <= Levels => \A d, g \in Tree[k] : d.at = g.at => d = g}
  <1>0. Levels \in Nat
    BY DiskFacts
  <1>1. 0 \in Q
    BY TreeUnfold
  <1>2. ASSUME NEW n \in Nat, n \in Q PROVE n + 1 \in Q
    <2> SUFFICES ASSUME n + 1 <= Levels, NEW d \in Tree[n + 1], NEW g \in Tree[n + 1], d.at = g.at
                 PROVE  d = g
      OBVIOUS
    <2>1. n + 1 \in 1 .. Levels /\ n + 1 - 1 = n /\ n <= Levels /\ n \in 0 .. Levels
      BY <1>0
    <2>a. PICK p \in Tree[n] : \E e \in SeenIn(p.c) : IsChild(p, e, d)
      BY <2>1, TreeChildren
    <2>2. PICK e \in SeenIn(p.c) : IsChild(p, e, d)
      BY <2>a
    <2>b. PICK q \in Tree[n] : \E f \in SeenIn(q.c) : IsChild(q, f, g)
      BY <2>1, TreeChildren
    <2>3. PICK f \in SeenIn(q.c) : IsChild(q, f, g)
      BY <2>b
    <2>4. p.at \in Seq(Texts) /\ q.at \in Seq(Texts)
      BY <2>1, <2>2, <2>3, TreeTypes
    <2>5. DirText(e) \in Texts /\ DirText(f) \in Texts
      BY <2>2, <2>3, SeenFacts
    <2>6. Append(p.at, DirText(e)) = Append(q.at, DirText(f))
      BY <2>2, <2>3 DEF IsChild
    <2>7. p.at = q.at /\ DirText(e) = DirText(f)
      <3> DEFINE s == p.at
                 t == q.at
                 x == DirText(e)
                 y == DirText(f)
      <3>1. s \in Seq(Texts) /\ t \in Seq(Texts) /\ x \in Texts /\ y \in Texts
            /\ Append(s, x) = Append(t, y)
        BY <2>4, <2>5, <2>6
      <3> HIDE DEF s, t, x, y
      <3>2. s = t /\ x = y
        BY <3>1, AppendOnce
      <3>3. QED
        BY <3>2 DEF s, t, x, y
    <2>8. p = q
      BY <1>2, <2>1, <2>2, <2>3, <2>7
    <2>9. LineText(e) = LineText(f)
      BY <2>2, <2>3, <2>7, SeenFacts DEF IsChild
    <2>10. e = f
      BY <2>2, <2>3, <2>8, <2>9, SeenOnce
    <2>11. QED
      BY <2>2, <2>3, <2>8, <2>10 DEF IsChild
  <1> HIDE DEF Q
  <1>3. \A n \in Nat : n \in Q
    BY <1>1, <1>2, NatSetInduction
  <1>4. QED
    BY <1>0, <1>3 DEF Q

\* A path that leads to a place at or below another one.
Starts(l, at) == Len(at) <= Len(l) /\ \A i \in 1 .. Len(at) : l[i] = at[i]

\* A step on the way of l: at level n it goes through an entry that is seen.
Way(l, n, p, e) ==
    /\ e \in SeenIn(p.c)
    /\ Starts(l, p.at)
    /\ l[n] = LineText(e)
    /\ n < Len(l) => \E g \in Tree[n] : IsChild(p, e, g)

\* The way to a directory that is seen goes through such directories.
LEMMA TreeWay ==
    ASSUME ArgumentsOK
    PROVE  \A k \in 0 .. Levels : \A d \in Tree[k] : \A n \in 1 .. k :
              \E p \in Tree[n - 1] : \E e \in SeenIn(p.c) :
                 Starts(d.at, p.at) /\ d.at[n] = DirText(e) /\ \E g \in Tree[n] : IsChild(p, e, g)
  <1> DEFINE W(d, n, p, e) == Starts(d.at, p.at) /\ d.at[n] = DirText(e) /\ \E g \in Tree[n] : IsChild(p, e, g)
             Q == {k \in Nat : k <= Levels => \A d \in Tree[k] : \A n \in 1 .. k :
                                 \E p \in Tree[n - 1] : \E e \in SeenIn(p.c) : W(d, n, p, e)}
  <1>0. Levels \in Nat
    BY DiskFacts
  <1>1. 0 \in Q
    OBVIOUS
  <1>2. ASSUME NEW k \in Nat, k \in Q PROVE k + 1 \in Q
    <2> SUFFICES ASSUME k + 1 <= Levels, NEW d \in Tree[k + 1], NEW n \in 1 .. k + 1
                 PROVE  \E p \in Tree[n - 1] : \E e \in SeenIn(p.c) : W(d, n, p, e)
      OBVIOUS
    <2>1. k + 1 \in 1 .. Levels /\ k + 1 - 1 = k /\ k <= Levels /\ k \in 0 .. Levels
      BY <1>0
    <2>2. PICK q \in Tree[k] : \E f \in SeenIn(q.c) : IsChild(q, f, d)
      BY <2>1, TreeChildren
    <2>3. PICK f \in SeenIn(q.c) : IsChild(q, f, d)
      BY <2>2
    <2>4. q.at \in Seq(Texts) /\ Len(q.at) = k /\ DirText(f) \in Texts
      BY <2>1, SeenFacts, TreeTypes
    <2>5. d.at = Append(q.at, DirText(f))
      BY <2>3 DEF IsChild
    <2>6. Len(d.at) = k + 1 /\ (\A i \in 1 .. k : d.at[i] = q.at[i]) /\ d.at[k + 1] = DirText(f)
      BY <2>4, <2>5, AppendParts
    <2>7. CASE n = k + 1
      <3>1. Starts(d.at, q.at)
        BY <2>4, <2>6 DEF Starts
      <3>2. W(d, n, q, f)
        BY <2>3, <2>6, <2>7, <3>1
      <3>3. n - 1 = k
        BY <2>7
      <3>4. QED
        BY <3>2, <3>3
    <2>8. CASE n # k + 1
      <3>1. n \in 1 .. k
        BY <2>8
      <3>2. PICK p \in Tree[n - 1] : \E e \in SeenIn(p.c) : W(q, n, p, e)
        BY <1>2, <2>1, <3>1
      <3>3. PICK e \in SeenIn(p.c) : W(q, n, p, e)
        BY <3>2
      <3>4. Len(p.at) = n - 1
        <4>1. n - 1 \in 0 .. Levels
          BY <1>0, <2>1, <3>1
        <4>2. QED
          BY <4>1, TreeTypes
      <3>5. Starts(d.at, p.at)
        BY <2>4, <2>6, <3>1, <3>3, <3>4 DEF Starts
      <3>6. d.at[n] = DirText(e)
        BY <2>6, <3>1, <3>3
      <3>7. QED
        BY <3>3, <3>5, <3>6
    <2>9. QED
      BY <2>7, <2>8
  <1> HIDE DEF Q
  <1>3. \A n \in Nat : n \in Q
    BY <1>1, <1>2, NatSetInduction
  <1>4. ASSUME NEW k \in 0 .. Levels
        PROVE  \A d \in Tree[k] : \A n \in 1 .. k : \E p \in Tree[n - 1] : \E e \in SeenIn(p.c) : W(d, n, p, e)
    <2>1. k \in Nat /\ k <= Levels
      BY <1>0
    <2>2. k \in Q
      BY <1>3, <2>1
    <2> HIDE DEF W
    <2>3. QED
      BY <2>1, <2>2 DEF Q
  <1>5. QED
    BY <1>4

\* A line that is seen is that of an entry and a directory that are.
LEMMA LinesAre ==
    ASSUME ArgumentsOK
    PROVE  /\ \A l \in SeenLines : \E k \in 0 .. Levels : \E d \in Tree[k] :
                 \E e \in SeenIn(d.c) : l = Append(d.at, LineText(e))
           /\ \A k \in 0 .. Levels : \A d \in Tree[k] : \A e \in SeenIn(d.c) :
                 Append(d.at, LineText(e)) \in SeenLines
  <1>1. SeenDirs = UNION {Tree[k] : k \in 0 .. Levels}
    BY DEF SeenDirs
  <1>2. SeenLines = UNION {{Append(d.at, LineText(e)) : e \in SeenIn(d.c)} : d \in SeenDirs}
    BY DEF SeenLines
  <1>3. ASSUME NEW l \in SeenLines
        PROVE  \E k \in 0 .. Levels : \E d \in Tree[k] : \E e \in SeenIn(d.c) : l = Append(d.at, LineText(e))
    <2>1. PICK d \in SeenDirs : \E e \in SeenIn(d.c) : l = Append(d.at, LineText(e))
      BY <1>2
    <2>2. PICK k \in 0 .. Levels : d \in Tree[k]
      BY <1>1
    <2>3. QED
      BY <2>1, <2>2
  <1>4. ASSUME NEW k \in 0 .. Levels, NEW d \in Tree[k], NEW e \in SeenIn(d.c)
        PROVE  Append(d.at, LineText(e)) \in SeenLines
    <2>1. d \in SeenDirs
      BY <1>1
    <2>2. Append(d.at, LineText(e)) \in {Append(d.at, LineText(x)) : x \in SeenIn(d.c)}
      OBVIOUS
    <2>3. QED
      BY <1>2, <2>1, <2>2
  <1>5. QED
    BY <1>3, <1>4

\* The way to such a line.
LEMMA LineWay ==
    ASSUME ArgumentsOK, NEW l \in SeenLines
    PROVE  /\ l \in Seq(Texts) /\ Len(l) \in 1 .. Levels + 1
           /\ \A n \in 1 .. Len(l) : \E p \in Tree[n - 1] : \E e \in SeenIn(p.c) : Way(l, n, p, e)
  <1>0. Levels \in Nat
    BY DiskFacts
  <1>1. PICK k \in 0 .. Levels : \E d \in Tree[k] : \E e \in SeenIn(d.c) : l = Append(d.at, LineText(e))
    BY LinesAre
  <1>2. PICK d \in Tree[k] : \E e \in SeenIn(d.c) : l = Append(d.at, LineText(e))
    BY <1>1
  <1>3. PICK e \in SeenIn(d.c) : l = Append(d.at, LineText(e))
    BY <1>2
  <1>4. d.at \in Seq(Texts) /\ Len(d.at) = k /\ LineText(e) \in Texts
    BY SeenFacts, TreeTypes
  <1>5. l \in Seq(Texts) /\ Len(l) = k + 1 /\ (\A i \in 1 .. k : l[i] = d.at[i]) /\ l[k + 1] = LineText(e)
    BY <1>3, <1>4, AppendParts
  <1>6. Len(l) \in 1 .. Levels + 1
    BY <1>0, <1>5
  <1>7. ASSUME NEW n \in 1 .. Len(l) PROVE \E p \in Tree[n - 1] : \E f \in SeenIn(p.c) : Way(l, n, p, f)
    <2>1. CASE n = k + 1
      <3>1. Starts(l, d.at)
        BY <1>4, <1>5 DEF Starts
      <3>2. Way(l, n, d, e)
        BY <1>5, <2>1, <3>1 DEF Way
      <3>3. n - 1 = k
        BY <2>1
      <3>4. QED
        BY <3>2, <3>3
    <2>2. CASE n # k + 1
      <3>1. n \in 1 .. k /\ n - 1 \in 0 .. Levels /\ n < Len(l)
        BY <1>0, <1>5, <2>2
      <3>2. PICK p \in Tree[n - 1] : \E f \in SeenIn(p.c) :
                Starts(d.at, p.at) /\ d.at[n] = DirText(f) /\ \E g \in Tree[n] : IsChild(p, f, g)
        BY <3>1, TreeWay
      <3>3. PICK f \in SeenIn(p.c) :
                Starts(d.at, p.at) /\ d.at[n] = DirText(f) /\ \E g \in Tree[n] : IsChild(p, f, g)
        BY <3>2
      <3>4. Len(p.at) = n - 1
        BY <3>1, TreeTypes
      <3>5. Starts(l, p.at)
        BY <1>4, <1>5, <3>1, <3>3, <3>4 DEF Starts
      <3>6. l[n] = LineText(f)
        <4>1. IsDir(f)
          BY <3>3 DEF IsChild
        <4>2. LineText(f) = DirText(f)
          BY <4>1, SeenFacts
        <4>3. QED
          BY <1>5, <3>1, <3>3, <4>2
      <3>7. Way(l, n, p, f)
        BY <3>3, <3>5, <3>6 DEF Way
      <3>8. QED
        BY <3>7
    <2>3. QED
      BY <2>1, <2>2
  <1>8. QED
    BY <1>5, <1>6, <1>7

-----------------------------------------------------------------------------
(* The walk of print_files: its calls read the directories on the way      *)
(* to where it is.                                                         *)

\* The call for the entry that is read.  print_files does not go on after a read
\* that failed.
Child == Call(Entry, Entries(FirstCluster(Entry)))

\* All first clusters are read as they are meant.
SmallClusters == \A d \in SeenDirs : d.c < 256

ReadsDir(f, d) == f.begin = d.at /\ f.buffer = Entries(d.c)

CallsInTree(fs) == \A k \in 1 .. Len(fs) : \E d \in Tree[k - 1] : ReadsDir(fs[k], d)

\* The entry that call f went on from.
Last(f) == f.buffer[f.x - 1]

CallsNested(fs) ==
    \A m, n \in 1 .. Len(fs) : m < n =>
        /\ Starts(fs[n].begin, fs[m].begin)
        /\ fs[m].x - 1 \in 1 .. Len(fs[m].buffer)
        /\ Seen(Last(fs[m])) /\ IsDir(Last(fs[m]))
        /\ fs[n].begin[m] = DirText(Last(fs[m]))

\* Line l is that of an entry that call f, the k-th, has yet to come to, or of
\* one below it.
Due(f, l, k) ==
    /\ k <= Len(l)
    /\ Starts(l, f.begin)
    /\ \E i \in f.x .. Len(f.buffer) : Seen(f.buffer[i]) /\ LineText(f.buffer[i]) = l[k]

DueIn(fs, l) == \E k \in 1 .. Len(fs) : Due(fs[k], l, k)

\* A step of print_files over one entry.
PrintStep ==
    /\ AtEntry
    /\ out' = IF Seen(Entry) THEN Append(out, Here(LineText(Entry))) ELSE out
    /\ frames' = IF Enters(Entry) THEN Append(Advanced, Child) ELSE Advanced
    /\ walk' = walk

\* An entry is printed when it is seen, and entered when it is a directory, too.
LEMMA PrintSteps ==
    ASSUME ArgumentsOK, StackOK, PrintBelow \/ PrintOn
    PROVE  PrintStep
  <1>1. AtEntry
    BY DEF PrintBelow, PrintOn
  <1>2. IsEntry(Entry) /\ Entry \in Fields
    BY <1>1, EntryFacts
  <1>3. Entry.attr \in {"file", "dir", "label"}
    BY <1>2 DEF Fields
  <1>4. Entry.base \in DotNames => Entry.attr = "dir"
    BY <1>2 DEF IsEntry
  <1>5. CASE PrintBelow
    <2>a. walk = "print_files"
      BY <1>5 DEF PrintBelow, Printing
    <2>1. Enters(Entry) /\ out' = Append(out, Here(DirText(Entry))) /\ frames' = Append(Advanced, Child)
      BY <1>5, <2>a DEF PrintBelow, Enter, Reads, Entered, Child, Call
    <2>2. Seen(Entry) /\ LineText(Entry) = DirText(Entry)
      BY <2>1 DEF Enters, Seen, IsLive, IsDir, IsFile, LineText
    <2>3. walk' = walk
      BY <1>5 DEF PrintBelow
    <2>4. QED
      BY <1>1, <2>1, <2>2, <2>3 DEF PrintStep
  <1>6. CASE PrintOn
    <2>1. ~Enters(Entry) /\ frames' = Advanced
      BY <1>6 DEF PrintOn
    <2>2. PrintsLine(Entry) <=> Seen(Entry)
      BY <1>3, <1>4, <2>1 DEF Enters, PrintsLine, Seen, IsLive, IsDir, IsFile, IsDots
    <2>3. out' = IF Seen(Entry) THEN Append(out, Here(LineText(Entry))) ELSE out
      BY <1>6, <2>2 DEF PrintOn, LineText
    <2>4. walk' = walk
      BY <1>6 DEF PrintOn
    <2>5. QED
      BY <1>1, <2>1, <2>3, <2>4 DEF PrintStep
  <1>7. QED
    BY <1>5, <1>6

\* The steps of -t.
LEMMA TreeSteps ==
    ASSUME ArgumentsOK, WalkOK, StackOK, option = "t", [Next]_vars
    PROVE  \/ PrintStep
           \/ Walking /\ Top.x > Len(Top.buffer) /\ frames' = Below /\ out' = out /\ walk' = walk
           \/ frames' = frames /\ out' = out /\ (walk' = walk \/ frames = << >>)
  <1>1. walk \in {"print_files", "done"}
    <2>1. option \in Options
      BY DEF Options
    <2>2. FirstWalk[option] = "print_files"
      BY <2>1, FirstWalks
    <2>3. QED
      BY <2>2 DEF WalkOK
  <1>2. ~Searching /\ ~Listing /\ walk # "get_fat_table_content"
    BY <1>1 DEF Searching, Listing
  <1>3. CASE PrintBelow \/ PrintOn
    BY <1>3, PrintSteps
  <1>4. CASE EndOfCluster
    BY <1>4 DEF EndOfCluster
  <1>5. CASE Finish
    BY <1>5 DEF Finish, Returned
  <1>6. CASE UNCHANGED vars
    BY <1>6 DEF vars
  <1>7. QED
    BY <1>2, <1>3, <1>4, <1>5, <1>6
       DEF Next, Step, Found, SearchBelow, SearchOn, ListRoot, List, ListBelow, ListOn,
           TableEntry, TableEnd, PrintCluster, PrintRange, StartListing

\* The directory that the call on top reads.
LEMMA TopReads ==
    ASSUME ArgumentsOK, StackOK, AtEntry, CallsInTree(frames)
    PROVE  \E d \in Tree[Len(frames) - 1] :
              /\ ReadsDir(Top, d) /\ Len(frames) - 1 \in 0 .. Levels
              /\ d.at \in Seq(Texts) /\ Len(d.at) = Len(frames) - 1
              /\ Seen(Entry) => Entry \in SeenIn(d.c)
  <1>1. Len(frames) \in Nat \ {0} /\ Top.x \in 1 .. Len(Top.buffer) /\ FrameOK(Top, Len(frames))
    BY EntryFacts
  <1>2. Levels \in Nat
    BY DiskFacts
  <1>3. Len(frames) - 1 \in 0 .. Levels
    BY <1>1, <1>2 DEF FrameOK
  <1>4. Len(frames) \in 1 .. Len(frames)
    BY <1>1
  <1>5. PICK d \in Tree[Len(frames) - 1] : ReadsDir(Top, d)
    BY <1>4 DEF CallsInTree, Top
  <1>6. d.at \in Seq(Texts) /\ Len(d.at) = Len(frames) - 1
    BY <1>3, TreeTypes
  <1>7. Seen(Entry) => Entry \in SeenIn(d.c)
    BY <1>1, <1>5 DEF ReadsDir, SeenIn, Entry
  <1>8. QED
    BY <1>3, <1>5, <1>6, <1>7

\* The line of an entry that is seen.
LEMMA LineOfEntry ==
    ASSUME ArgumentsOK, StackOK, AtEntry, CallsInTree(frames), Seen(Entry)
    PROVE  /\ Here(LineText(Entry)) \in SeenLines
           /\ Here(LineText(Entry)) \in Seq(Texts)
           /\ Len(Here(LineText(Entry))) = Len(frames)
           /\ \A i \in 1 .. Len(frames) - 1 : Here(LineText(Entry))[i] = Top.begin[i]
           /\ Here(LineText(Entry))[Len(frames)] = LineText(Entry)
  <1>1. PICK d \in Tree[Len(frames) - 1] :
              /\ ReadsDir(Top, d) /\ Len(frames) - 1 \in 0 .. Levels
              /\ d.at \in Seq(Texts) /\ Len(d.at) = Len(frames) - 1
              /\ Seen(Entry) => Entry \in SeenIn(d.c)
    BY TopReads
  <1>2. LineText(Entry) \in Texts
    BY <1>1, SeenFacts
  <1>3. Here(LineText(Entry)) = Append(d.at, LineText(Entry))
    BY <1>1 DEF Here, ReadsDir
  <1>4. Append(d.at, LineText(Entry)) \in SeenLines
    BY <1>1, LinesAre
  <1>5. Len(frames) \in Nat
    BY EntryFacts
  <1>6. /\ Append(d.at, LineText(Entry)) \in Seq(Texts) /\ Len(Append(d.at, LineText(Entry))) = Len(frames)
        /\ \A i \in 1 .. Len(frames) - 1 : Append(d.at, LineText(Entry))[i] = d.at[i]
        /\ Append(d.at, LineText(Entry))[Len(frames)] = LineText(Entry)
    BY <1>1, <1>2, <1>5, AppendParts
  <1>7. QED
    BY <1>1, <1>3, <1>4, <1>6 DEF ReadsDir

\* The directory of an entry that is entered is read by the new call.
LEMMA CallReads ==
    ASSUME ArgumentsOK, StackOK, AtEntry, CallsInTree(frames), SmallClusters,
           Enters(Entry), Len(frames) <= Levels
    PROVE  \E g \in Tree[Len(frames)] : ReadsDir(Child, g)
  <1>1. Seen(Entry) /\ IsDir(Entry) /\ ~IsDots(Entry)
    BY DEF Enters, Seen, IsLive, IsDir
  <1>2. PICK d \in Tree[Len(frames) - 1] :
              /\ ReadsDir(Top, d) /\ Len(frames) - 1 \in 0 .. Levels
              /\ d.at \in Seq(Texts) /\ Len(d.at) = Len(frames) - 1
              /\ Seen(Entry) => Entry \in SeenIn(d.c)
    BY TopReads
  <1> DEFINE g == [at |-> Append(d.at, DirText(Entry)), c |-> Entry.start]
  <1>3. IsChild(d, Entry, g)
    BY <1>1, <1>2 DEF IsChild
  <1>4. Levels \in Nat /\ Len(frames) \in Nat
    BY EntryFacts, DiskFacts
  <1>5. Len(frames) \in 1 .. Levels
    BY <1>2, <1>4
  <1>6. g \in Tree[Len(frames)]
    BY <1>1, <1>2, <1>3, <1>5, TreeChildren
  <1>7. g \in SeenDirs
    BY <1>5, <1>6 DEF SeenDirs
  <1>8. Entry.start < 256
    BY <1>7 DEF SmallClusters
  <1>9. FirstCluster(Entry) = Entry.start
    BY <1>8, ClusterFacts, EntryFacts
  <1>10. ReadsDir(Child, g)
    BY <1>2, <1>9 DEF ReadsDir, Child, Call, Frame, Here
  <1>11. QED
    BY <1>6, <1>10

-----------------------------------------------------------------------------
(* What is due before and after a step *)

\* Line l is that of the entry, or of one below it.
Hits(l) ==
    /\ Seen(Entry)
    /\ Len(frames) <= Len(l)
    /\ Starts(l, Top.begin)
    /\ l[Len(frames)] = LineText(Entry)

NextTop == [Top EXCEPT !.x = @ + 1]

\* A call meets a line at one slot.
LEMMA SlotOnce ==
    ASSUME ArgumentsOK, NEW f, NEW d, ReadsDir(f, d),
           NEW i \in 1 .. Len(f.buffer), NEW j \in 1 .. Len(f.buffer),
           Seen(f.buffer[i]), Seen(f.buffer[j]), LineText(f.buffer[i]) = LineText(f.buffer[j])
    PROVE  i = j
  BY LineOnce DEF ReadsDir

\* What is due in a call is due after its next entry, or it is of that entry.
LEMMA DueTop ==
    ASSUME ArgumentsOK, StackOK, AtEntry, CallsInTree(frames), NEW l
    PROVE  /\ Due(Top, l, Len(frames)) <=> Due(NextTop, l, Len(frames)) \/ Hits(l)
           /\ ~(Due(NextTop, l, Len(frames)) /\ Hits(l))
  <1>1. Top \in FrameSet /\ Top.x \in 1 .. Len(Top.buffer) /\ Len(Top.buffer) \in Nat
    BY EntryFacts
  <1>2. NextTop.x = Top.x + 1 /\ NextTop.buffer = Top.buffer /\ NextTop.begin = Top.begin
    BY <1>1 DEF NextTop, FrameSet
  <1>3. \A i : i \in Top.x .. Len(Top.buffer) <=> i = Top.x \/ i \in Top.x + 1 .. Len(Top.buffer)
    BY <1>1
  <1>4. (\E i \in Top.x .. Len(Top.buffer) :
            Seen(Top.buffer[i]) /\ LineText(Top.buffer[i]) = l[Len(frames)])
        <=> \/ Seen(Entry) /\ LineText(Entry) = l[Len(frames)]
            \/ \E i \in Top.x + 1 .. Len(Top.buffer) :
                  Seen(Top.buffer[i]) /\ LineText(Top.buffer[i]) = l[Len(frames)]
    BY <1>3 DEF Entry
  <1>5. Due(Top, l, Len(frames)) <=> Due(NextTop, l, Len(frames)) \/ Hits(l)
    BY <1>2, <1>4 DEF Due, Hits
  <1>6. ASSUME Due(NextTop, l, Len(frames)), Hits(l) PROVE FALSE
    <2>1. PICK i \in Top.x + 1 .. Len(Top.buffer) :
              Seen(Top.buffer[i]) /\ LineText(Top.buffer[i]) = l[Len(frames)]
      BY <1>2, <1>6 DEF Due
    <2>2. PICK d \in Tree[Len(frames) - 1] : ReadsDir(Top, d)
      BY TopReads
    <2>3. Seen(Top.buffer[Top.x]) /\ LineText(Top.buffer[Top.x]) = l[Len(frames)]
      BY <1>6 DEF Hits, Entry
    <2>4. i \in 1 .. Len(Top.buffer) /\ i # Top.x
      BY <1>1, <2>1
    <2>5. QED
      BY <1>1, <2>1, <2>2, <2>3, <2>4, SlotOnce
  <1>7. QED
    BY <1>5, <1>6

\* What is of the entry on top is not due in the calls below: they are past the
\* directory it lies in.
LEMMA BelowMisses ==
    ASSUME ArgumentsOK, StackOK, AtEntry, CallsInTree(frames), CallsNested(frames),
           NEW l, Hits(l), NEW m \in 1 .. Len(frames) - 1
    PROVE  ~Due(frames[m], l, m)
  <1> SUFFICES ASSUME Due(frames[m], l, m) PROVE FALSE
    OBVIOUS
  <1> DEFINE f == frames[m]
  <1>1. Len(frames) \in Nat \ {0} /\ Len(Top.begin) = Len(frames) - 1
    BY EntryFacts
  <1>2. m \in 1 .. Len(frames) /\ Len(frames) \in 1 .. Len(frames) /\ m < Len(frames)
    BY <1>1
  <1>3. /\ f.x - 1 \in 1 .. Len(f.buffer) /\ Seen(Last(f)) /\ IsDir(Last(f))
        /\ Top.begin[m] = DirText(Last(f))
    BY <1>2 DEF CallsNested, Top
  <1>4. l[m] = Top.begin[m]
    BY <1>1, <1>2 DEF Hits, Starts
  <1>5. PICK d \in Tree[m - 1] : ReadsDir(f, d)
    BY <1>2 DEF CallsInTree
  <1>6. PICK i \in f.x .. Len(f.buffer) : Seen(f.buffer[i]) /\ LineText(f.buffer[i]) = l[m]
    BY DEF Due
  <1>7. LineText(Last(f)) = DirText(Last(f))
    BY <1>3 DEF LineText, IsDir, IsFile
  <1>8. FrameOK(f, m)
    BY <1>2 DEF StackOK
  <1>9. f.x \in Nat /\ Len(f.buffer) \in Nat
    BY <1>8 DEF FrameOK, FrameSet
  <1>10. i \in 1 .. Len(f.buffer) /\ f.x - 1 \in 1 .. Len(f.buffer) /\ i # f.x - 1
    BY <1>3, <1>6, <1>9
  <1>11. LineText(f.buffer[i]) = LineText(f.buffer[f.x - 1]) /\ Seen(f.buffer[f.x - 1])
    BY <1>3, <1>4, <1>6, <1>7 DEF Last
  <1> HIDE DEF f
  <1>12. QED
    BY <1>5, <1>6, <1>10, <1>11, SlotOnce

\* What is of the entry is its line, or it is due in the call for the entry.
LEMMA HitParts ==
    ASSUME ArgumentsOK, StackOK, AtEntry, CallsInTree(frames), SmallClusters,
           Enters(Entry) => Len(frames) <= Levels,
           NEW l \in SeenLines, Hits(l), l # Here(LineText(Entry))
    PROVE  Enters(Entry) /\ Due(Child, l, Len(frames) + 1)
  <1> DEFINE n == Len(frames)
  <1>1. PICK d \in Tree[n - 1] :
              /\ ReadsDir(Top, d) /\ n - 1 \in 0 .. Levels
              /\ d.at \in Seq(Texts) /\ Len(d.at) = n - 1
              /\ Seen(Entry) => Entry \in SeenIn(d.c)
    BY TopReads
  <1>2. n \in Nat \ {0} /\ Top.begin = d.at
    BY <1>1, EntryFacts DEF ReadsDir
  <1>3. Seen(Entry) /\ Entry \in SeenIn(d.c) /\ LineText(Entry) \in Texts
    BY <1>1, SeenFacts DEF Hits
  <1>4. l \in Seq(Texts) /\ Len(l) \in Nat
    BY LineWay
  <1>5. n <= Len(l) /\ (\A i \in 1 .. n - 1 : l[i] = d.at[i]) /\ l[n] = LineText(Entry)
    BY <1>1, <1>2 DEF Hits, Starts
  <1>6. n < Len(l)
    <2> SUFFICES ASSUME Len(l) = n PROVE FALSE
      BY <1>2, <1>4, <1>5
    <2> DEFINE h == Here(LineText(Entry))
    <2>1. /\ h \in Seq(Texts) /\ Len(h) = n
          /\ \A i \in 1 .. n - 1 : h[i] = Top.begin[i]
          /\ h[n] = LineText(Entry)
      BY <1>3, LineOfEntry
    <2> HIDE DEF h
    <2>2. \A i \in 1 .. n : h[i] = l[i]
      BY <1>2, <1>5, <2>1
    <2>3. h = l
      BY <1>4, <2>1, <2>2
    <2>4. QED
      BY <2>3 DEF h
  <1>7. n \in 1 .. Len(l) /\ n + 1 \in 1 .. Len(l) /\ n + 1 - 1 = n
    BY <1>2, <1>4, <1>6
  <1>8. PICK p \in Tree[n - 1] : \E e \in SeenIn(p.c) : Way(l, n, p, e)
    BY <1>7, LineWay
  <1>9. PICK e \in SeenIn(p.c) : Way(l, n, p, e)
    BY <1>8
  <1>10. p = d
    <2>1. p.at \in Seq(Texts) /\ Len(p.at) = n - 1
      BY <1>1, TreeTypes
    <2>2. \A i \in 1 .. n - 1 : p.at[i] = d.at[i]
      BY <1>5, <1>9, <2>1 DEF Way, Starts
    <2>3. p.at = d.at
      BY <1>1, <2>1, <2>2
    <2>4. QED
      BY <1>1, <2>3, TreeOnce
  <1>11. e = Entry
    <2>1. LineText(e) = LineText(Entry)
      BY <1>5, <1>9 DEF Way
    <2>2. QED
      BY <1>3, <1>10, <2>1, SeenOnce
  <1>12. PICK g \in Tree[n] : IsChild(d, Entry, g)
    BY <1>6, <1>9, <1>10, <1>11 DEF Way
  <1>13. Enters(Entry)
    BY <1>3, <1>12 DEF IsChild, Enters, Seen, IsLive
  <1>14. n \in 1 .. Levels
    BY <1>1, <1>2, <1>13, DiskFacts
  <1>15. g.at = Append(d.at, DirText(Entry)) /\ g.c = Entry.start
    BY <1>12 DEF IsChild
  <1>16. LineText(Entry) = DirText(Entry)
    BY <1>12 DEF IsChild, LineText, IsDir, IsFile
  <1>17. /\ g.at \in Seq(Texts) /\ Len(g.at) = n
         /\ \A i \in 1 .. n : g.at[i] = l[i]
    BY <1>1, <1>2, <1>3, <1>5, <1>15, <1>16, AppendParts
  <1>18. Entries(g.c) = Entries(FirstCluster(Entry))
    <2>1. g \in SeenDirs
      BY <1>14 DEF SeenDirs
    <2>2. Entry.start < 256
      BY <1>15, <2>1 DEF SmallClusters
    <2>3. QED
      BY <1>15, <2>2, ClusterFacts, EntryFacts
  <1>19. PICK q \in Tree[n] : \E f \in SeenIn(q.c) : Way(l, n + 1, q, f)
    BY <1>7, LineWay
  <1>20. PICK f \in SeenIn(q.c) : Way(l, n + 1, q, f)
    BY <1>19
  <1>21. q = g
    <2>1. n \in 0 .. Levels
      BY <1>14
    <2>2. q.at \in Seq(Texts) /\ Len(q.at) = n
      BY <2>1, TreeTypes
    <2>3. \A i \in 1 .. n : q.at[i] = g.at[i]
      BY <1>17, <1>20, <2>2 DEF Way, Starts
    <2>4. q.at = g.at
      BY <1>17, <2>2, <2>3
    <2>5. QED
      BY <2>1, <2>4, TreeOnce
  <1>22. PICK i \in 1 .. Len(Entries(g.c)) : Entries(g.c)[i] = f /\ Seen(f)
    BY <1>20, <1>21, SeenFacts
  <1>23. l[n + 1] = LineText(f)
    BY <1>20 DEF Way
  <1>24. Starts(l, Child.begin)
    <2>1. Child.begin = g.at
      BY <1>2, <1>15 DEF Child, Call, Frame, Here
    <2>2. QED
      BY <1>4, <1>6, <1>7, <1>17, <2>1 DEF Starts
  <1>25. Due(Child, l, n + 1)
    <2>1. Child.x = 1 /\ Child.buffer = Entries(g.c)
      BY <1>18 DEF Child, Call, Frame
    <2>2. QED
      BY <1>7, <1>22, <1>23, <1>24, <2>1 DEF Due
  <1>26. QED
    BY <1>13, <1>25

\* What is due in the call for the entry is of the entry, and not its line.
LEMMA CallHits ==
    ASSUME ArgumentsOK, StackOK, AtEntry, CallsInTree(frames), Enters(Entry),
           NEW l \in Seq(Texts), Due(Child, l, Len(frames) + 1)
    PROVE  Hits(l) /\ l # Here(LineText(Entry))
  <1> DEFINE n == Len(frames)
             at == Here(DirText(Entry))
  <1>1. Seen(Entry) /\ LineText(Entry) = DirText(Entry)
    BY DEF Enters, Seen, IsLive, IsDir, IsFile, LineText
  <1>2. n \in Nat \ {0} /\ Len(Top.begin) = n - 1
    BY EntryFacts
  <1>3. /\ Len(at) = n
        /\ \A i \in 1 .. n - 1 : at[i] = Top.begin[i]
        /\ at[n] = LineText(Entry)
    BY <1>1, LineOfEntry
  <1>4. n + 1 <= Len(l) /\ Starts(l, at)
    BY DEF Due, Child, Call, Frame
  <1>5. Len(l) \in Nat
    OBVIOUS
  <1> HIDE DEF at
  <1>6. \A i \in 1 .. n : l[i] = at[i]
    BY <1>3, <1>4 DEF Starts
  <1>7. Starts(l, Top.begin)
    BY <1>2, <1>3, <1>4, <1>5, <1>6 DEF Starts
  <1>8. l[n] = LineText(Entry) /\ n <= Len(l)
    BY <1>2, <1>3, <1>4, <1>5, <1>6
  <1>9. Hits(l)
    BY <1>1, <1>7, <1>8 DEF Hits
  <1>10. Len(l) # Len(at)
    BY <1>2, <1>3, <1>4, <1>5
  <1>11. l # Here(LineText(Entry))
    BY <1>1, <1>10 DEF at
  <1>12. QED
    BY <1>9, <1>11

\* The calls after a step of print_files.
LEMMA PrintFrames ==
    ASSUME ArgumentsOK, StackOK, PrintStep
    PROVE  /\ Len(frames) \in Nat \ {0}
           /\ Len(frames') = IF Enters(Entry) THEN Len(frames) + 1 ELSE Len(frames)
           /\ \A k \in 1 .. Len(frames) - 1 : frames'[k] = frames[k]
           /\ frames'[Len(frames)] = NextTop
           /\ Enters(Entry) => frames'[Len(frames) + 1] = Child /\ Len(frames) <= Levels
  <1>1. frames \in Seq(FrameSet) /\ frames # << >> /\ AtEntry
    BY DEF StackOK, PrintStep, AtEntry, Walking
  <1>2. /\ Len(frames) \in Nat \ {0} /\ Top \in FrameSet
        /\ Advanced \in Seq(FrameSet) /\ Len(Advanced) = Len(frames)
        /\ \A k \in 1 .. Len(Advanced) :
              Advanced[k] = IF k = Len(frames) THEN NextTop ELSE frames[k]
    BY <1>1, StackOps DEF NextTop
  <1>3. /\ \A k \in 1 .. Len(frames) - 1 : Advanced[k] = frames[k]
        /\ Advanced[Len(frames)] = NextTop
    BY <1>2
  <1>4. CASE Enters(Entry)
    <2>a. Entries(FirstCluster(Entry)) \in Reads(FirstCluster(Entry))
      BY DEF Reads, Unchecked
    <2>1. FrameOK(Child, Len(frames) + 1)
      BY <1>1, <1>4, <2>a, ChildCall DEF Enters, Child
    <2>2. Child \in FrameSet /\ Len(frames) + 1 <= Levels + 1
      BY <2>1 DEF FrameOK
    <2>3. frames' = Append(Advanced, Child)
      BY <1>4 DEF PrintStep
    <2>4. Len(frames) <= Levels
      BY <1>2, <2>2, DiskFacts
    <2> DEFINE a == Advanced
               c == Child
    <2>5. a \in Seq(FrameSet) /\ Len(a) = Len(frames) /\ c \in FrameSet /\ frames' = Append(a, c)
      BY <1>2, <2>2, <2>3
    <2> HIDE DEF a, c
    <2>6. /\ Len(frames') = Len(frames) + 1
          /\ \A k \in 1 .. Len(frames) : frames'[k] = a[k]
          /\ frames'[Len(frames) + 1] = c
      BY <1>2, <2>5
    <2> USE DEF a, c
    <2>7. QED
      BY <1>2, <1>3, <1>4, <2>4, <2>6
  <1>5. CASE ~Enters(Entry)
    <2>1. frames' = Advanced
      BY <1>5 DEF PrintStep
    <2>2. QED
      BY <1>2, <1>3, <1>5, <2>1
  <1>6. QED
    BY <1>4, <1>5

\* What is due stays due until it is printed, and is not due again.
LEMMA DueStep ==
    ASSUME ArgumentsOK, StackOK, CallsInTree(frames), CallsNested(frames), SmallClusters,
           PrintStep, NEW l \in SeenLines
    PROVE  /\ DueIn(frames, l) => \/ DueIn(frames', l)
                                  \/ Seen(Entry) /\ l = Here(LineText(Entry))
           /\ DueIn(frames', l) => /\ DueIn(frames, l)
                                   /\ Seen(Entry) => l # Here(LineText(Entry))
           /\ Seen(Entry) => DueIn(frames, Here(LineText(Entry)))
  <1> DEFINE n == Len(frames)
             h == Here(LineText(Entry))
  <1>0. AtEntry
    BY DEF PrintStep
  <1>1. /\ n \in Nat \ {0}
        /\ Len(frames') = IF Enters(Entry) THEN n + 1 ELSE n
        /\ \A k \in 1 .. n - 1 : frames'[k] = frames[k]
        /\ frames'[n] = NextTop
        /\ Enters(Entry) => frames'[n + 1] = Child /\ n <= Levels
    BY PrintFrames
  <1>2. n \in 1 .. n /\ n \in 1 .. Len(frames') /\ frames[n] = Top
        /\ (\A k \in 1 .. n - 1 : k \in 1 .. n /\ k \in 1 .. Len(frames'))
    BY <1>1 DEF Top
  <1>3. l \in Seq(Texts)
    BY LineWay
  <1>4. Seen(Entry) => Hits(h)
    <2> SUFFICES ASSUME Seen(Entry) PROVE Hits(h)
      OBVIOUS
    <2>1. /\ Len(h) = n
          /\ \A i \in 1 .. n - 1 : h[i] = Top.begin[i]
          /\ h[n] = LineText(Entry)
      BY <1>0, LineOfEntry
    <2>2. Len(Top.begin) = n - 1
      BY <1>0, EntryFacts
    <2> HIDE DEF h
    <2>3. Starts(h, Top.begin)
      BY <1>1, <2>1, <2>2 DEF Starts
    <2>4. QED
      BY <1>1, <2>1, <2>3 DEF Hits
  <1>5. Seen(Entry) => DueIn(frames, h)
    <2>1. Hits(h) => Due(Top, h, n)
      BY <1>0, DueTop
    <2>2. QED
      BY <1>2, <1>4, <2>1 DEF DueIn
  <1>6. ASSUME DueIn(frames, l), ~(Seen(Entry) /\ l = h) PROVE DueIn(frames', l)
    <2>1. PICK k \in 1 .. n : Due(frames[k], l, k)
      BY <1>6 DEF DueIn
    <2>2. CASE k \in 1 .. n - 1
      BY <1>1, <1>2, <2>1, <2>2 DEF DueIn
    <2>3. CASE k = n
      <3>1. Due(NextTop, l, n) \/ Hits(l)
        BY <1>0, <1>2, <2>1, <2>3, DueTop
      <3>2. CASE Due(NextTop, l, n)
        BY <1>1, <1>2, <3>2 DEF DueIn
      <3>3. CASE Hits(l)
        <4>1. l # h
          BY <1>6, <3>3 DEF Hits
        <4>2. Enters(Entry) /\ Due(Child, l, n + 1)
          BY <1>0, <1>1, <3>3, <4>1, HitParts
        <4>3. n + 1 \in 1 .. Len(frames')
          BY <1>1, <4>2
        <4>4. QED
          BY <1>1, <4>2, <4>3 DEF DueIn
      <3>4. QED
        BY <3>1, <3>2, <3>3
    <2>4. QED
      BY <1>1, <2>2, <2>3
  <1>7. ASSUME DueIn(frames', l) PROVE DueIn(frames, l) /\ (Seen(Entry) => l # h)
    <2>1. PICK k \in 1 .. Len(frames') : Due(frames'[k], l, k)
      BY <1>7 DEF DueIn
    <2>2. CASE k \in 1 .. n - 1
      <3>1. Due(frames[k], l, k)
        BY <1>1, <2>1, <2>2
      <3>2. Hits(h) => ~Due(frames[k], h, k)
        BY <1>0, <2>2, BelowMisses
      <3>3. QED
        BY <1>2, <1>4, <2>2, <3>1, <3>2 DEF DueIn
    <2>3. CASE k = n
      <3>1. Due(NextTop, l, n)
        BY <1>1, <2>1, <2>3
      <3>2. Due(Top, l, n) /\ ~Hits(l)
        BY <1>0, <3>1, DueTop
      <3>3. QED
        BY <1>2, <1>4, <3>2 DEF DueIn
    <2>4. CASE k \notin 1 .. n
      <3>1. Enters(Entry) /\ k = n + 1
        BY <1>1, <2>4
      <3>2. Due(Child, l, n + 1)
        BY <1>1, <2>1, <3>1
      <3>3. Hits(l) /\ l # h
        BY <1>0, <1>3, <3>1, <3>2, CallHits
      <3>4. Due(Top, l, n)
        BY <1>0, <3>3, DueTop
      <3>5. QED
        BY <1>2, <3>3, <3>4 DEF DueIn
    <2>5. QED
      BY <1>1, <2>2, <2>3, <2>4
  <1>8. QED
    BY <1>5, <1>6, <1>7

\* When a call ends nothing is due in it.
LEMMA DueAtEnd ==
    ASSUME StackOK, Walking, Top.x > Len(Top.buffer), frames' = Below, NEW l
    PROVE  DueIn(frames', l) <=> DueIn(frames, l)
  <1>1. frames \in Seq(FrameSet) /\ frames # << >>
    BY DEF StackOK, Walking
  <1>2. /\ Len(frames) \in Nat \ {0} /\ Top \in FrameSet /\ Len(Below) = Len(frames) - 1
        /\ \A k \in 1 .. Len(Below) : Below[k] = frames[k]
    BY <1>1, StackOps
  <1>3. ~Due(Top, l, Len(frames))
    <2>1. Top.x \in Nat /\ Len(Top.buffer) \in Nat
      BY <1>2 DEF FrameSet
    <2>2. Top.x .. Len(Top.buffer) = {}
      BY <2>1
    <2>3. QED
      BY <2>2 DEF Due
  <1>4. \A k \in 1 .. Len(frames) : k \in 1 .. Len(frames') \/ k = Len(frames)
    BY <1>2
  <1>5. \A k \in 1 .. Len(frames') : k \in 1 .. Len(frames) /\ frames'[k] = frames[k]
    BY <1>2
  <1>6. QED
    BY <1>3, <1>4, <1>5 DEF DueIn, Top

\* The calls read the directories on the way to the last one, step by step.
LEMMA CallsStep ==
    ASSUME ArgumentsOK, StackOK, CallsInTree(frames), CallsNested(frames), SmallClusters, PrintStep
    PROVE  CallsInTree(frames') /\ CallsNested(frames')
  <1> DEFINE n == Len(frames)
             at == Here(DirText(Entry))
  <1>0. AtEntry
    BY DEF PrintStep
  <1>1. /\ n \in Nat \ {0}
        /\ Len(frames') = IF Enters(Entry) THEN n + 1 ELSE n
        /\ \A k \in 1 .. n - 1 : frames'[k] = frames[k]
        /\ frames'[n] = NextTop
        /\ Enters(Entry) => frames'[n + 1] = Child /\ n <= Levels
    BY PrintFrames
  <1>2. n \in 1 .. n /\ frames[n] = Top /\ (\A k \in 1 .. n - 1 : k \in 1 .. n)
    BY <1>1 DEF Top
  <1>3. /\ NextTop.begin = Top.begin /\ NextTop.buffer = Top.buffer /\ NextTop.x = Top.x + 1
        /\ Top.x \in 1 .. Len(Top.buffer)
    BY <1>0, EntryFacts DEF NextTop, FrameSet
  <1>4. ASSUME NEW k \in 1 .. Len(frames') PROVE \E d \in Tree[k - 1] : ReadsDir(frames'[k], d)
    <2>1. CASE k \in 1 .. n - 1
      BY <1>1, <1>2, <2>1 DEF CallsInTree
    <2>2. CASE k = n
      <3>1. PICK d \in Tree[n - 1] : ReadsDir(Top, d)
        BY <1>2 DEF CallsInTree
      <3>2. ReadsDir(frames'[n], d)
        BY <1>1, <1>3, <3>1 DEF ReadsDir
      <3>3. QED
        BY <2>2, <3>2
    <2>3. CASE k \notin 1 .. n
      <3>1. Enters(Entry) /\ k = n + 1 /\ k - 1 = n
        BY <1>1, <2>3
      <3>2. \E g \in Tree[n] : ReadsDir(Child, g)
        BY <1>0, <1>1, <3>1, CallReads
      <3>3. QED
        BY <1>1, <3>1, <3>2
    <2>4. QED
      BY <1>1, <2>1, <2>2, <2>3
  <1>5. CallsInTree(frames')
    BY <1>4 DEF CallsInTree
  <1>6. \A m \in 1 .. n - 1 :
           /\ Starts(Top.begin, frames[m].begin)
           /\ frames[m].x - 1 \in 1 .. Len(frames[m].buffer)
           /\ Seen(Last(frames[m])) /\ IsDir(Last(frames[m]))
           /\ Top.begin[m] = DirText(Last(frames[m]))
    <2>1. \A m \in 1 .. n - 1 : m \in 1 .. n /\ m < n
      BY <1>1
    <2>2. QED
      BY <1>2, <2>1 DEF CallsNested
  <1>7. CallsNested(frames')
    <2> SUFFICES ASSUME NEW m \in 1 .. Len(frames'), NEW k \in 1 .. Len(frames'), m < k
                 PROVE  /\ Starts(frames'[k].begin, frames'[m].begin)
                        /\ frames'[m].x - 1 \in 1 .. Len(frames'[m].buffer)
                        /\ Seen(Last(frames'[m])) /\ IsDir(Last(frames'[m]))
                        /\ frames'[k].begin[m] = DirText(Last(frames'[m]))
      BY DEF CallsNested
    <2>1. CASE k \in 1 .. n - 1
      <3>1. m \in 1 .. n - 1 /\ m \in 1 .. n /\ k \in 1 .. n
        BY <1>1, <2>1
      <3>2. frames'[m] = frames[m] /\ frames'[k] = frames[k]
        BY <1>1, <2>1, <3>1
      <3>3. QED
        BY <3>1, <3>2 DEF CallsNested
    <2>2. CASE k = n
      <3>1. m \in 1 .. n - 1
        BY <1>1, <2>2
      <3>2. frames'[m] = frames[m] /\ frames'[k].begin = Top.begin
        BY <1>1, <1>3, <2>2, <3>1
      <3>3. QED
        BY <1>6, <3>1, <3>2
    <2>3. CASE k \notin 1 .. n
      <3>1. Enters(Entry) /\ k = n + 1 /\ m \in 1 .. n
        BY <1>1, <2>3
      <3>2. Seen(Entry) /\ IsDir(Entry) /\ LineText(Entry) = DirText(Entry)
        BY <3>1 DEF Enters, Seen, IsLive, IsDir, IsFile, LineText
      <3>3. /\ Len(at) = n
            /\ \A i \in 1 .. n - 1 : at[i] = Top.begin[i]
            /\ at[n] = DirText(Entry)
        BY <1>0, <3>2, LineOfEntry
      <3>4. frames'[k].begin = at
        BY <1>1, <3>1 DEF Child, Call, Frame
      <3>5. Len(Top.begin) = n - 1
        BY <1>0, EntryFacts
      <3> HIDE DEF at
      <3>6. CASE m \in 1 .. n - 1
        <4>1. FrameOK(frames[m], m)
          BY <1>2, <3>6 DEF StackOK
        <4>2. Len(frames[m].begin) = m - 1
          BY <4>1 DEF FrameOK
        <4>3. Starts(at, frames[m].begin)
          <5>1. Starts(Top.begin, frames[m].begin)
            BY <1>6, <3>6
          <5>2. \A i \in 1 .. m - 1 : i \in 1 .. n - 1 /\ Top.begin[i] = frames[m].begin[i]
            BY <1>1, <3>6, <4>2, <5>1 DEF Starts
          <5>3. \A i \in 1 .. m - 1 : at[i] = frames[m].begin[i]
            BY <3>3, <5>2
          <5>4. m - 1 <= n
            BY <1>1, <3>6
          <5>5. QED
            BY <3>3, <4>2, <5>3, <5>4 DEF Starts
        <4>4. at[m] = DirText(Last(frames[m]))
          BY <1>6, <3>3, <3>6
        <4>5. frames'[m] = frames[m]
          BY <1>1, <3>6
        <4>6. QED
          BY <1>6, <3>4, <3>6, <4>3, <4>4, <4>5
      <3>7. CASE m = n
        <4>1. Starts(at, Top.begin)
          BY <1>1, <3>3, <3>5 DEF Starts
        <4>2. Last(NextTop) = Entry /\ NextTop.x - 1 \in 1 .. Len(NextTop.buffer)
          <5>1. NextTop.x - 1 = Top.x
            BY <1>3
          <5>2. QED
            BY <1>3, <5>1 DEF Last, Entry
        <4>3. QED
          BY <1>1, <1>3, <3>2, <3>3, <3>4, <3>7, <4>1, <4>2
      <3>8. QED
        BY <1>1, <3>1, <3>6, <3>7
    <2>4. QED
      BY <1>1, <2>1, <2>2, <2>3
  <1>8. QED
    BY <1>5, <1>7

-----------------------------------------------------------------------------
(* The order of the lines *)

\* The path at was printed, and since then only what is below it.
Since(at, o) ==
    \E i \in 1 .. Len(o) : o[i] = at /\ \A j \in i + 1 .. Len(o) : Starts(o[j], at)

CallsPrinted(fs, o) == \A m \in 2 .. Len(fs) : Since(fs[m].begin, o)

ParentFirst(o) ==
    \A k \in 1 .. Len(o) : Len(o[k]) > 1 =>
        \E i \in 1 .. k - 1 :
            /\ Len(o[i]) = Len(o[k]) - 1
            /\ \A j \in i + 1 .. k : Starts(o[j], o[i])

\* One more line keeps the order.
LEMMA SinceAppend ==
    ASSUME ArgumentsOK, NEW o \in Seq(SeenLines), NEW l \in SeenLines, NEW at, Since(at, o), Starts(l, at)
    PROVE  /\ Since(at, Append(o, l))
           /\ \E i \in 1 .. Len(o) : o[i] = at /\ \A j \in i + 1 .. Len(o) + 1 : Starts(Append(o, l)[j], at)
  <1>1. PICK i \in 1 .. Len(o) : o[i] = at /\ \A j \in i + 1 .. Len(o) : Starts(o[j], at)
    BY DEF Since
  <1>2. /\ Len(Append(o, l)) = Len(o) + 1 /\ Len(o) \in Nat
        /\ \A j \in 1 .. Len(o) : Append(o, l)[j] = o[j]
        /\ Append(o, l)[Len(o) + 1] = l
    OBVIOUS
  <1> DEFINE q == Append(o, l)
  <1> HIDE DEF q
  <1>3. ASSUME NEW j \in i + 1 .. Len(o) + 1 PROVE Starts(q[j], at)
    <2>1. (j \in i + 1 .. Len(o) /\ j \in 1 .. Len(o)) \/ j = Len(o) + 1
      BY <1>2
    <2>2. QED
      BY <1>1, <1>2, <2>1 DEF q
  <1>4. i \in 1 .. Len(q) /\ q[i] = at /\ Len(q) = Len(o) + 1
    BY <1>1, <1>2 DEF q
  <1>5. Since(at, q)
    BY <1>3, <1>4 DEF Since
  <1>6. QED
    BY <1>1, <1>3, <1>5 DEF q

-----------------------------------------------------------------------------
(* The invariant *)

LinesPrinted(fs, o) ==
    /\ o \in Seq(SeenLines)
    /\ \A l \in SeenLines : DueIn(fs, l) \/ \E i \in 1 .. Len(o) : o[i] = l
    /\ \A i \in 1 .. Len(o) : ~DueIn(fs, o[i])
    /\ \A i, j \in 1 .. Len(o) : o[i] = o[j] => i = j

TreeInv ==
    option = "t" /\ SmallClusters =>
        /\ CallsInTree(frames) /\ CallsNested(frames)
        /\ LinesPrinted(frames, out)
        /\ ParentFirst(out) /\ CallsPrinted(frames, out)
        /\ walk = "done" => frames = << >>

\* A step prints a line that is due, and it is not due again.
LEMMA LinesStep ==
    ASSUME ArgumentsOK, StackOK, CallsInTree(frames), CallsNested(frames), SmallClusters,
           PrintStep, LinesPrinted(frames, out)
    PROVE  LinesPrinted(frames', out')
  <1> DEFINE h == Here(LineText(Entry))
  <1>0. AtEntry
    BY DEF PrintStep
  <1>1. out \in Seq(SeenLines)
    BY DEF LinesPrinted
  <1>2. CASE ~Seen(Entry)
    <2>1. out' = out
      BY <1>2 DEF PrintStep
    <2>2. \A l \in SeenLines : DueIn(frames, l) => DueIn(frames', l)
      BY <1>2, DueStep
    <2>3. \A l \in SeenLines : DueIn(frames', l) => DueIn(frames, l)
      BY DueStep
    <2>4. \A i \in 1 .. Len(out) : out[i] \in SeenLines
      BY <1>1
    <2>5. LinesPrinted(frames', out)
      BY <2>2, <2>3, <2>4 DEF LinesPrinted
    <2>6. QED
      BY <2>1, <2>5
  <1>3. CASE Seen(Entry)
    <2>1. h \in SeenLines /\ out' = Append(out, h)
      BY <1>0, <1>3, LineOfEntry DEF PrintStep
    <2>2. DueIn(frames, h)
      BY <1>3, <2>1, DueStep
    <2>3. ~DueIn(frames', h)
      BY <1>3, <2>1, DueStep
    <2>4. \A l \in SeenLines : DueIn(frames, l) => DueIn(frames', l) \/ l = h
      BY DueStep
    <2>5. \A l \in SeenLines : DueIn(frames', l) => DueIn(frames, l)
      BY DueStep
    <2> HIDE DEF h
    <2> DEFINE q == Append(out, h)
    <2>6. /\ q \in Seq(SeenLines) /\ Len(q) = Len(out) + 1 /\ Len(out) \in Nat
          /\ \A j \in 1 .. Len(out) : q[j] = out[j] /\ out[j] \in SeenLines
          /\ q[Len(out) + 1] = h
      BY <1>1, <2>1
    <2> HIDE DEF q
    <2>7. \A i \in 1 .. Len(q) : i \in 1 .. Len(out) \/ i = Len(out) + 1
      BY <2>6
    <2>8. \A i \in 1 .. Len(out) : i \in 1 .. Len(q) /\ out[i] # h
      <3>1. \A i \in 1 .. Len(out) : ~DueIn(frames, out[i])
        BY DEF LinesPrinted
      <3>2. QED
        BY <2>2, <2>6, <3>1
    <2>9. ASSUME NEW l \in SeenLines PROVE DueIn(frames', l) \/ \E i \in 1 .. Len(q) : q[i] = l
      <3>1. CASE l = h
        <4>1. Len(out) + 1 \in 1 .. Len(q)
          BY <2>6
        <4>2. QED
          BY <2>6, <3>1, <4>1
      <3>2. CASE l # h
        <4>1. DueIn(frames', l) \/ \E i \in 1 .. Len(out) : out[i] = l
          BY <2>4, <3>2 DEF LinesPrinted
        <4>2. QED
          BY <2>6, <2>8, <4>1
      <3>3. QED
        BY <3>1, <3>2
    <2>10. ASSUME NEW i \in 1 .. Len(q) PROVE ~DueIn(frames', q[i])
      <3>1. CASE i \in 1 .. Len(out)
        <4>1. ~DueIn(frames, out[i])
          BY <3>1 DEF LinesPrinted
        <4>2. QED
          BY <2>5, <2>6, <3>1, <4>1
      <3>2. CASE i = Len(out) + 1
        BY <2>3, <2>6, <3>2
      <3>3. QED
        BY <2>7, <3>1, <3>2
    <2>11. ASSUME NEW i \in 1 .. Len(q), NEW j \in 1 .. Len(q), q[i] = q[j] PROVE i = j
      <3>1. CASE i \in 1 .. Len(out) /\ j \in 1 .. Len(out)
        <4>1. out[i] = out[j]
          BY <2>6, <2>11, <3>1
        <4>2. QED
          BY <3>1, <4>1 DEF LinesPrinted
      <3>2. CASE i = Len(out) + 1 /\ j = Len(out) + 1
        BY <3>2
      <3>3. CASE i = Len(out) + 1 /\ j \in 1 .. Len(out)
        BY <2>6, <2>8, <2>11, <3>3
      <3>4. CASE j = Len(out) + 1 /\ i \in 1 .. Len(out)
        BY <2>6, <2>8, <2>11, <3>4
      <3>5. QED
        BY <2>7, <3>1, <3>2, <3>3, <3>4
    <2>12. LinesPrinted(frames', q)
      BY <2>6, <2>9, <2>10, <2>11 DEF LinesPrinted
    <2>13. QED
      BY <2>1, <2>12 DEF q
  <1>4. QED
    BY <1>2, <1>3

\* A line is printed below its directory, which was printed before.
LEMMA OrderStep ==
    ASSUME ArgumentsOK, StackOK, CallsInTree(frames), CallsNested(frames), PrintStep,
           LinesPrinted(frames, out), ParentFirst(out), CallsPrinted(frames, out)
    PROVE  ParentFirst(out') /\ CallsPrinted(frames', out')
  <1> DEFINE n == Len(frames)
             h == Here(LineText(Entry))
  <1>0. AtEntry /\ out \in Seq(SeenLines)
    BY DEF PrintStep, LinesPrinted
  <1>1. /\ n \in Nat \ {0}
        /\ Len(frames') = IF Enters(Entry) THEN n + 1 ELSE n
        /\ \A k \in 1 .. n - 1 : frames'[k] = frames[k]
        /\ frames'[n] = NextTop
        /\ Enters(Entry) => frames'[n + 1] = Child /\ n <= Levels
    BY PrintFrames
  <1>2. NextTop.begin = Top.begin
    BY <1>0, EntryFacts DEF NextTop, FrameSet
  <1>3. \A m \in 1 .. n : frames'[m].begin = frames[m].begin
    <2>1. \A m \in 1 .. n : m \in 1 .. n - 1 \/ m = n
      BY <1>1
    <2>2. frames[n] = Top
      BY DEF Top
    <2>3. QED
      BY <1>1, <1>2, <2>1, <2>2
  <1>4. CASE ~Seen(Entry)
    <2>1. out' = out /\ ~Enters(Entry)
      BY <1>4 DEF PrintStep, Enters, Seen, IsLive, IsDir
    <2>2. CallsPrinted(frames', out)
      BY <1>1, <1>3, <2>1 DEF CallsPrinted
    <2>3. QED
      BY <2>1, <2>2
  <1>5. CASE Seen(Entry)
    <2>1. h \in SeenLines /\ out' = Append(out, h)
      BY <1>0, <1>5, LineOfEntry DEF PrintStep
    <2>2. /\ Len(h) = n
          /\ \A i \in 1 .. n - 1 : h[i] = Top.begin[i]
      BY <1>0, <1>5, LineOfEntry
    <2>3. Enters(Entry) => Child.begin = h
      BY DEF Enters, IsDir, IsFile, LineText, Child, Call, Frame
    <2> HIDE DEF h
    <2> DEFINE q == Append(out, h)
    <2>4. /\ q \in Seq(SeenLines) /\ Len(q) = Len(out) + 1 /\ Len(out) \in Nat
          /\ \A j \in 1 .. Len(out) : q[j] = out[j] /\ out[j] \in SeenLines
          /\ q[Len(out) + 1] = h
      BY <1>0, <2>1
    <2>5. Len(Top.begin) = n - 1
      BY <1>0, EntryFacts
    <2>6. Starts(h, Top.begin)
      BY <1>1, <2>2, <2>5 DEF Starts
    <2>7. ASSUME NEW m \in 2 .. n PROVE Starts(h, frames[m].begin)
      <3>1. CASE m = n
        BY <2>6, <3>1 DEF Top
      <3>2. CASE m # n
        <4>1. m \in 1 .. n /\ n \in 1 .. n /\ m < n
          BY <1>1, <3>2
        <4>2. Starts(Top.begin, frames[m].begin)
          BY <4>1 DEF CallsNested, Top
        <4>3. FrameOK(frames[m], m)
          BY <4>1 DEF StackOK
        <4>4. Len(frames[m].begin) = m - 1
          BY <4>3 DEF FrameOK
        <4>5. \A i \in 1 .. m - 1 : i \in 1 .. n - 1 /\ Top.begin[i] = frames[m].begin[i]
          BY <1>1, <4>1, <4>2, <4>4 DEF Starts
        <4>6. \A i \in 1 .. m - 1 : h[i] = frames[m].begin[i]
          BY <2>2, <4>5
        <4>7. m - 1 <= n
          BY <1>1, <4>1
        <4>8. QED
          BY <2>2, <4>4, <4>6, <4>7 DEF Starts
      <3>3. QED
        BY <3>1, <3>2
    <2>8. ASSUME NEW m \in 2 .. Len(frames') PROVE Since(frames'[m].begin, q)
      <3>1. CASE m \in 2 .. n
        <4>1. Since(frames[m].begin, out)
          BY <3>1 DEF CallsPrinted
        <4>2. frames'[m].begin = frames[m].begin
          <5>1. m \in 1 .. n
            BY <1>1, <3>1
          <5>2. QED
            BY <1>3, <5>1
        <4>3. Since(frames[m].begin, q)
          BY <1>0, <2>1, <2>7, <3>1, <4>1, SinceAppend
        <4>4. QED
          BY <4>2, <4>3
      <3>2. CASE m \notin 2 .. n
        <4>1. Enters(Entry) /\ m = n + 1
          BY <1>1, <3>2
        <4>2. frames'[m].begin = h
          BY <1>1, <2>3, <4>1
        <4>3. Len(q) \in 1 .. Len(q) /\ q[Len(q)] = h /\ Len(q) + 1 .. Len(q) = {}
          BY <2>4
        <4> HIDE DEF q
        <4>4. Since(h, q)
          BY <4>3 DEF Since
        <4>5. QED
          BY <4>2, <4>4
      <3>3. QED
        BY <3>1, <3>2
    <2>9. ASSUME NEW k \in 1 .. Len(q), Len(q[k]) > 1
          PROVE  \E i \in 1 .. k - 1 :
                    /\ Len(q[i]) = Len(q[k]) - 1
                    /\ \A j \in i + 1 .. k : Starts(q[j], q[i])
      <3>1. CASE k \in 1 .. Len(out)
        <4>1. Len(out[k]) > 1
          BY <2>4, <2>9, <3>1
        <4>2. PICK i \in 1 .. k - 1 :
                 /\ Len(out[i]) = Len(out[k]) - 1
                 /\ \A j \in i + 1 .. k : Starts(out[j], out[i])
          BY <3>1, <4>1 DEF ParentFirst
        <4>3. i \in 1 .. Len(out) /\ \A j \in i + 1 .. k : j \in 1 .. Len(out)
          BY <2>4, <3>1
        <4>4. q[i] = out[i] /\ q[k] = out[k] /\ \A j \in i + 1 .. k : q[j] = out[j]
          BY <2>4, <3>1, <4>3
        <4> HIDE DEF q
        <4>5. Len(q[i]) = Len(q[k]) - 1
          BY <4>2, <4>4
        <4>6. \A j \in i + 1 .. k : Starts(q[j], q[i])
          BY <4>2, <4>4
        <4>7. QED
          BY <4>5, <4>6
      <3>2. CASE k = Len(out) + 1
        <4>1. n > 1 /\ Len(h) = n
          BY <2>2, <2>4, <2>9, <3>2
        <4>2. n \in 2 .. n /\ frames[n] = Top
          BY <1>1, <4>1 DEF Top
        <4>3. Since(Top.begin, out)
          BY <4>2 DEF CallsPrinted
        <4>4. PICK i \in 1 .. Len(out) :
                 out[i] = Top.begin /\ \A j \in i + 1 .. Len(out) + 1 : Starts(q[j], Top.begin)
          BY <1>0, <2>1, <2>6, <4>3, SinceAppend
        <4>5. i \in 1 .. k - 1 /\ q[i] = Top.begin /\ Len(q[k]) = n
          BY <2>2, <2>4, <3>2, <4>4
        <4> HIDE DEF q
        <4>6. Len(q[i]) = Len(q[k]) - 1
          BY <2>5, <4>5
        <4>7. \A j \in i + 1 .. k : Starts(q[j], q[i])
          BY <3>2, <4>4, <4>5
        <4>8. QED
          BY <4>5, <4>6, <4>7
      <3>3. k \in 1 .. Len(out) \/ k = Len(out) + 1
        BY <2>4
      <3> HIDE DEF q
      <3>4. QED
        BY <3>1, <3>2, <3>3
    <2> HIDE DEF q
    <2>10. ParentFirst(q) /\ CallsPrinted(frames', q)
      BY <2>8, <2>9 DEF ParentFirst, CallsPrinted
    <2>11. QED
      BY <2>1, <2>10 DEF q
  <1>6. QED
    BY <1>4, <1>5

\* The lines, the directories and the clusters of a disk stay what they are.
LEMMA TreeKept ==
    ASSUME UNCHANGED arguments
    PROVE  /\ Tree' = Tree /\ SeenLines' = SeenLines
           /\ \A c : Entries(c)' = Entries(c)
           /\ SmallClusters' = SmallClusters /\ option' = option
  <1>1. disk' = disk /\ option' = option
    BY DEF arguments
  <1>2. Tree' = Tree
    BY <1>1 DEF Tree, IsTree, Below1, LiveIn, EntriesOf, SeenIn, Entries, Directory, Levels
  <1>3. \A c : Entries(c)' = Entries(c)
    BY <1>1 DEF Entries, Directory
  <1>5. SeenDirs' = SeenDirs
    BY <1>1, <1>2 DEF SeenDirs, Levels
  <1>6. SeenLines' = SeenLines
    BY <1>1, <1>5 DEF SeenLines, SeenIn, Entries, Directory
  <1>7. SmallClusters' = SmallClusters
    BY <1>5 DEF SmallClusters
  <1>8. QED
    BY <1>1, <1>2, <1>3, <1>6, <1>7

\* One call on top less leaves the calls below it as they are.
LEMMA ReturnStep ==
    ASSUME StackOK, Walking, frames' = Below, CallsInTree(frames), CallsNested(frames),
           CallsPrinted(frames, out)
    PROVE  CallsInTree(frames') /\ CallsNested(frames') /\ CallsPrinted(frames', out)
  <1>1. frames \in Seq(FrameSet) /\ frames # << >>
    BY DEF StackOK, Walking
  <1>2. /\ Len(frames) \in Nat \ {0} /\ Len(frames') = Len(frames) - 1
        /\ \A k \in 1 .. Len(frames') : frames'[k] = frames[k]
    BY <1>1, StackOps
  <1>3. \A k \in 1 .. Len(frames') : k \in 1 .. Len(frames) /\ frames'[k] = frames[k]
    BY <1>2
  <1>4. \A k \in 2 .. Len(frames') : k \in 2 .. Len(frames) /\ frames'[k] = frames[k]
    BY <1>2
  <1>5. CallsInTree(frames')
    BY <1>3 DEF CallsInTree
  <1>6. CallsNested(frames')
    BY <1>3 DEF CallsNested
  <1>7. CallsPrinted(frames', out)
    BY <1>4 DEF CallsPrinted
  <1>8. QED
    BY <1>5, <1>6, <1>7

\* The invariant of -t is kept.
LEMMA TreeStep ==
    ASSUME BaseInv, TreeInv, [Next]_vars
    PROVE  TreeInv'
  <1>1. UNCHANGED arguments
    BY ArgumentsKept
  <1>2. /\ Tree' = Tree /\ SeenLines' = SeenLines
        /\ \A c : Entries(c)' = Entries(c)
        /\ SmallClusters' = SmallClusters /\ option' = option
    BY <1>1, TreeKept
  <1> SUFFICES ASSUME option = "t", SmallClusters
               PROVE  /\ CallsInTree(frames)' /\ CallsNested(frames)'
                      /\ LinesPrinted(frames, out)'
                      /\ ParentFirst(out)' /\ CallsPrinted(frames, out)'
                      /\ walk' = "done" => frames' = << >>
    BY <1>2 DEF TreeInv
  <1>3. ArgumentsOK /\ WalkOK /\ StackOK
    BY DEF BaseInv
  <1>4. /\ CallsInTree(frames) /\ CallsNested(frames)
        /\ LinesPrinted(frames, out)
        /\ ParentFirst(out) /\ CallsPrinted(frames, out)
        /\ walk = "done" => frames = << >>
    BY DEF TreeInv
  <1>5. /\ CallsInTree(frames') /\ CallsNested(frames')
        /\ LinesPrinted(frames', out')
        /\ ParentFirst(out') /\ CallsPrinted(frames', out')
        /\ walk' = "done" => frames' = << >>
    <2>1. CASE PrintStep
      <3>1. walk # "done" /\ walk' = walk
        BY <2>1 DEF PrintStep, AtEntry, Walking
      <3>2. QED
        BY <1>3, <1>4, <2>1, <3>1, CallsStep, LinesStep, OrderStep
    <2>2. CASE Walking /\ Top.x > Len(Top.buffer) /\ frames' = Below /\ out' = out /\ walk' = walk
      <3>1. walk # "done"
        BY <2>2 DEF Walking
      <3>2. CallsInTree(frames') /\ CallsNested(frames') /\ CallsPrinted(frames', out)
        BY <1>3, <1>4, <2>2, ReturnStep
      <3>3. \A l : DueIn(frames', l) <=> DueIn(frames, l)
        BY <1>3, <2>2, DueAtEnd
      <3>4. LinesPrinted(frames', out)
        BY <1>4, <3>3 DEF LinesPrinted
      <3>5. QED
        BY <1>4, <2>2, <3>1, <3>2, <3>4
    <2>3. CASE frames' = frames /\ out' = out /\ (walk' = walk \/ frames = << >>)
      BY <1>4, <2>3
    <2>4. QED
      BY <1>3, <2>1, <2>2, <2>3, TreeSteps
  <1>6. CallsInTree(frames)'
    BY <1>2, <1>5 DEF CallsInTree, ReadsDir
  <1>7. CallsNested(frames)'
    BY <1>5 DEF CallsNested, Last, Starts, Seen, IsLive, IsDir, DirText
  <1>8. LinesPrinted(frames, out)'
    BY <1>2, <1>5 DEF LinesPrinted, DueIn, Due, Starts
  <1>9. ParentFirst(out)' /\ CallsPrinted(frames, out)'
    BY <1>5 DEF ParentFirst, CallsPrinted, Since, Starts
  <1>10. QED
    BY <1>5, <1>6, <1>7, <1>8, <1>9

\* At first all lines are due in the call for the root.
LEMMA InitTree ==
    ASSUME Init
    PROVE  TreeInv
  <1>1. ArgumentsOK
    BY InitArguments
  <1> SUFFICES ASSUME option = "t", SmallClusters
               PROVE  /\ CallsInTree(frames) /\ CallsNested(frames)
                      /\ LinesPrinted(frames, out)
                      /\ ParentFirst(out) /\ CallsPrinted(frames, out)
                      /\ walk = "done" => frames = << >>
    BY DEF TreeInv
  <1>2. frames = <<RootFrame>> /\ out = << >>
    BY DEF Init
  <1>3. Len(frames) = 1 /\ frames[1] = RootFrame /\ Len(out) = 0 /\ 1 .. Len(out) = {}
    BY <1>2
  <1>4. walk # "done"
    <2>1. option \in Options
      BY DEF Options
    <2>2. walk = "print_files"
      BY <2>1, FirstWalks DEF Init
    <2>3. QED
      BY <2>2
  <1> DEFINE d == [at |-> << >>, c |-> Root]
  <1>5. d \in Tree[0] /\ ReadsDir(frames[1], d)
    BY <1>1, <1>3, TreeUnfold DEF ReadsDir, RootFrame, Frame
  <1>6. CallsInTree(frames)
    <2>1. ASSUME NEW k \in 1 .. Len(frames) PROVE \E g \in Tree[k - 1] : ReadsDir(frames[k], g)
      <3>1. k = 1 /\ k - 1 = 0
        BY <1>3
      <3> HIDE DEF d
      <3>2. QED
        BY <1>5, <3>1
    <2>2. QED
      BY <2>1 DEF CallsInTree
  <1>7. CallsNested(frames)
    BY <1>3 DEF CallsNested
  <1>8. CallsPrinted(frames, out) /\ ParentFirst(out)
    BY <1>3 DEF CallsPrinted, ParentFirst
  <1>9. ASSUME NEW l \in SeenLines PROVE DueIn(frames, l)
    <2>1. 1 \in 1 .. Len(l) /\ Len(l) \in Nat /\ 1 - 1 = 0
      BY <1>1, LineWay, DiskFacts
    <2>2. PICK p \in Tree[0] : \E e \in SeenIn(p.c) : Way(l, 1, p, e)
      BY <1>1, <2>1, LineWay
    <2>3. PICK e \in SeenIn(p.c) : Way(l, 1, p, e)
      BY <2>2
    <2>4. p = d
      BY <1>1, TreeUnfold
    <2>5. PICK i \in 1 .. Len(Entries(Root)) : Entries(Root)[i] = e /\ Seen(e)
      BY <1>1, <2>3, <2>4, SeenFacts
    <2>6. l[1] = LineText(e)
      BY <2>3 DEF Way
    <2>7. Starts(l, << >>)
      BY <2>1 DEF Starts
    <2>8. Due(frames[1], l, 1)
      BY <1>3, <2>1, <2>5, <2>6, <2>7 DEF Due, RootFrame, Frame
    <2>9. QED
      BY <1>3, <2>8 DEF DueIn
  <1>10. LinesPrinted(frames, out)
    <2>1. out \in Seq(SeenLines)
      BY <1>2
    <2>2. QED
      BY <1>3, <1>9, <2>1 DEF LinesPrinted
  <1>11. QED
    BY <1>4, <1>6, <1>7, <1>8, <1>10

\* TreeInv is an invariant of the reader.
LEMMA TreeInvariance == Spec => [](BaseInv /\ TreeInv)
  <1>1. Init => TreeInv
    BY InitTree
  <1>2. BaseInv /\ TreeInv /\ [Next]_vars => TreeInv'
    BY TreeStep
  <1>3. QED
    BY <1>1, <1>2, BaseInvariance, PTL DEF Spec

-----------------------------------------------------------------------------
(* What is seen, and what is live *)

\* The live subdirectories, level by level, as LiveDirs has them.
LiveBelow(D) ==
    UNION {{[at |-> Append(d.at, DirText(e)), c |-> e.start] :
               e \in {x \in LiveIn(d.c) : x.attr = "dir" /\ ~IsDots(x)}} : d \in D}

IsLiveTree(f, n) ==
    f = [k \in 0 .. n |-> IF k = 0 THEN {[at |-> << >>, c |-> Root]} ELSE LiveBelow(f[k - 1])]

LiveTree == CHOOSE f : IsLiveTree(f, Levels)

LEMMA LiveUnfold ==
    ASSUME ArgumentsOK
    PROVE  /\ LiveTree[0] = {[at |-> << >>, c |-> Root]}
           /\ \A k \in 1 .. Levels : LiveTree[k] = Below1(LiveTree[k - 1], TRUE)
           /\ LiveDirs = UNION {LiveTree[k] : k \in 0 .. Levels}
  <1>1. Levels \in Nat
    BY DiskFacts
  <1>2. \A D : LiveBelow(D) = Below1(D, TRUE)
    BY DEF LiveBelow, Below1
  <1>3. \A f : IsLiveTree(f, Levels) <=> IsTree(f, Levels, TRUE)
    BY <1>2 DEF IsLiveTree, IsTree
  <1>4. \E f : IsLiveTree(f, Levels)
    BY <1>1, <1>3, TreeExists
  <1>5. IsLiveTree(LiveTree, Levels)
    BY <1>4 DEF LiveTree
  <1>6. IsTree(LiveTree, Levels, TRUE)
    BY <1>3, <1>5
  <1>7. LiveDirs = UNION {LiveTree[k] : k \in DOMAIN LiveTree}
    BY DEF LiveDirs, LiveTree, IsLiveTree, LiveBelow, Levels
  <1> HIDE DEF LiveTree
  <1>8. /\ LiveTree[0] = {[at |-> << >>, c |-> Root]}
        /\ \A k \in 1 .. Levels : LiveTree[k] = Below1(LiveTree[k - 1], TRUE)
        /\ DOMAIN LiveTree = 0 .. Levels
    BY <1>1, <1>6, LevelByLevel
  <1>9. QED
    BY <1>7, <1>8

\* The level after another one.
LEMMA NextLevel ==
    ASSUME ArgumentsOK, NEW n \in Nat, n + 1 <= Levels
    PROVE  /\ Tree[n + 1] = Below1(Tree[n], FALSE)
           /\ LiveTree[n + 1] = Below1(LiveTree[n], TRUE)
  <1>1. Levels \in Nat
    BY DiskFacts
  <1>2. PICK m \in 1 .. Levels : m = n + 1 /\ m - 1 = n
    BY <1>1
  <1>3. \A k \in 1 .. Levels : Tree[k] = Below1(Tree[k - 1], FALSE)
    BY TreeUnfold
  <1>4. \A k \in 1 .. Levels : LiveTree[k] = Below1(LiveTree[k - 1], TRUE)
    BY LiveUnfold
  <1>5. Tree[m] = Below1(Tree[m - 1], FALSE)
    BY <1>3, Zenon
  <1>6. LiveTree[m] = Below1(LiveTree[m - 1], TRUE)
    BY <1>4, Zenon
  <1>7. QED
    BY <1>2, <1>5, <1>6, Zenon

\* What is seen of a directory is live, and is all that is live in one that fits
\* into a cluster and has no other attribute bits.
LEMMA SeenIsLive ==
    ASSUME ArgumentsOK, NEW c \in 0 .. disk.size - 1
    PROVE  /\ SeenIn(c) \subseteq LiveIn(c)
           /\ Fits(c) /\ Unmarked(c) => SeenIn(c) = LiveIn(c)
           /\ \A e \in SeenIn(c) : e.start \in 0 .. disk.size - 1 /\ NameOf(e) = LineText(e)
  <1>1. c % Wrap = c /\ disk.size \in Nat
    BY ClusterPlace
  <1>2. \A i \in 1 .. Len(Entries(c)) :
           /\ i \in 1 .. Len(Directory(c)) /\ Entries(c)[i] = Directory(c)[i]
           /\ Entries(c)[i] \in Fields /\ Entries(c)[i].start < disk.size
    BY <1>1, EntriesFacts
  <1>3. SeenIn(c) \subseteq LiveIn(c)
    BY <1>2 DEF SeenIn, Seen, LiveIn, EntriesOf
  <1>4. ASSUME Fits(c), Unmarked(c) PROVE LiveIn(c) \subseteq SeenIn(c)
    <2>1. Entries(c) = Directory(c)
      BY <1>1, <1>4, EntriesFacts
    <2>2. QED
      BY <1>4, <2>1 DEF SeenIn, Seen, LiveIn, EntriesOf, Unmarked, IsLive
  <1>5. ASSUME NEW e \in SeenIn(c)
        PROVE  e.start \in 0 .. disk.size - 1 /\ NameOf(e) = LineText(e)
    <2>1. e \in Fields /\ e.start < disk.size /\ ~e.marked
      BY <1>2 DEF SeenIn, Seen
    <2>2. e.start \in Nat
      BY <2>1 DEF Fields
    <2>3. NameOf(e) = LineText(e)
      BY <2>1 DEF NameOf, LineText, IsFile
    <2>4. QED
      BY <1>1, <2>1, <2>2, <2>3
  <1>6. QED
    BY <1>3, <1>4, <1>5

\* The directories that are seen are live.
LEMMA TreeIsLive ==
    ASSUME ArgumentsOK
    PROVE  \A k \in 0 .. Levels : \A d \in Tree[k] :
              d \in LiveTree[k] /\ d.c \in 0 .. disk.size - 1
  <1> DEFINE Q == {k \in Nat : k <= Levels =>
                      \A d \in Tree[k] : d \in LiveTree[k] /\ d.c \in 0 .. disk.size - 1}
  <1>0. Levels \in Nat
    BY DiskFacts
  <1>1. 0 \in Q
    BY TreeUnfold, LiveUnfold, DiskFacts
  <1>2. ASSUME NEW n \in Nat, n \in Q PROVE n + 1 \in Q
    <2> SUFFICES ASSUME n + 1 <= Levels, NEW d \in Tree[n + 1]
                 PROVE  d \in LiveTree[n + 1] /\ d.c \in 0 .. disk.size - 1
      OBVIOUS
    <2>1. n + 1 \in 1 .. Levels /\ n + 1 - 1 = n /\ n <= Levels
      BY <1>0
    <2>2. PICK p \in Tree[n] : \E e \in SeenIn(p.c) : IsChild(p, e, d)
      BY <2>1, TreeChildren
    <2>3. PICK e \in SeenIn(p.c) : IsChild(p, e, d)
      BY <2>2
    <2>4. p \in LiveTree[n] /\ p.c \in 0 .. disk.size - 1
      BY <1>2, <2>1
    <2>5. e \in LiveIn(p.c) /\ e.start \in 0 .. disk.size - 1
      BY <2>4, SeenIsLive
    <2>6. LiveTree[n + 1] = Below1(LiveTree[n], TRUE)
      BY NextLevel
    <2>7. /\ e.attr = "dir" /\ ~IsDots(e)
          /\ d = [at |-> Append(p.at, DirText(e)), c |-> e.start]
      BY <2>3 DEF IsChild, IsDir
    <2>8. d \in LiveTree[n + 1]
      <3>1. e \in {x \in LiveIn(p.c) : x.attr = "dir" /\ ~IsDots(x)}
        BY <2>5, <2>7
      <3>2. Below1(LiveTree[n], TRUE) =
               UNION {{[at |-> Append(g.at, DirText(x)), c |-> x.start] :
                          x \in {y \in LiveIn(g.c) : y.attr = "dir" /\ ~IsDots(y)}} : g \in LiveTree[n]}
        BY DEF Below1
      <3>3. LiveTree[n + 1] =
               UNION {{[at |-> Append(g.at, DirText(x)), c |-> x.start] :
                          x \in {y \in LiveIn(g.c) : y.attr = "dir" /\ ~IsDots(y)}} : g \in LiveTree[n]}
        BY <2>6, <3>2, Zenon
      <3>4. d \in {[at |-> Append(p.at, DirText(x)), c |-> x.start] :
                      x \in {y \in LiveIn(p.c) : y.attr = "dir" /\ ~IsDots(y)}}
        BY <2>7, <3>1
      <3>5. QED
        BY <2>4, <3>3, <3>4
    <2>9. QED
      BY <2>5, <2>7, <2>8
  <1> HIDE DEF Q
  <1>3. \A n \in Nat : n \in Q
    BY <1>1, <1>2, NatSetInduction
  <1>4. QED
    BY <1>0, <1>3 DEF Q

AllVisible == \A d \in LiveDirs : Fits(d.c) /\ Unmarked(d.c)

\* All live directories are seen if they fit and no entry has other bits.
LEMMA TreeIsWhole ==
    ASSUME ArgumentsOK, AllVisible
    PROVE  \A k \in 0 .. Levels : Tree[k] = LiveTree[k]
  <1> DEFINE Q == {k \in Nat : k <= Levels => Tree[k] = LiveTree[k]}
  <1>0. Levels \in Nat
    BY DiskFacts
  <1>1. 0 \in Q
    BY TreeUnfold, LiveUnfold
  <1>2. ASSUME NEW n \in Nat, n \in Q PROVE n + 1 \in Q
    <2> SUFFICES ASSUME n + 1 <= Levels PROVE Tree[n + 1] = LiveTree[n + 1]
      OBVIOUS
    <2>1. n + 1 \in 1 .. Levels /\ n + 1 - 1 = n /\ n \in 0 .. Levels /\ n <= Levels
      BY <1>0
    <2>2. Tree[n] = LiveTree[n]
      BY <1>2, <2>1
    <2>3. Tree[n + 1] = Below1(Tree[n], FALSE) /\ LiveTree[n + 1] = Below1(Tree[n], TRUE)
      <3>1. /\ Tree[n + 1] = Below1(Tree[n], FALSE)
            /\ LiveTree[n + 1] = Below1(LiveTree[n], TRUE)
        BY NextLevel
      <3>2. QED
        BY <2>2, <3>1, Zenon
    <2>4. ASSUME NEW d \in Tree[n] PROVE SeenIn(d.c) = LiveIn(d.c)
      <3>1. d \in LiveDirs
        BY <2>1, <2>2, LiveUnfold
      <3>2. d.c \in 0 .. disk.size - 1
        BY <2>1, TreeIsLive
      <3>3. QED
        BY <3>1, <3>2, SeenIsLive DEF AllVisible
    <2>5. Below1(Tree[n], FALSE) = Below1(Tree[n], TRUE)
      BY <2>4 DEF Below1
    <2>6. QED
      BY <2>3, <2>5
  <1> HIDE DEF Q
  <1>3. \A n \in Nat : n \in Q
    BY <1>1, <1>2, NatSetInduction
  <1>4. QED
    BY <1>0, <1>3 DEF Q

\* The lines of what is seen are live lines.
LEMMA LinesAreLive ==
    ASSUME ArgumentsOK
    PROVE  /\ SeenDirs \subseteq LiveDirs
           /\ SeenLines \subseteq LiveLines
           /\ AllVisible => SeenLines = LiveLines
  <1>1. SeenDirs \subseteq LiveDirs
    BY TreeIsLive, LiveUnfold DEF SeenDirs
  <1>2. \A d \in SeenDirs : d.c \in 0 .. disk.size - 1
    BY TreeIsLive DEF SeenDirs
  <1>3. SeenLines \subseteq LiveLines
    <2> SUFFICES ASSUME NEW l \in SeenLines PROVE l \in LiveLines
      OBVIOUS
    <2>1. PICK d \in SeenDirs : \E e \in SeenIn(d.c) : l = Append(d.at, LineText(e))
      BY DEF SeenLines
    <2>2. PICK e \in SeenIn(d.c) : l = Append(d.at, LineText(e))
      BY <2>1
    <2>3. d \in LiveDirs /\ e \in LiveIn(d.c) /\ l = Append(d.at, NameOf(e))
      BY <1>1, <1>2, <2>2, SeenIsLive
    <2>4. QED
      BY <2>3 DEF LiveLines
  <1>4. ASSUME AllVisible PROVE LiveLines \subseteq SeenLines
    <2> SUFFICES ASSUME NEW l \in LiveLines PROVE l \in SeenLines
      OBVIOUS
    <2>1. PICK d \in LiveDirs : \E e \in LiveIn(d.c) : l = Append(d.at, NameOf(e))
      BY DEF LiveLines
    <2>2. PICK e \in LiveIn(d.c) : l = Append(d.at, NameOf(e))
      BY <2>1
    <2>3. d \in SeenDirs
      BY <1>4, LiveUnfold, TreeIsWhole DEF SeenDirs
    <2>4. Fits(d.c) /\ Unmarked(d.c)
      BY <1>4 DEF AllVisible
    <2>5. e \in SeenIn(d.c)
      BY <1>2, <2>3, <2>4, SeenIsLive
    <2>6. l = Append(d.at, LineText(e))
      BY <1>2, <2>2, <2>3, <2>5, SeenIsLive
    <2>7. QED
      BY <2>3, <2>5, <2>6 DEF SeenLines
  <1>5. QED
    BY <1>1, <1>3, <1>4

-----------------------------------------------------------------------------
(* The property *)

\* A path that starts a line is the first part of it.
LEMMA StartsSub ==
    ASSUME NEW l \in Seq(Texts), NEW at \in Seq(Texts), Starts(l, at)
    PROVE  SubSeq(l, 1, Len(at)) = at
  <1> DEFINE n == Len(at)
  <1>1. n \in Nat /\ n <= Len(l) /\ \A i \in 1 .. n : l[i] = at[i] /\ l[i] \in Texts
    BY DEF Starts
  <1>2. n \in Int /\ 1 \in Int /\ \A i \in 1 .. n : l[i] \in Texts
    BY <1>1
  <1> HIDE DEF n
  <1>3. /\ SubSeq(l, 1, n) \in Seq(Texts)
        /\ Len(SubSeq(l, 1, n)) = IF 1 <= n THEN n - 1 + 1 ELSE 0
        /\ \A i \in 1 .. n - 1 + 1 : SubSeq(l, 1, n)[i] = l[1 + i - 1]
    BY <1>2, SubSeqProperties
  <1> DEFINE s == SubSeq(l, 1, n)
  <1>4. s \in Seq(Texts) /\ Len(s) = n /\ \A i \in 1 .. n : s[i] = at[i]
    BY <1>1, <1>3
  <1> HIDE DEF s
  <1>5. s = at
    BY <1>4 DEF n
  <1>6. QED
    BY <1>5 DEF s, n

\* -t prints lines of live entries and none twice, a directory before what is in
\* it and nothing else between; it prints all of them if every directory fits into
\* a cluster and no entry has other attribute bits (print_files, fat.c:604-730).
THEOREM TreeIsExact == Spec => []TreeExact
  <1>1. BaseInv /\ TreeInv => TreeExact
    <2> SUFFICES ASSUME BaseInv, TreeInv, walk = "done", option = "t",
                        \A d \in LiveDirs : d.c < 256
                 PROVE  /\ {out[i] : i \in 1 .. Len(out)} \subseteq LiveLines
                        /\ Len(out) = Cardinality({out[i] : i \in 1 .. Len(out)})
                        /\ AllVisible => {out[i] : i \in 1 .. Len(out)} = LiveLines
                        /\ \A k \in 1 .. Len(out) : Len(out[k]) > 1 =>
                              \E i \in 1 .. k - 1 :
                                 LET at == SubSeq(out[k], 1, Len(out[k]) - 1)
                                 IN  /\ out[i] = at
                                     /\ \A j \in i + 1 .. k : SubSeq(out[j], 1, Len(at)) = at
      BY DEF TreeExact, AllVisible
    <2>a. SmallClusters
      BY LinesAreLive DEF BaseInv, SmallClusters
    <2>1. ArgumentsOK /\ frames = << >> /\ LinesPrinted(frames, out) /\ ParentFirst(out)
      BY <2>a DEF TreeInv, BaseInv
    <2>2. \A l : ~DueIn(frames, l)
      <3>1. 1 .. Len(frames) = {}
        BY <2>1
      <3>2. QED
        BY <3>1 DEF DueIn
    <2>3. out \in Seq(SeenLines) /\ Len(out) \in Nat
      BY <2>1 DEF LinesPrinted
    <2>4. \A i \in 1 .. Len(out) : out[i] \in SeenLines /\ out[i] \in Seq(Texts) /\ Len(out[i]) \in Nat
      BY <2>1, <2>3, LineWay
    <2>5. \A l \in SeenLines : \E i \in 1 .. Len(out) : out[i] = l
      BY <2>1, <2>2 DEF LinesPrinted
    <2>6. {out[i] : i \in 1 .. Len(out)} = SeenLines
      BY <2>4, <2>5
    <2>7. Len(out) = Cardinality(SeenLines)
      <3> DEFINE at == [i \in 1 .. Len(out) |-> out[i]]
      <3>1. at \in [1 .. Len(out) -> SeenLines]
        BY <2>4
      <3>2. \A i, j \in 1 .. Len(out) : at[i] = at[j] => i = j
        BY <2>1 DEF LinesPrinted
      <3>3. \A l \in SeenLines : \E i \in 1 .. Len(out) : at[i] = l
        BY <2>5
      <3> HIDE DEF at
      <3>4. at \in Bijection(1 .. Len(out), SeenLines)
        <4>1. at \in Injection(1 .. Len(out), SeenLines)
          BY <3>1, <3>2, Zenon DEF Injection, IsInjective
        <4>2. at \in Surjection(1 .. Len(out), SeenLines)
          BY <3>1, <3>3, Zenon DEF Surjection
        <4>3. QED
          BY <4>1, <4>2 DEF Bijection
      <3>5. ExistsBijection(1 .. Len(out), SeenLines)
        BY <3>4 DEF ExistsBijection
      <3>6. Cardinality(SeenLines) = Len(out)
        BY <2>3, <3>5, FS_CountingElements
      <3>7. QED
        BY <3>6
    <2>8. ASSUME NEW k \in 1 .. Len(out), Len(out[k]) > 1
          PROVE  \E i \in 1 .. k - 1 :
                    LET at == SubSeq(out[k], 1, Len(out[k]) - 1)
                    IN  /\ out[i] = at
                        /\ \A j \in i + 1 .. k : SubSeq(out[j], 1, Len(at)) = at
      <3>1. PICK i \in 1 .. k - 1 :
               /\ Len(out[i]) = Len(out[k]) - 1
               /\ \A j \in i + 1 .. k : Starts(out[j], out[i])
        BY <2>1, <2>8 DEF ParentFirst
      <3>2. i \in 1 .. Len(out) /\ k \in i + 1 .. k /\ \A j \in i + 1 .. k : j \in 1 .. Len(out)
        BY <2>3
      <3>3. \A j \in i + 1 .. k : SubSeq(out[j], 1, Len(out[i])) = out[i]
        BY <2>4, <3>1, <3>2, StartsSub
      <3>4. SubSeq(out[k], 1, Len(out[k]) - 1) = out[i]
        BY <3>1, <3>2, <3>3
      <3>5. QED
        BY <3>3, <3>4
    <2>9. QED
      BY <2>1, <2>6, <2>7, <2>8, LinesAreLive
  <1>2. QED
    BY <1>1, TreeInvariance, PTL
=============================================================================
