----------------------------- MODULE RawImages -----------------------------
(***************************************************************************)
(* Writers of the two on-disk formats that RawReaders reads, and what a    *)
(* reader of the file system they write should return.                     *)
(***************************************************************************)
LOCAL INSTANCE Integers
LOCAL INSTANCE Sequences
LOCAL INSTANCE SequencesExt
LOCAL INSTANCE FiniteSetsExt
LOCAL INSTANCE TLC
LOCAL INSTANCE RawReaders

CeilDiv(a, b) == (a + b - 1) \div b

-----------------------------------------------------------------------------
(* Btrfs.                                                                  *)

\* A chunk item in a layout: only its length, stripe count and stripes are
\* given, the other cells hold numbers that are no count and no uuid.
ChunkBody(layout, length, stripes, uuid) ==
  [i \in 1..(layout[1] + StripeCells * Len(stripes)) |->
     LET at == i - 1 - layout[1]
         stripe == stripes[at \div StripeCells + 1]
     IN  CASE i = 1 -> length
           [] i = layout[2] + 1 -> Len(stripes)
           [] i > 1 /\ i # layout[2] + 1 /\ at < 0 -> 7
           [] at >= 0 /\ at % StripeCells = 0 -> stripe[1]
           [] at >= 0 /\ at % StripeCells = 2 -> stripe[2]
           [] at >= 0 /\ at % StripeCells = 4 -> uuid
           [] OTHER -> 7]
\* Only a chunk of this device is one.
ChunkReference(c) ==
  IF \A i \in DOMAIN c.stripes : c.stripes[i][1] = 1 /\ c.uuid = c.own
  THEN [ok |-> TRUE, value |-> [length |-> c.length, stripes |-> c.stripes]]
  ELSE [ok |-> FALSE, value |-> <<>>]

\* A tree of three levels over sorted items, per entries in each node; the
\* root is at base.  A short list is a leaf.
BuildTree(items, base, per) ==
  LET group(s, i) == SubSeq(s, (i - 1) * per + 1, Min({i * per, Len(s)}))
      leaves == [i \in 1..CeilDiv(Len(items), per) |-> [level |-> 0, entries |-> group(items, i)]]
      ptr(n, a) == [key |-> n.entries[1].key, addr |-> a]
      toLeaves == [i \in DOMAIN leaves |-> ptr(leaves[i], base + i)]
      inner == [j \in 1..CeilDiv(Len(leaves), per) |-> [level |-> 1, entries |-> group(toLeaves, j)]]
      root == [level |-> 2, entries |-> [j \in DOMAIN inner |-> ptr(inner[j], base + Len(leaves) + j)]]
      nodes == IF Len(leaves) = 1 THEN leaves ELSE <<root>> \o leaves \o inner
  IN  [a \in base..(base + Len(nodes) - 1) |-> nodes[a - base + 1]]

\* The walk over a range is the sorted items of the range.
WalkReference(items, lo, hi) ==
  SelectSeq(items, LAMBDA e : ~(lo # NoKey /\ Before(e.key, lo)) /\ ~(hi # NoKey /\ Before(hi, e.key)))

\* A run of entries: the item is cut into well-formed ones.
DirReference(d) ==
  LET ends == {n \in 0..Len(d) : n = Len(d) \/ n >= EntryHeader}
      wellFormed(from, to) ==
        /\ to - from >= EntryHeader /\ d[from + 3] > 0 /\ to - from = EntryHeader + d[from + 2] + d[from + 3]
        /\ \A i \in (from + EntryHeader + 1)..(from + EntryHeader + d[from + 3]) : d[i] # 0
      next(cut, from) == Min({n \in cut : n > from})
      cuts == {cut \in SUBSET ends : Len(d) \in cut /\ \A from \in (cut \cup {0}) \ {Len(d)} : wellFormed(from, next(cut, from))}
      starts == SetToSortSeq(((CHOOSE cut \in cuts : TRUE) \cup {0}) \ {Len(d)}, <)
  IN  IF cuts = {} \/ d = <<>> THEN [ok |-> FALSE, value |-> <<>>]
      ELSE [ok |-> TRUE, value |-> [i \in DOMAIN starts |->
              [name |-> SubSeq(d, starts[i] + EntryHeader + 1, starts[i] + EntryHeader + d[starts[i] + 3]),
               loc |-> d[starts[i] + 1]]]]

Blank == <<0, 0, 0>>
InodeBody(n) == [len |-> 160, cells |-> Blank, size |-> n, byte16 |-> 0]
DirBody(es) ==
  [len |-> 31 * Len(es), byte16 |-> 0,
   cells |-> FlattenSeq([i \in DOMAIN es |-> <<es[i].loc, 0, Len(es[i].name)>> \o es[i].name])]
Entry(name, obj, typ) == [name |-> name, loc |-> [obj |-> obj, typ |-> typ]]
InodeType == 1

\* A file's extents: inline data, or a place on the disk with slack around.
ExtentItem(ino, content, x) ==
  LET piece == SubSeq(content, x.from + 1, x.from + x.num)
  IN  [key |-> <<ino, 8, x.from>>,
       body |-> IF x.inline
                THEN [len |-> 21 + Len(piece), cells |-> Blank, byte16 |-> x.comp, data |-> piece]
                ELSE [len |-> 53, cells |-> Blank, byte16 |-> x.comp, bytenr |-> x.at,
                      diskNum |-> x.slack + x.num + 1, offset |-> x.slack, num |-> x.num]]
\* Directories are sequences of entries; colliding names share an item.
ObjectOf(ino, o, collide) ==
  LET es == o.entries
      items == IF es = <<>> THEN <<>> ELSE IF collide THEN <<[key |-> <<ino, 3, 0>>, body |-> DirBody(es)]>>
               ELSE [i \in DOMAIN es |-> [key |-> <<ino, 3, i>>, body |-> DirBody(<<es[i]>>)]]
  IN  <<[key |-> <<ino, 1, 0>>, body |-> InodeBody(Len(o.content))]>> \o items
      \o [i \in DOMAIN es |-> [key |-> <<ino, 5, i>>, body |-> DirBody(<<es[i]>>)]]
      \o [i \in DOMAIN o.extents |-> ExtentItem(ino, o.content, o.extents[i])]
Directory(es) == [entries |-> es, content |-> <<>>, extents |-> <<>>]
PlainFile(content, extents) == [entries |-> <<>>, content |-> content, extents |-> extents]

\* The top level holds subvolume 6 and a directory whose inode number is
\* that of subvolume 7, which is nested in subvolume 6.
FileSystem(content, extents) ==
  (5 :> << Directory(<<Entry(<<1>>, 6, RootItemType), Entry(<<2>>, 7, InodeType)>>), Directory(<<>>) >>)
  @@ (6 :> << Directory(<<Entry(<<3>>, 7, InodeType), Entry(<<4, 4>>, 7, RootItemType), Entry(<<5>>, 8, InodeType)>>),
              Directory(<<Entry(<<5>>, 8, InodeType)>>), PlainFile(content, extents) >>)
  @@ (7 :> << Directory(<<Entry(<<5>>, 7, InodeType)>>), PlainFile(<<9>>, <<[from |-> 0, num |-> 1, inline |-> TRUE, comp |-> 0]>>) >>)

TreeAt(id) == 40 * (id - 3)
DataAt == 300
\* The system chunk is where the bootstrap says, the others are moved.
ChunkMap(shift) == << <<10, 20, 10>>, <<30, 220, 30 + shift>>, <<DataAt, 20, 500 + shift>> >>
BtrfsImage(content, extents, layout, copies, per, collide, shift) ==
  LET fs == FileSystem(content, extents)
      uuid == 77
      stripes(c) == [i \in 1..copies |-> <<1, c[3] + 700 * (i - 1)>>]
      items(id) == FlattenSeq([i \in DOMAIN fs[id] |-> ObjectOf(i + FirstInode - 1, fs[id][i], collide)])
      chunkItems == [i \in 1..3 |-> [key |-> <<6, 4, ChunkMap(shift)[i][1]>>,
        body |-> [cells |-> ChunkBody(layout, ChunkMap(shift)[i][2], stripes(ChunkMap(shift)[i]), uuid)]]]
      roots == FlattenSeq([i \in 1..3 |-> <<
        [key |-> <<i + 4, 4, 0>>, body |-> [len |-> 439, bytenr |-> TreeAt(i + 4), cells |-> Blank]],
        [key |-> <<i + 4, 6, 0>>, body |-> [len |-> 22, cells |-> Blank]]>>])
      disk == FlattenSeq([i \in DOMAIN extents |-> IF extents[i].inline THEN <<>>
        ELSE [j \in 1..extents[i].slack |-> 99] \o SubSeq(content \o <<0, 0>>, extents[i].from + 1, extents[i].from + extents[i].num)
             \o <<98>>])
      logical == BuildTree(chunkItems, 10, per) @@ BuildTree(roots, 30, per) @@ BuildTree(items(5), TreeAt(5), per)
        @@ BuildTree(items(6), TreeAt(6), per) @@ BuildTree(items(7), TreeAt(7), per)
        @@ [a \in DataAt..(DataAt + Len(disk) - 1) |-> disk[a - DataAt + 1]]
      device(a) == LET c == CHOOSE x \in ToSet(ChunkMap(shift)) : x[1] <= a /\ a < x[1] + x[2] IN c[3] + a - c[1]
  IN  [device |-> [d \in {device(a) : a \in DOMAIN logical} |-> logical[CHOOSE a \in DOMAIN logical : device(a) = d]],
       bootstrap |-> [start |-> 10, length |-> 20, stripes |-> << <<1, 10>>, <<1, 800>> >>],
       uuid |-> uuid, chunkRoot |-> 10, root |-> 30, total |-> 1000]

\* The object a path leads to, from the top directory of a subvolume.
ObjectAt(fs, id, path) ==
  LET step(at, part) ==
        LET hits == {e \in ToSet(fs[at[1]][at[2]].entries) : e.name = part}
            loc == (CHOOSE e \in hits : TRUE).loc
        IN  IF at = <<>> THEN <<>> ELSE IF hits = {} THEN <<>>
            ELSE IF loc.typ = RootItemType THEN <<loc.obj, 1>> ELSE <<at[1], loc.obj - FirstInode + 1>>
  IN  FoldLeft(step, <<id, 1>>, path)
CatReference(content, extents, path, tail) ==
  LET fs == FileSystem(content, extents)
      at == ObjectAt(fs, 6, path)
      o == fs[at[1]][at[2]]
      n == Len(o.content)
  IN  IF at = <<>> THEN [ok |-> FALSE, value |-> <<>>]
      ELSE IF \E i \in DOMAIN o.extents : o.extents[i].comp # 0 THEN [ok |-> FALSE, value |-> <<>>]
      ELSE [ok |-> TRUE, value |-> SubSeq(o.content, IF tail < 0 \/ tail >= n THEN 1 ELSE n - tail + 1, n)]
ListReference(path) ==
  LET fs == FileSystem(<<>>, <<>>)
      at == ObjectAt(fs, 6, path)
  IN  IF at = <<>> THEN [ok |-> FALSE, value |-> <<>>]
      ELSE [ok |-> TRUE, value |-> {e.name : e \in ToSet(fs[at[1]][at[2]].entries)}]

-----------------------------------------------------------------------------
(* Fat32: objects are directories (sequences of entries) or files; each    *)
(* takes clusters of two cells in the order of a permutation.              *)

PartLength == 2
\* The parts of a long name, last first; the last one is ended and padded.
LongParts(long) ==
  LET n == CeilDiv(Len(long), PartLength)
      char(i) == IF i <= Len(long) THEN long[i] ELSE IF i = Len(long) + 1 THEN 0 ELSE -1
  IN  [p \in 1..n |-> [i \in 1..PartLength |-> char((n - p) * PartLength + i)]]
EntryCells(e, first, size) ==
  LET mark == IF e.deleted THEN 2 ELSE 1
  IN  [p \in 1..Len(LongParts(e.long)) |-> [mark |-> mark, attr |-> 15, part |-> LongParts(e.long)[p]]]
      \o <<[mark |-> mark, attr |-> IF e.dir THEN 16 ELSE 0, short |-> e.short, size |-> size, clus |-> first]>>
CellCount(o) ==
  IF o.dir THEN FoldLeft(LAMBDA a, e : a + Len(LongParts(e.long)) + 1, 0, o.entries) ELSE Len(o.content)
FatImage(objects, perm) ==
  LET count(i) == CeilDiv(CellCount(objects[i]), 2)
      skip(i) == FoldLeft(LAMBDA a, j : a + count(j), 0, [j \in 1..(i - 1) |-> j])
      clusters(i) == [k \in 1..count(i) |-> perm[skip(i) + k]]
      first(i) == IF count(i) = 0 THEN 0 ELSE clusters(i)[1]
      cells(i) ==
        IF objects[i].dir
        THEN FlattenSeq([k \in DOMAIN objects[i].entries |->
               LET e == objects[i].entries[k]
               IN  EntryCells(e, first(e.object), Len(objects[e.object].content))])
             \o [k \in 1..2 |-> [mark |-> 0]]
        ELSE objects[i].content \o <<97, 97>>
      owner(c) == CHOOSE i \in DOMAIN objects : c \in ToSet(clusters(i))
      place(c) == IndexFirstSubSeq(<<c>>, clusters(owner(c)))
      used == UNION {ToSet(clusters(i)) : i \in DOMAIN objects}
  IN  [root |-> first(1),
       fat |-> [c \in used |-> IF place(c) = count(owner(c)) THEN EndOfChain ELSE clusters(owner(c))[place(c) + 1]],
       clusters |-> [c \in used |-> SubSeq(cells(owner(c)), 2 * place(c) - 1, 2 * place(c))]]

\* Names are compared without case; the long name, when there is one, is it.
FatReference(objects, path) ==
  LET name(e) == IF e.long = <<>> THEN e.short ELSE e.long
      same(a, b) == Len(a) = Len(b) /\ \A i \in DOMAIN a : a[i] % 10 = b[i] % 10
      step(at, part) ==
        LET hits == {e \in ToSet(objects[at].entries) : ~e.deleted /\ same(name(e), part)}
        IN  IF at = 0 THEN 0 ELSE IF hits = {} THEN 0 ELSE (CHOOSE e \in hits : TRUE).object
      at == FoldLeft(step, 1, path)
  IN  IF at = 0 THEN [ok |-> FALSE, value |-> <<>>]
      ELSE IF objects[at].dir THEN [ok |-> FALSE, value |-> <<>>]
      ELSE [ok |-> TRUE, value |-> objects[at].content]
=============================================================================
