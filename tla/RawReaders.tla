----------------------------- MODULE RawReaders -----------------------------
(***************************************************************************)
(* btrfs-raw.py and fat32-raw.py: reading files out of an unmounted file   *)
(* system.  A device is a function from offsets to cells; a tree node, a   *)
(* directory sector and a unit of file data each take one cell.  An image  *)
(* is made by a writer of the on-disk format, from the file system it      *)
(* represents, and what the reader returns is compared with that.          *)
(***************************************************************************)
LOCAL INSTANCE Integers
LOCAL INSTANCE Sequences
LOCAL INSTANCE SequencesExt
LOCAL INSTANCE FiniteSetsExt
LOCAL INSTANCE TLC

Found(v) == [ok |-> TRUE, value |-> v]
Failed == [ok |-> FALSE, value |-> <<>>]
IndexOrAfter(s, test(_)) ==
  LET hits == {i \in DOMAIN s : test(s[i])}
  IN  IF hits = {} THEN Len(s) + 1 ELSE Min(hits)
UpTo(s, test(_)) == SubSeq(s, 1, IndexOrAfter(s, test) - 1)

-----------------------------------------------------------------------------
(* Btrfs: chunks.                                                          *)

\* Keys are <<object, type, offset>>, compared like Python's tuples.
Before(a, b) == \E i \in 1..3 : a[i] < b[i] /\ \A j \in 1..(i - 1) : a[j] = b[j]

\* _parse_chunk, in cells of four bytes: the header's length and the place of
\* the stripe count in the three layouts; a stripe is eight cells, its
\* device, offset and uuid at 0, 2 and 4.
ChunkLayouts == <<<<12, 11>>, <<13, 12>>, <<11, 9>>>>
StripeCells == 8
ParseChunk(body, uuid) ==
  LET cell(i) == body[i + 1]
      at(hdr, i) == hdr + StripeCells * (i - 1)
      stripes(l) == [i \in 1..cell(l[2]) |-> <<cell(at(l[1], i)), cell(at(l[1], i) + 2)>>]
      fits(l) ==
        /\ Len(body) >= l[1] + StripeCells
        /\ cell(l[2]) \in 1..2
        /\ Len(body) >= l[1] + StripeCells * cell(l[2])
        /\ \A i \in 1..cell(l[2]) : cell(at(l[1], i)) = 1 /\ cell(at(l[1], i) + 4) = uuid
      first == SelectInSeq(ChunkLayouts, fits)
  IN  IF first = 0 THEN Failed
      ELSE Found([length |-> cell(0), stripes |-> stripes(ChunkLayouts[first])])

\* A dictionary in insertion order: a known start keeps its place.
SetChunk(chunks, c) ==
  IF \E i \in DOMAIN chunks : chunks[i].start = c.start
  THEN [i \in DOMAIN chunks |-> IF chunks[i].start = c.start THEN c ELSE chunks[i]]
  ELSE Append(chunks, c)

\* map: the first stripe of the first chunk that holds the address.
MapLogical(chunks, logical) ==
  LET i == SelectInSeq(chunks, LAMBDA c : c.start <= logical /\ logical < c.start + c.length)
  IN  chunks[i].stripes[1][2] + (logical - chunks[i].start)
Mapped(chunks, logical) ==
  \E i \in DOMAIN chunks : chunks[i].start <= logical /\ logical < chunks[i].start + chunks[i].length
ReadLogical(img, chunks, logical, n) ==
  [i \in 1..n |-> img.device[MapLogical(chunks, logical) + i - 1]]

-----------------------------------------------------------------------------
(* Btrfs: trees.                                                           *)

NoKey == <<>>

\* A slip: a subtree is skipped when its own first key is below the range.
SkipSubtreeEarly(ptrs, i, lo) == lo # NoKey /\ Before(ptrs[i].key, lo)

\* A subtree is skipped when the next one starts at or below the range.
SkipSubtree(ptrs, i, lo) ==
  lo # NoKey /\ i + 1 <= Len(ptrs) /\ ~Before(lo, ptrs[i + 1].key)

\* walk_tree: the bounds are inclusive, NoKey is no bound.
RECURSIVE WalkTree(_, _, _, _, _)
WalkTree(img, chunks, logical, lo, hi) ==
  LET node == ReadLogical(img, chunks, logical, 1)[1]
      past(e) == hi # NoKey /\ Before(hi, e.key)
      taken == UpTo(node.entries, past)
  IN  IF node.level > 0
      THEN FlattenSeq([i \in DOMAIN taken |->
             IF SkipSubtree(node.entries, i, lo) THEN <<>>
             ELSE WalkTree(img, chunks, taken[i].addr, lo, hi)])
      ELSE SelectSeq(taken, LAMBDA e : ~(lo # NoKey /\ Before(e.key, lo)))

\* The items of one object.
Largest == 9
ObjectItems(img, chunks, tree, object) ==
  WalkTree(img, chunks, tree, <<object, 0, 0>>, <<object, Largest, Largest>>)

\* The constructor: the bootstrap chunk, then every chunk of the chunk tree.
Chunks(img) ==
  FoldLeft(LAMBDA acc, e :
             LET r == ParseChunk(e.body.cells, img.uuid)
             IN  IF r.ok THEN SetChunk(acc, [start |-> e.key[3], length |-> r.value.length,
                                             stripes |-> r.value.stripes]) ELSE acc,
           <<img.bootstrap>>, WalkTree(img, <<img.bootstrap>>, img.chunkRoot, NoKey, NoKey))

-----------------------------------------------------------------------------
(* Btrfs: items, told apart by their shape.                                *)

\* An entry is a location, the lengths of its data and of its name, and
\* both; a run of entries fills the item.  Cells above zero are printable.
EntryHeader == 3
RECURSIVE DirEntries(_)
DirEntries(d) ==
  LET end == EntryHeader + d[2] + d[3]
      name == SubSeq(d, EntryHeader + 1, EntryHeader + d[3])
      rest == DirEntries(SubSeq(d, end + 1, Len(d)))
  IN  IF Len(d) < EntryHeader \/ d[3] = 0 \/ end > Len(d) THEN Failed
      ELSE IF \E i \in DOMAIN name : name[i] = 0 THEN Failed
      ELSE IF end = Len(d) THEN Found(<<[name |-> name, loc |-> d[1]]>>)
      ELSE IF rest.ok THEN Found(<<[name |-> name, loc |-> d[1]]>> \o rest.value)
      ELSE Failed

\* The entries of every item that parses as a run of them.
EntriesOf(items) ==
  FlattenSeq([i \in DOMAIN items |-> DirEntries(items[i].body.cells).value])

IsRootItem(img, chunks, body) ==
  /\ body.len >= 188
  /\ body.bytenr # 0 /\ body.bytenr < img.total
  /\ Mapped(chunks, body.bytenr)

RootItem(img, chunks, rootid) ==
  LET items == WalkTree(img, chunks, img.root, <<rootid, 0, 0>>, NoKey)
      i == SelectInSeq(items, LAMBDA e : e.key[1] = rootid /\ IsRootItem(img, chunks, e.body))
  IN  IF i = 0 THEN Failed ELSE Found(items[i].body.bytenr)

\* Every entry whose object number is also the number of a root; the last
\* entry of a name wins.
FsTree == 5
Subvols(img, chunks) ==
  FoldLeft(LAMBDA seen, e : IF RootItem(img, chunks, e.loc.obj).ok
                            THEN (e.name :> e.loc.obj) @@ seen ELSE seen,
           << >>, EntriesOf(WalkTree(img, chunks, RootItem(img, chunks, FsTree).value, NoKey, NoKey)))

RootItemType == 4     \* 0x84
FirstInode == 6       \* 256
\* lookup, part by part; a nested subvolume continues in its own tree.
Lookup(img, chunks, tree, path) ==
  LET step(at, part) ==
        LET entries == EntriesOf(ObjectItems(img, chunks, at.value[1], at.value[2]))
            i == SelectInSeq(entries, LAMBDA e : e.name = part)
            loc == entries[i].loc
        IN  IF ~at.ok \/ i = 0 THEN Failed
            ELSE IF loc.typ = RootItemType
            THEN Found(<<RootItem(img, chunks, loc.obj).value, FirstInode>>)
            ELSE Found(<<at.value[1], loc.obj>>)
  IN  FoldLeft(step, Found(<<tree, FirstInode>>), path)

Resolve(img, chunks, subvol, path) ==
  LET seen == Subvols(img, chunks)
  IN  IF subvol \notin DOMAIN seen THEN Failed
      ELSE Lookup(img, chunks, RootItem(img, chunks, seen[subvol]).value, path)

InodeSize(img, chunks, tree, ino) ==
  LET items == ObjectItems(img, chunks, tree, ino)
  IN  items[SelectInSeq(items, LAMBDA e : e.body.len = 160)].body.size

IsRegular(body) == body.len = 53
IsInline(body) == 21 < body.len /\ body.len < 53 /\ body.byte16 < 4
Extents(img, chunks, tree, ino) ==
  SelectSeq(ObjectItems(img, chunks, tree, ino), LAMBDA e : IsRegular(e.body) \/ IsInline(e.body))

\* read_file: whole (tail < 0) or its last bytes.
ReadFile(img, chunks, tree, ino, tail) ==
  LET size == InodeSize(img, chunks, tree, ino)
      start == IF tail < 0 THEN 0 ELSE Max({0, size - tail})
      extents == Extents(img, chunks, tree, ino)
      data(b) ==
        IF IsRegular(b) THEN SubSeq(ReadLogical(img, chunks, b.bytenr, b.diskNum), b.offset + 1, b.offset + b.num)
        ELSE b.data
      end(e) == e.key[3] + (IF IsRegular(e.body) THEN e.body.num ELSE Len(e.body.data))
      place(buf, e) ==
        IF end(e) <= start THEN buf
        ELSE (Max({e.key[3], start}) :> SubSeq(data(e.body), Max({0, start - e.key[3]}) + 1, Len(data(e.body)))) @@ buf
      buf == FoldLeft(place, << >>, extents)
      joined == FlattenSeq([i \in 1..Cardinality(DOMAIN buf) |-> buf[SetToSortSeq(DOMAIN buf, <)[i]]])
  IN  IF \E i \in DOMAIN extents : extents[i].body.byte16 # 0 THEN Failed
      ELSE Found(SubSeq(joined, 1, Min({size - start, Len(joined)})))

\* cat SUBVOL FILE --tail N.
Cat(img, subvol, path, tail) ==
  LET chunks == Chunks(img)
      at == Resolve(img, chunks, subvol, path)
  IN  IF ~at.ok THEN Failed ELSE ReadFile(img, chunks, at.value[1], at.value[2], tail)

ListDir(img, subvol, path) ==
  LET chunks == Chunks(img)
      at == Resolve(img, chunks, subvol, path)
      entries == EntriesOf(ObjectItems(img, chunks, at.value[1], at.value[2]))
  IN  IF ~at.ok THEN Failed ELSE Found({entries[i].name : i \in DOMAIN entries})

-----------------------------------------------------------------------------
(* Fat32: a directory is a sequence of sectors of one entry each.          *)

EndOfChain == 90
RECURSIVE Chain(_, _)
Chain(fat, clus) ==
  IF clus = 0 \/ clus >= EndOfChain THEN <<>> ELSE <<clus>> \o Chain(fat, fat[clus])
\* A cluster is a sequence of cells, clusters are numbered from two.
ReadChain(fs, clus) == FlattenSeq([i \in DOMAIN Chain(fs.fat, clus) |-> fs.clusters[Chain(fs.fat, clus)[i]]])

\* A part of a long name ends at its terminator or padding.
CutPart(part) == UpTo(part, LAMBDA c : c <= 0)
\* entries: mark is how the entry begins (0 ends the directory, 2 deletes
\* it), attr 15 a part of a long name; the parts come last first.
Entries(fs, clus) ==
  LET data == UpTo(ReadChain(fs, clus), LAMBDA e : e.mark = 0)
      step(st, e) ==
        IF e.attr = 15 /\ e.mark # 2 THEN [st EXCEPT !.lfn = Append(@, CutPart(e.part))]
        ELSE IF e.mark = 2 \/ e.attr = 15 THEN st
        ELSE LET long == FlattenSeq(Reverse(st.lfn))
             IN  [out |-> Append(st.out, [name |-> IF long = <<>> THEN e.short ELSE long,
                                          dir |-> e.attr = 16, size |-> e.size, clus |-> e.clus]),
                  lfn |-> <<>>]
  IN  FoldLeft(step, [out |-> <<>>, lfn |-> <<>>], data).out

\* Characters 11..19 are the capitals of 1..9.
Lower(name) == [i \in DOMAIN name |-> IF name[i] > 10 THEN name[i] - 10 ELSE name[i]]
FatLookup(fs, path) ==
  LET step(at, part) ==
        LET entries == Entries(fs, at.value.clus)
            i == SelectInSeq(entries, LAMBDA e : Lower(e.name) = Lower(part))
        IN  IF ~at.ok \/ ~at.value.dir THEN at
            ELSE IF i = 0 THEN Failed ELSE Found(entries[i])
  IN  FoldLeft(step, Found([name |-> <<>>, dir |-> TRUE, size |-> 0, clus |-> fs.root]), path)
FatRead(fs, path) ==
  LET at == FatLookup(fs, path)
      data == ReadChain(fs, at.value.clus)
  IN  IF ~at.ok THEN Failed ELSE IF at.value.dir THEN Failed
      ELSE Found(SubSeq(data, 1, Min({at.value.size, Len(data)})))
=============================================================================
