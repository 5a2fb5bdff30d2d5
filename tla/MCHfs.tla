------------------------------- MODULE MCHfs --------------------------------
(***************************************************************************)
(* The HFS reader for model checking: its block cache, and the parts that  *)
(* read through it.  Each is checked by itself against what the others     *)
(* promise, so a behaviour runs one of them, part, and the others rest.    *)
(***************************************************************************)
EXTENDS HfsCache, HfsCaseTables, TLC

CONSTANTS
    Parts,
    Density, BlockSize, LoadSize, Files,    \* of HfsExtents
    IDs, Rests, IDBits, Trees,              \* of HfsBTree
    Paths                                   \* of HfsCatalog

VARIABLE part

-----------------------------------------------------------------------------
(* HfsExtents: files of up to five extents, which never touch, for they would  *)
(* be one.                                                                   *)

VARIABLES extents, fileLength, offset, length, want, nextExtent, countedBlocks,
          currentExtentBlock, extentBuffer, buffer, readPc, returned

SmallFiles ==
    {[i \in DOMAIN counts |-> [start |-> 3 * i, count |-> counts[i]]] :
        counts \in UNION {[1 .. n -> 1 .. 2] : n \in 1 .. 5}}

ASSUME ExtentAssumption ==
    /\ Density \in Nat \ {0} /\ BlockSize \in Nat \ {0} /\ LoadSize \in Nat
    /\ \A file \in Files : file # <<>> /\ file \in Seq([start : Nat, count : Nat \ {0}])

Ext == INSTANCE HfsExtents WITH pc <- readPc

ExtAtRest ==
    /\ extents = <<>> /\ fileLength = 0 /\ offset = 0 /\ length = 0
    /\ want = [offset |-> 0, length |-> 0]
    /\ nextExtent = 0 /\ countedBlocks = 0 /\ currentExtentBlock = 0
    /\ extentBuffer = <<>> /\ buffer = <<>> /\ readPc = "file" /\ returned = 0

-----------------------------------------------------------------------------
(* HfsBTree: trees of up to nine keys, with two or three in a node.          *)

VARIABLES tree, root, key, curNode, lowerBound, upperBound, index, result, searchPc, found

Tree == INSTANCE HfsBTree WITH pc <- searchPc

\* Consecutive parts of at most n elements, and how many there are.
NodesFor(n, s) == (Len(s) + n - 1) \div n
PartOf(n, s, i) == SubSeq(s, n * (i - 1) + 1, IF n * i < Len(s) THEN n * i ELSE Len(s))

\* One level of nodes, numbered from first, over records [key, child].
Level(kind, records, n, first) ==
    [node \in first .. first + NodesFor(n, records) - 1 |->
        LET inNode == PartOf(n, records, node - first + 1)
        IN  [kind |-> kind, keys |-> [i \in DOMAIN inNode |-> inNode[i].key],
             child |-> [i \in DOMAIN inNode |-> inNode[i].child],
             fLink |-> IF node < first + NodesFor(n, records) - 1 THEN node + 1 ELSE 0]]

\* Its index records: the first key of every node.
Index(level) ==
    LET first == Min(DOMAIN level)
    IN  [i \in 1 .. Cardinality(DOMAIN level) |->
            [key |-> level[first + i - 1].keys[1], child |-> first + i - 1]]

Leaves(S, n) ==
    LET before(k) == {l \in S : l[1] < k[1] \/ (l[1] = k[1] /\ l[2] < k[2])}
        sorted == [i \in 1 .. Cardinality(S) |-> CHOOSE k \in S : Cardinality(before(k)) = i - 1]
    IN  Level("leaf", [i \in DOMAIN sorted |-> [key |-> sorted[i], child |-> 0]], n, 1)

\* Levels of index nodes, of at most n records each, until one has all of the
\* level below.
TreeOf(S, n) ==
    LET leaves == Leaves(S, n)
        grow[h \in 0 .. Cardinality(DOMAIN leaves)] ==
            IF h = 0 THEN [top |-> leaves, all |-> leaves]
            ELSE LET below == grow[h - 1] IN
                 IF Cardinality(DOMAIN below.top) = 1 THEN below
                 ELSE LET top == Level("index", Index(below.top), n, Cardinality(DOMAIN below.all) + 1)
                      IN  [top |-> top, all |-> top @@ below.all]
        built == grow[Cardinality(DOMAIN leaves)]
    IN  [nodes |-> built.all, root |-> Min(DOMAIN built.top)]

SmallTrees == {TreeOf(S, n) : S \in SUBSET (IDs \X Rests) \ {{}}, n \in {2, 3}}

\* IDs do not reach the sign bit.
ASSUME KeyAssumption ==
    /\ IDs \subseteq Nat /\ IDs # {} /\ \A id \in IDs : id < 2 ^ (IDBits - 1)
    /\ Rests \subseteq Nat /\ Rests # {}

ASSUME TreeAssumption == \A t \in Trees : Tree!IsTree(t.nodes, t.root)

TreeAtRest ==
    /\ tree = <<>> /\ root = 0 /\ key = (CHOOSE k \in Tree!Keys : TRUE) /\ curNode = 0
    /\ lowerBound = 0 /\ upperBound = 0 /\ index = 0 /\ result = 0
    /\ searchPc = "read" /\ found = {}

-----------------------------------------------------------------------------
(* HfsCatalog: two disks of any format, with up to two records in a folder *)

VARIABLES format, catalog, vol, lastFile, cursor

Record(parent, name, kind, id) == [parent |-> parent, name |-> name, kind |-> kind, id |-> id]

File(parent, name, id) == Record(parent, <<name>>, "file", id)
Folder == Record(2, <<"d">>, "folder", 3)

\* Folders have a thread record before their entries; files have one on HFS+.
Threads(files) == [i \in DOMAIN files |-> Record(files[i].id, <<>>, "thread", files[i].id)]

CatalogOf(top, inside, fileThreads) ==
    LET files == SelectSeq(top \o inside, LAMBDA r : r.kind # "folder")
    IN  <<Record(1, <<"v">>, "folder", 2), Record(2, <<>>, "thread", 2)>> \o top
        \o (IF Folder \in ToSet(top) THEN <<Record(3, <<>>, "thread", 3)>> \o inside ELSE <<>>)
        \o (IF fileThreads THEN Threads(files) ELSE <<>>)

Catalogs ==
    LET files == <<File(2, "a", 4), File(2, "b", 5)>>
        both  == <<File(2, "a", 4), Folder>>
        inner == <<File(3, "c", 6)>>
    IN  {CatalogOf(<<>>, <<>>, FALSE), CatalogOf(files, <<>>, TRUE),
         CatalogOf(both, <<>>, FALSE), CatalogOf(both, inner, TRUE), CatalogOf(<<Folder>>, inner, FALSE)}

ShortPaths == {<<"/">>, <<"a">>, <<"/", "b">>, <<"/", "d">>, <<"/", "/", "c">>}
LongPaths  == ShortPaths \union {<<"/", "d", "/", "c">>}

Cat == INSTANCE HfsCatalog WITH
    Disks <- 1 .. 2, Formats <- {"hfs", "wrapped", "hfs+", "none"}, SystemFolder <- 3,
    LinkPath <- <<"d", "/", "c">>, answer <- lastFile

CatAtRest ==
    /\ format = <<"none", "none">> /\ catalog = << <<>>, <<>> >>
    /\ vol = [current |-> 0, isPlus |-> FALSE, mdb |-> 0, plusHeader |-> 0,
              geometry |-> 0, btHeader |-> 0]
    /\ lastFile = Cat!NoAnswer /\ cursor = Cat!NoCursor

-----------------------------------------------------------------------------
(* HfsNames: NUL, "A", "a", a ligature of 2 bytes, a character without a       *)
(* table for its high byte, and a joiner, which is ignored.                  *)

VARIABLES name1, name2, beyond

Nam == INSTANCE HfsNames WITH
    Characters <- {0, 65, 97, 230, 512, 8204}, MaxLength <- 3,
    BufferSizes <- {1, 2, 3, 4, 5, 9}

NamAtRest == name1 = <<>> /\ name2 = <<>> /\ beyond = 1

-----------------------------------------------------------------------------

ext == <<extents, fileLength, offset, length, want, nextExtent, countedBlocks,
         currentExtentBlock, extentBuffer, buffer, readPc, returned>>
bt  == <<tree, root, key, curNode, lowerBound, upperBound, index, result, searchPc, found>>
cat == <<format, catalog, vol, lastFile, cursor>>
nam == <<name1, name2, beyond>>

MCInit ==
    /\ part \in Parts
    /\ Init
    /\ IF part = "extents" THEN Ext!Init ELSE ExtAtRest
    /\ IF part = "btree" THEN Tree!Init ELSE TreeAtRest
    /\ IF part = "catalog" THEN Cat!Init ELSE CatAtRest
    /\ IF part = "names" THEN Nam!Init ELSE NamAtRest

MCNext ==
    /\ UNCHANGED part
    /\ \/ part = "cache"   /\ Next      /\ UNCHANGED <<ext, bt, cat, nam>>
       \/ part = "extents" /\ Ext!Next  /\ UNCHANGED <<vars, bt, cat, nam>>
       \/ part = "btree"   /\ Tree!Next /\ UNCHANGED <<vars, ext, cat, nam>>
       \/ part = "catalog" /\ Cat!Next  /\ UNCHANGED <<vars, ext, bt, nam>>
       \/ part = "names"   /\ Nam!Next  /\ UNCHANGED <<vars, ext, bt, cat>>

MCSpec == MCInit /\ [][MCNext]_<<part, vars, ext, bt, cat, nam>>

-----------------------------------------------------------------------------

\* CacheRead: the entries lie inside the cache, and no block of a device has two
\* of them.  ReadExtent: what is read is the part of the file that was
\* asked for.
ReadsFile ==
    /\ part = "cache" => TypeOK /\ EntriesOK
    /\ part = "extents" => Ext!ReadsFile

\* ReadBTreeEntry: a search implements the lookup of a key among the records.
ImplementsLookup == Tree!ImplementsLookup

\* HFSReadFile, HFSInitPartition: the file is the one that its path names, and
\* what the search for it uses is of the volume in use.
FindsNamed == part = "catalog" => Cat!OneVolume /\ Cat!FindsNamed

\* HFSGetDirEntry: a directory is listed in full and in order.
ListsDirectory == part = "catalog" => Cat!ListsDirectory

\* FastUnicodeCompare, FastRelString, BinaryUnicodeCompare: total orders, as the
\* search needs.  utf_encodestr, utf_decodestr: a name that is listed can be
\* used in a path.
NamesUsable ==
    part = "names" => Nam!UnicodeOrder /\ Nam!MacOrder /\ Nam!BinaryOrder /\ Nam!NameSurvives
=============================================================================
