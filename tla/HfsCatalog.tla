----------------------------- MODULE HfsCatalog -----------------------------
(***************************************************************************)
(* Volumes, paths and directories (lib/hfs/hfs.c): HFSInitPartition,       *)
(* HFSReadFile, HFSGetFileBlock and HFSGetDirEntry, over disks that are    *)
(* used in turn.                                                           *)
(*                                                                         *)
(* A catalog is the sequence of its records in key order: that a search    *)
(* finds a record, and where the next one is, is the subject of HfsBTree.  *)
(* dirIndex is the position of a record in that sequence, 0 behind the     *)
(* last one and -1 when there are no more.  A name is a sequence of        *)
(* characters, as paths are.                                               *)
(***************************************************************************)
EXTENDS Integers, SequencesExt

CONSTANTS
    Disks,          \* CICell values other than 0
    Formats,        \* what a disk may hold: "hfs", "wrapped", "hfs+", "none"
    Catalogs,       \* what its catalog may be
    SystemFolder,   \* finderInfo[5], 0 for none
    Paths,          \* what callers ask for
    LinkPath        \* where the file of a hard link lies

RootFolderID == 2
Kinds == {"folder", "file", "link", "thread"}   \* a link is a file record, too

VARIABLES
    format, catalog,    \* what is on the disks
    vol,        \* the volume in use: current (gCurrentIH), isPlus; and whose
                \* sectors or values these are: mdb (gHFSMDB), plusHeader
                \* (gHFSPlus), geometry (gBlockSize, gAllocationOffset) and
                \* btHeader (gBTHeaders[0], 0 for none)
    answer,     \* the last HFSReadFile; id -1 for an error
    cursor      \* one caller that lists a directory

vars == <<format, catalog, vol, answer, cursor>>

NoAnswer == [disk |-> 0, path |-> <<>>, id |-> -1]
NoCursor == [disk |-> 0, path |-> <<>>, dirIndex |-> 0, listed |-> <<>>, state |-> "idle"]

-----------------------------------------------------------------------------
(* HFSInitPartition *)

IsPlus(ih) == format[ih] \in {"wrapped", "hfs+"}

\* Mutant: the header of the catalog before is kept.
MountedStale(ih) ==
    [vol EXCEPT !.current = ih, !.isPlus = IsPlus(ih), !.mdb = ih, !.geometry = ih,
                !.plusHeader = IF IsPlus(ih) THEN ih ELSE @]

\* The volume in use stays as it is; on another one the header of the other
\* format keeps what it had; with neither signature no volume is in use.
Mounted(ih) ==
    IF ih = vol.current THEN vol
    ELSE IF format[ih] = "none"
    THEN [vol EXCEPT !.current = 0, !.isPlus = FALSE, !.mdb = ih, !.plusHeader = ih,
                     !.btHeader = 0]
    ELSE [vol EXCEPT !.current = ih, !.isPlus = IsPlus(ih), !.mdb = ih, !.geometry = ih,
                     !.plusHeader = IF IsPlus(ih) THEN ih ELSE @,
                     !.btHeader = 0]

\* The first search on a volume reads the header of its catalog.
Searched(v) == [v EXCEPT !.btHeader = IF @ = 0 THEN v.geometry ELSE @]

-----------------------------------------------------------------------------
(* ReadCatalogEntry, ResolvePathToCatalogEntry *)

After(records, i) == IF i = Len(records) THEN 0 ELSE i + 1

At(records, parent, name) ==
    {i \in DOMAIN records : records[i].parent = parent /\ records[i].name = name}

\* strncpy(gTempStr, filePath, cnt+1): the '/' is copied as well.
FirstName(path) ==
    LET slashes == {i \in DOMAIN path : path[i] = "/"}
    IN  IF slashes = {} THEN path
        ELSE SubSeq(path, 1, CHOOSE i \in slashes : \A j \in slashes : i <= j)

Rest(path) == SubSeq(path, Len(FirstName(path)) + 1, Len(path))

\* Where a path begins: after one '/' or none the root folder, after two the
\* system folder.
Base(path) ==
    LET slash(i) == i \in DOMAIN path /\ path[i] = "/"
    IN  IF slash(1) /\ slash(2) THEN [dir |-> SystemFolder, rest |-> SubSeq(path, 3, Len(path))]
        ELSE [dir |-> RootFolderID, rest |-> SubSeq(path, IF slash(1) THEN 2 ELSE 1, Len(path))]

\* Nothing is found: flags and dirIndex keep what they had.
Unresolved == [ok |-> FALSE, kind |-> "unset", id |-> 0, dirIndex |-> 0]

\* What a folder and the rest of the path resolve to
Below(here, below) ==
    IF below.kind = "unset" THEN [here EXCEPT !.ok = FALSE] ELSE below

\* Down the folders of the path, to a file or to the thread record before the
\* entries of a folder.  A hard link is looked up again by LinkPath; if that
\* fails, the flags are still those of a file.
Resolve(ih, path, dir) ==
    LET records == catalog[ih]
        ids == {records[i].id : i \in DOMAIN records}
        from[p \in Suffixes(path) \union Suffixes(LinkPath), d \in ids \union {dir}] ==
            LET at   == At(records, d, FirstName(p))
                i    == CHOOSE i \in at : TRUE
                here == [ok |-> TRUE, kind |-> records[i].kind, id |-> records[i].id,
                         dirIndex |-> After(records, i)]
            IN  IF at = {} THEN Unresolved
                ELSE IF here.kind = "folder" THEN Below(here, from[Rest(p), here.id])
                ELSE IF here.kind = "link" /\ IsPlus(ih)
                THEN LET linked == from[LinkPath, RootFolderID]
                     IN  [linked EXCEPT !.kind = IF @ = "unset" THEN "file" ELSE @,
                                        !.dirIndex = here.dirIndex]
                ELSE here
    IN  from[path, dir]

-----------------------------------------------------------------------------
(* HFSReadFile, HFSGetFileBlock *)

\* Mutant: what was resolved is taken for a file.
IsFlatAlways(found) == found.ok

IsFlat(found) == found.ok /\ found.kind \in {"file", "link"}

Answer(ih, path, id) ==
    /\ answer' = [disk |-> ih, path |-> path, id |-> id]
    /\ UNCHANGED <<format, catalog, cursor>>

\* No volume, or no system folder
ReadFileFails(ih, path) ==
    /\ Mounted(ih).current = 0 \/ Base(path).dir = 0
    /\ vol' = Mounted(ih)
    /\ Answer(ih, path, -1)

ReadFile(ih, path) ==
    LET base  == Base(path)
        found == Resolve(ih, base.rest, base.dir)
    IN  /\ Mounted(ih).current # 0 /\ base.dir # 0
        /\ vol' = Searched(Mounted(ih))
        /\ Answer(ih, path, IF IsFlat(found) THEN found.id ELSE -1)

-----------------------------------------------------------------------------
(* HFSGetDirEntry, GetCatalogEntry *)

\* The record at dirIndex; at -1 it is read from a node that has none.
EntriesAt(records, dirIndex) ==
    IF dirIndex = -1 THEN {[name |-> <<"?">>, kind |-> kind] : kind \in Kinds}
    ELSE {[name |-> records[dirIndex].name, kind |-> records[dirIndex].kind]}

\* Mutant: does not go on.
AfterEntrySame(records, dirIndex) == dirIndex

AfterEntry(records, dirIndex) ==
    IF dirIndex = -1 THEN 0 ELSE After(records, dirIndex)

Ended(dirIndex) == IF dirIndex = 0 THEN -1 ELSE dirIndex

\* The entry at dirIndex is returned, or the directory ends at a thread record.
Entry(c, dirIndex) ==
    \E entry \in EntriesAt(catalog[c.disk], dirIndex) :
        cursor' = [c EXCEPT !.dirIndex = Ended(AfterEntry(catalog[c.disk], dirIndex)),
                            !.state = IF entry.kind = "thread" THEN "ended" ELSE "open",
                            !.listed = IF entry.kind = "thread" THEN @ ELSE Append(@, entry.name)]

\* dirIndex is 0.  The flags of a path that is not found are not initialized.
FirstEntry(ih, path) ==
    LET base  == Base(path)
        found == Resolve(ih, base.rest, base.dir)
    IN  /\ cursor = NoCursor
        /\ Mounted(ih).current # 0 /\ base.dir # 0
        /\ vol' = Searched(Mounted(ih))
        /\ found.kind \in {"thread", "unset"}
        /\ Entry([NoCursor EXCEPT !.disk = ih, !.path = path], Ended(found.dirIndex))
        /\ UNCHANGED <<format, catalog, answer>>

NoDirectory(ih, path) ==
    LET base == Base(path) IN
    /\ cursor = NoCursor
    /\ IF Mounted(ih).current # 0 /\ base.dir # 0
       THEN /\ vol' = Searched(Mounted(ih))
            /\ Resolve(ih, base.rest, base.dir).kind # "thread"
       ELSE vol' = Mounted(ih)
    /\ UNCHANGED <<format, catalog, answer, cursor>>

\* Any other volume may have been in use in between.
NextEntry ==
    /\ cursor.state = "open" /\ cursor.dirIndex # -1
    /\ vol' = Searched(Mounted(cursor.disk))
    /\ Entry(cursor, cursor.dirIndex)
    /\ UNCHANGED <<format, catalog, answer>>

NoMoreEntries ==
    /\ cursor.state = "open" /\ cursor.dirIndex = -1
    /\ vol' = Mounted(cursor.disk)
    /\ cursor' = [cursor EXCEPT !.state = "ended"]
    /\ UNCHANGED <<format, catalog, answer>>

\* The caller is done with it.
CloseDirectory ==
    /\ cursor.state = "ended"
    /\ cursor' = NoCursor
    /\ UNCHANGED <<format, catalog, vol, answer>>

-----------------------------------------------------------------------------

Init ==
    /\ format \in [Disks -> Formats] /\ catalog \in [Disks -> Catalogs]
    /\ vol = [current |-> 0, isPlus |-> FALSE, mdb |-> 0, plusHeader |-> 0,
              geometry |-> 0, btHeader |-> 0]
    /\ answer = NoAnswer /\ cursor = NoCursor

Next ==
    \/ \E ih \in Disks, path \in Paths :
        ReadFileFails(ih, path) \/ ReadFile(ih, path)
        \/ FirstEntry(ih, path) \/ NoDirectory(ih, path)
    \/ NextEntry \/ NoMoreEntries \/ CloseDirectory

Spec == Init /\ [][Next]_vars

-----------------------------------------------------------------------------
(* Properties *)

\* Whatever was tried in between, what a search uses is of the volume in use.
OneVolume ==
    vol.current # 0 =>
        /\ vol.isPlus = IsPlus(vol.current)
        /\ vol.mdb = vol.current /\ vol.geometry = vol.current
        /\ vol.isPlus => vol.plusHeader = vol.current
        /\ vol.btHeader \in {0, vol.current}

\* What a path means: name after name, from the root or the system folder.
Names(path) == SelectSeq(FoldLeft(
    LAMBDA names, c : IF c = "/" THEN Append(names, <<>>)
                      ELSE [names EXCEPT ![Len(names)] = Append(@, c)], <<<<>>>>, path),
    LAMBDA name : name # <<>>)

Meant(ih, path) ==
    LET base == Base(path)
        step(id, name) == LET at == At(catalog[ih], id, name)
                          IN  IF at = {} THEN 0 ELSE catalog[ih][CHOOSE i \in at : TRUE].id
    IN  FoldLeft(step, base.dir, Names(base.rest))

RecordOf(ih, id) == {i \in DOMAIN catalog[ih] : catalog[ih][i].id = id /\ catalog[ih][i].kind # "thread"}

\* hfs.c: "gTempStr is a name in the current Dir."
\* HFSReadFile reads the file its path names, a link's file for a link, and
\* fails for anything else.
FindsNamed ==
    answer.disk # 0 /\ format[answer.disk] # "none" =>
        LET ih    == answer.disk
            meant == Meant(ih, answer.path)
            kinds == {catalog[ih][i].kind : i \in RecordOf(ih, meant)}
        IN  answer.id = IF kinds = {"link"} /\ IsPlus(ih) THEN Meant(ih, LinkPath)
                        ELSE IF kinds \subseteq {"file", "link"} /\ meant # 0 THEN meant
                        ELSE -1

Entries(ih, dir) == SelectSeq(catalog[ih], LAMBDA r : r.parent = dir /\ r.name # <<>>)

\* A directory that is not empty is listed entry by entry, in order, each once,
\* until the last one, also when other volumes are used in between.
ListsDirectory ==
    cursor.state # "idle" =>
        LET entries == Entries(cursor.disk, Meant(cursor.disk, cursor.path))
            names   == [i \in DOMAIN entries |-> entries[i].name]
        IN  names # <<>> => /\ IsPrefix(cursor.listed, names)
                            /\ cursor.state = "ended" => cursor.listed = names
=============================================================================
