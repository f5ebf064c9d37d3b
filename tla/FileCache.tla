----------------------------- MODULE FileCache -----------------------------
(***************************************************************************)
(* The file cache of src/file_cache.c: buildCacheFromDisk() reads the      *)
(* directory tree once, while the disk may change under it, and holds each *)
(* file raw, compressed, or not at all; findFileInCache() then looks up    *)
(* the target of a request.  A call of recursivelyBuildFolder() is a       *)
(* folder on the stack.                                                    *)
(***************************************************************************)
EXTENDS Integers, FiniteSets, Sequences, SequencesExt, FiniteSetsExt

CONSTANTS
  Files,      \* the regular files
  Folders,    \* the directories
  Root,       \* root_data_directory
  Parent,     \* the directory of a file, or of a directory other than Root
  Char,       \* the characters of names and targets
  Names,      \* the name of the same, as a sequence of characters
  MaxSize,    \* max_cache_size
  MinGzip,    \* MIN_FILE_SIZE_FOR_GZIP
  IntMax,     \* the largest int
  Sizes,      \* sizes a file may have on the disk
  GzipSizes,  \* lengths of what gzip may print
  MaxChanges, \* bound: changes made to the disk
  Targets,    \* targets of requests
  NOT_FOUND

Entries == Files \union (Folders \ {Root})

ASSUME TreeAssumption ==
  /\ Root \in Folders /\ Files \intersect Folders = {}
  /\ IsFiniteSet(Files) /\ IsFiniteSet(Folders)
  /\ Parent \in [Entries -> Folders]
  /\ NOT_FOUND \notin Files \union Folders
  \* Going up from any entry ends at Root.
  /\ \A S \in SUBSET Entries : S # {} => \E e \in S : Parent[e] \notin S
\* A name has no slash, and is that of one entry of its directory.
ASSUME NamesAssumption ==
  /\ "/" \in Char /\ Targets \subseteq Seq(Char)
  /\ Names \in [Entries -> Seq(Char)]
  /\ \A e \in Entries : \A i \in DOMAIN Names[e] : Names[e][i] # "/"
  /\ \A e, f \in Entries : e # f /\ Parent[e] = Parent[f] => Names[e] # Names[f]
ASSUME SizesAssumption ==
  /\ IntMax \in Nat /\ MaxSize \in 0..IntMax /\ MinGzip \in Nat \ {0}
  /\ Sizes \subseteq Nat /\ GzipSizes \subseteq Nat /\ MaxChanges \in Nat

VARIABLES
  pc,       \* what the innermost recursivelyBuildFolder() does next
  stack,    \* the folders being built, Root first
  todo,     \* the entries readdir() has still to return, of each folder
  room,     \* the lengths of the files and subfolders arrays of each folder
  files,    \* the files array of each folder
  folders,  \* the subfolders array of each folder
  free,     \* cache_free_space
  file,     \* the file being loaded, and the size it is known by
  got,      \* nb_bytes_read in setRawFileContent()
  size,     \* disk: the size of each file
  linked,   \* disk: the entries that exist
  changes   \* disk: changes made so far

disk == <<size, linked, changes>>
cache == <<stack, todo, room, files, folders, free>>
vars == <<pc, cache, file, got, disk>>

Children(d) == {e \in Entries : Parent[e] = d}
Present(d) == Children(d) \intersect linked
Current == Last(stack)

\* There is such a path: what stat(), open() and opendir() look at.
Exists(e) ==
  LET exists[x \in Entries \union {Root}] ==
        IF x = Root THEN TRUE ELSE x \in linked /\ exists[Parent[x]]
  IN  exists[e]

\* What is left of an off_t, st_size, in an int, the size of a File.
AsInt(n) == ((n + IntMax + 1) % (2 * (IntMax + 1))) - (IntMax + 1)

Init ==
  /\ pc = "count"
  /\ stack = <<Root>>
  /\ todo = [d \in Folders |-> {}]
  /\ room = [d \in Folders |-> [files |-> 0, folders |-> 0]]
  /\ files = [d \in Folders |-> <<>>]
  /\ folders = [d \in Folders |-> <<>>]
  /\ free = MaxSize
  /\ file = NOT_FOUND /\ got = 0
  /\ size \in [Files -> Sizes]
  /\ linked = Entries \union {Root}
  /\ changes = 0

----------------------------------------------------------------------------
(***************************************************************************)
(* The disk, changed by others.  Nothing new appears while the cache is    *)
(* built: see the bounds in README.md.                                     *)
(***************************************************************************)

Building == pc \notin {"done", "exited"}

Resize(f) ==
  /\ Building /\ changes < MaxChanges
  /\ changes' = changes + 1
  /\ \E n \in Sizes \ {size[f]} : size' = [size EXCEPT ![f] = n]
  /\ UNCHANGED <<pc, cache, file, got, linked>>

Vanish(e) ==
  /\ Building /\ changes < MaxChanges
  /\ changes' = changes + 1
  /\ e \in linked
  /\ linked' = linked \ {e}
  /\ UNCHANGED <<pc, cache, file, got, size>>

----------------------------------------------------------------------------
(***************************************************************************)
(* Building a folder.                                                      *)
(***************************************************************************)

\* handleErrorAndExit()
Exit == pc' = "exited" /\ UNCHANGED <<cache, file, got, disk>>

\* A mutant of Counted: only regular files are counted.
FilesCounted(d) == [files |-> Cardinality(Present(d) \intersect Files), folders |-> 0]

\* countFilesAndFoldersInDirectory()
Counted(d) == [files   |-> Cardinality(Present(d) \intersect Files),
               folders |-> Cardinality(Present(d) \intersect Folders)]

\* stat() fails on an entry that vanished after readdir() returned it.
CountFolder ==
  /\ pc = "count"
  /\ \/ /\ Exists(Current)
        /\ room' = [room EXCEPT ![Current] = Counted(Current)]
        /\ pc' = "rewind"
        /\ UNCHANGED <<stack, todo, files, folders, free, file, got, disk>>
     \/ ~ Exists(Current) /\ Exit
     \/ Present(Current) # Children(Current) /\ Exit

\* A mutant of Listed: the directory is not rewound after it was counted.
NotRewound(d) == {}

Listed(d) == Present(d)

Rewind ==
  /\ pc = "rewind"
  /\ todo' = [todo EXCEPT ![Current] = Listed(Current)]
  /\ pc' = "fill"
  /\ UNCHANGED <<stack, room, files, folders, free, file, got, disk>>

\* addFileToFolder(), and the space the content takes
AddFile(f, length, state, whole) ==
  /\ files' = [files EXCEPT ![Current] =
                 Append(@, [entry |-> f, size |-> length, state |-> state, whole |-> whole])]
  /\ free' = IF state = "not_loaded" THEN free ELSE free - length
  /\ pc' = "fill"
  /\ file' = NOT_FOUND
  /\ got' = 0

\* The entries of a folder come in any order; one that vanished may still come.
Visit(e) ==
  /\ pc = "fill"
  /\ e \in todo[Current]
  /\ todo' = [todo EXCEPT ![Current] = @ \ {e}]

SkipVanished(e) ==
  /\ Visit(e)
  /\ ~ Exists(e)
  /\ UNCHANGED <<pc, stack, room, files, folders, free, file, got, disk>>

StatFails(e) ==
  /\ pc = "fill"
  /\ e \in todo[Current] /\ ~ Exists(e)
  /\ Exit

Fits(n) == n <= free

LeaveOut(f) ==
  /\ Visit(f)
  /\ Exists(f)
  /\ ~ Fits(AsInt(size[f]))
  /\ AddFile(f, AsInt(size[f]), "not_loaded", FALSE)
  /\ UNCHANGED <<stack, room, folders, disk>>

\* A negative size makes malloc() fail in setRawFileContent().
MallocFails(f) ==
  /\ pc = "fill"
  /\ f \in todo[Current] /\ Exists(f)
  /\ AsInt(size[f]) < 0
  /\ Exit

BeginLoad(f) ==
  /\ Visit(f)
  /\ Exists(f)
  /\ AsInt(size[f]) >= 0 /\ Fits(AsInt(size[f]))
  /\ file' = [entry |-> f, size |-> AsInt(size[f])]
  /\ pc' = IF AsInt(size[f]) < MinGzip THEN "open" ELSE "gzip"
  /\ UNCHANGED <<stack, room, files, folders, free, got, disk>>

OpenRaw ==
  /\ pc = "open"
  /\ \/ /\ Exists(file.entry)
        /\ pc' = "raw"
        /\ UNCHANGED <<cache, file, got, disk>>
     \/ ~ Exists(file.entry) /\ Exit

\* Mutants of IsRead: the loop goes on until it reads past the size; one read()
\* is taken for all.
IsReadPast(n) == n > file.size

IsReadAtOnce(n) == TRUE

IsRead(n) == n >= file.size

\* Each read() asks for the rest; at the end of a file that shrank it returns 0,
\* again and again.  All of them write at the start of the content.
ReadRaw ==
  /\ pc = "raw"
  /\ LET n == Min({file.size, Max({size[file.entry], got})}) IN
       IF IsRead(n)
       THEN AddFile(file.entry, file.size, "raw", got = 0 /\ n = file.size)
       ELSE got' = n /\ UNCHANGED <<pc, files, free, file>>
  /\ UNCHANGED <<stack, todo, room, folders, disk>>

\* read() returns -1 before any byte has come, which makes the count negative; an
\* error later on only lowers the count, and is left out.
ReadFails == pc = "raw" /\ got = 0 /\ file.size > 0 /\ Exit

\* A mutant of BufferLength: (int) (1.2 * size), one and a fifth of the size.
LargerBuffer(n) == (12 * n) \div 10

\* (int) 1.2 * size: the cast comes first.
BufferLength(n) == 1 * n

\* setCompressedFileContent(): runReadableProcess() keeps what fits in the buffer.
Compress ==
  /\ pc = "gzip"
  /\ \E m \in IF Exists(file.entry) THEN GzipSizes ELSE {0} :
       AddFile(file.entry, Min({m, BufferLength(file.size)}), "compressed",
               m <= BufferLength(file.size))
  /\ UNCHANGED <<stack, todo, room, folders, disk>>

EnterFolder(d) ==
  /\ Visit(d)
  /\ Exists(d)
  /\ stack' = Append(stack, d)
  /\ pc' = "count"
  /\ UNCHANGED <<room, files, folders, free, file, got, disk>>

\* A mutant of AddFolder: the number of subfolders is not incremented.
FolderNotAdded(d) == folders

\* addSubfolderToFolder()
AddFolder(d) == [folders EXCEPT ![Parent[d]] = Append(@, d)]

LeaveFolder ==
  /\ pc = "fill"
  /\ todo[Current] = {}
  /\ IF Current = Root
     THEN pc' = "done" /\ UNCHANGED <<stack, folders>>
     ELSE /\ folders' = AddFolder(Current)
          /\ stack' = Front(stack)
          /\ UNCHANGED pc
  /\ UNCHANGED <<todo, room, files, free, file, got, disk>>

Build ==
  \/ CountFolder \/ Rewind \/ OpenRaw \/ ReadRaw \/ ReadFails \/ Compress
  \/ LeaveFolder
  \/ \E e \in Entries : SkipVanished(e) \/ StatFails(e)
  \/ \E f \in Files : LeaveOut(f) \/ MallocFails(f) \/ BeginLoad(f)
  \/ \E d \in Folders : EnterFolder(d)

Next ==
  \/ Build
  \/ \E f \in Files : Resize(f)
  \/ \E e \in Entries : Vanish(e)

Spec == Init /\ [][Next]_vars /\ WF_vars(Build)

----------------------------------------------------------------------------
(***************************************************************************)
(* Lookups.                                                                *)
(***************************************************************************)

findFileInFolder(d, name) ==
  LET found == {i \in DOMAIN files[d] : Names[files[d][i].entry] = name}
  IN  IF found = {} THEN NOT_FOUND ELSE files[d][Min(found)].entry

findSubfolderInFolder(d, name) ==
  LET found == {i \in DOMAIN folders[d] : Names[folders[d][i]] = name}
  IN  IF found = {} THEN NOT_FOUND ELSE folders[d][Min(found)]

\* A mutant of SkipSlashes: at most one '/' is skipped.
SkipSlash(path) == IF path # <<>> /\ path[1] = "/" THEN Tail(path) ELSE path

SkipSlashes(path) ==
  LET letters == {i \in DOMAIN path : path[i] # "/"}
  IN  IF letters = {} THEN <<>> ELSE SubSeq(path, Min(letters), Len(path))

Slashes(path) == {i \in DOMAIN path : path[i] = "/"}

\* What is before the first slash, and what is after it and those that follow it.
NextName(path) == SubSeq(path, 1, Min(Slashes(path)) - 1)
AfterName(path) == SkipSlashes(SubSeq(path, Min(Slashes(path)), Len(path)))

findFileInCache(path) ==
  LET find[d \in Folders] ==
        [rest \in Seq(Char) |->
           LET next == findSubfolderInFolder(d, NextName(rest))
           IN  IF Slashes(rest) = {} THEN findFileInFolder(d, rest)
               ELSE IF next = NOT_FOUND THEN NOT_FOUND
               ELSE find[next][AfterName(rest)]]
  IN  find[Root][SkipSlashes(path)]

\* What recursivelyDeleteFolder(), hence deleteFileCache(), frees, in order.
recursivelyDeleteFolder(folder) ==
  LET freed[d \in Folders] ==
        <<d>> \o [i \in DOMAIN files[d] |-> files[d][i].entry]
              \o FlattenSeq([i \in DOMAIN folders[d] |-> freed[folders[d][i]]])
  IN  freed[folder]

----------------------------------------------------------------------------
(***************************************************************************)
(* Properties.                                                             *)
(***************************************************************************)

Cached == UNION {{d} \X DOMAIN files[d] : d \in Folders}
Loaded == {x \in Cached : files[x[1]][x[2]].state # "not_loaded"}
LoadedBytes == MapThenSumSet(LAMBDA x : files[x[1]][x[2]].size, Loaded)
BytesInLoading ==
  IF file = NOT_FOUND THEN 0 ELSE IF pc = "gzip" THEN BufferLength(file.size) ELSE file.size

\* The contents in memory, with the one being loaded, never take more than
\* max_cache_size bytes (setFileContent() looks at the space left before it
\* knows the length of the compressed content).
CacheNeverOverfull == LoadedBytes + BytesInLoading <= MaxSize

\* A folder never gets more files or subfolders than were counted before its
\* arrays were allocated, whatever vanished in between (addFileToFolder() and
\* addSubfolderToFolder() check no length).  What appears in between, and overruns
\* them (file_cache.c 175-195), is not in the model.
ArraysHold ==
  \A d \in Folders : /\ Len(files[d]) <= room[d].files
                     /\ Len(folders[d]) <= room[d].folders

\* The path of an entry below the root, and the one a request's target stands
\* for: a run of slashes counts for one, those in front for none.
PathOf[e \in Entries] ==
  IF Parent[e] = Root THEN Names[e] ELSE PathOf[Parent[e]] \o <<"/">> \o Names[e]
Meant(path) ==
  FoldLeft(LAMBDA s, c : IF c = "/" /\ (s = <<>> \/ Last(s) = "/") THEN s ELSE Append(s, c),
           <<>>, path)
FilesMeant == [path \in Targets |-> {f \in Files : PathOf[f] = Meant(path)}]

\* Once the cache is built, a target finds the file whose path it means, if that
\* file was still there, and no other file (findFileInCache() over the tree that
\* recursivelyBuildFolder() has put together).
LookupIsExact ==
  pc = "done" =>
    \A path \in Targets :
      LET found == findFileInCache(path)
      IN  /\ found # NOT_FOUND => found \in FilesMeant[path]
          /\ \A f \in FilesMeant[path] : Exists(f) => found = f

\* deleteFileCache() frees every file and folder that was allocated, and none
\* twice, whatever shrank, grew or vanished while the tree was built.
DeletionFreesAll ==
  pc = "done" =>
    LET freed == recursivelyDeleteFolder(Root)
        cached == {files[x[1]][x[2]].entry : x \in Cached}
        entered == {d \in Folders : room[d].files + room[d].folders > 0}
    IN  /\ IsInjective(freed)
        /\ cached \cup entered \subseteq ToSet(freed)

\* A disk that does not change while it is read is in the cache entry for entry,
\* and the space that the cache reports as used is that of its contents.
DiskIsMirrored ==
  /\ pc = "done" /\ changes = 0 =>
       \A d \in Folders : /\ {files[d][i].entry : i \in DOMAIN files[d]} = Children(d) \cap Files
                           /\ ToSet(folders[d]) = Children(d) \cap Folders
  /\ Building \/ free = MaxSize - LoadedBytes

\* Each read() of a file writes at the start of its content: a raw content is still
\* the first bytes of one version of the file, as many as its size says, unless
\* the disk has changed twice.
RawIsWhole ==
  changes <= 1 =>
    \A d \in Folders : \A i \in DOMAIN files[d] :
      files[d][i].state = "raw" => files[d][i].whole

\* Building the cache ends, with a cache or an error, unless a file that is being
\* read has become shorter than the size stat() gave: then setRawFileContent()
\* reads zero bytes for ever.
LoadingEnds ==
  \/ <>(~ Building)
  \/ <>[](pc = "raw" /\ IF file = NOT_FOUND THEN FALSE ELSE size[file.entry] < file.size)

\* A compressed content is all that gzip printed (the comment of
\* setCompressedFileContent(): the buffer is larger than the file, in case the
\* compressed data is).
CompressedIsWhole ==
  \A d \in Folders : \A i \in DOMAIN files[d] :
    files[d][i].state = "compressed" => files[d][i].whole

=============================================================================
