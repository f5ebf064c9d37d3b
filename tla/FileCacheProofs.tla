-------------------------- MODULE FileCacheProofs --------------------------
(***************************************************************************)
(* For every directory tree, and whatever vanishes from it or changes size *)
(* while the cache is built, as long as nothing appears in it: no folder   *)
(* is given more files or subfolders than its arrays were allocated for    *)
(* (the argument counts what may still be added to a folder, and needs     *)
(* that a folder is entered at most once);                                 *)
(* a raw content is whole unless the disk has changed twice; the contents  *)
(* never take more than max_cache_size; a disk that does not change is in  *)
(* the cache entry for entry; the deletion frees all that was allocated,   *)
(* once; and a lookup finds the file whose path the target means, if that  *)
(* is still there, and no other.                                           *)
(***************************************************************************)
EXTENDS FileCache, FiniteSetTheorems, SequenceTheorems, WellFoundedInduction, TLAPS

Loading == {"open", "raw", "gzip"}

FileState == {"not_loaded", "raw", "compressed"}

FileEntry == [entry : Files, size : Int, state : FileState, whole : BOOLEAN]

Types ==
  /\ pc \in {"count", "rewind", "fill", "done", "exited"} \cup Loading
  /\ stack \in Seq(Folders) /\ Len(stack) > 0
  /\ todo \in [Folders -> SUBSET Entries]
  /\ room \in [Folders -> [files : Nat, folders : Nat]]
  /\ files \in [Folders -> Seq(FileEntry)]
  /\ folders \in [Folders -> Seq(Folders)]
  /\ size \in [Files -> Nat]
  /\ pc \in Loading => file \in [entry : Files, size : Int]

\* The stack is a path down from the root.
StackIsPath ==
  /\ stack[1] = Root
  /\ \A i \in 2..Len(stack) : stack[i] # Root /\ Parent[stack[i]] = stack[i - 1]
  /\ \A i, j \in 1..Len(stack) : stack[i] = stack[j] => i = j

OnStack(d) == \E i \in 1..Len(stack) : stack[i] = d

\* Something of the folder has been built.
Touched(d) == OnStack(d) \/ files[d] # <<>> \/ folders[d] # <<>> \/ todo[d] # {}

Untouched == files[Current] = <<>> /\ folders[Current] = <<>> /\ todo[Current] = {}

\* A folder is entered once, from its parent, and before its own subfolders.
EnteredOnce ==
  /\ \A d \in Folders : todo[d] \subseteq Children(d)
  /\ \A d \in Folders \ {Root} :
       Touched(d) => /\ d \notin todo[Parent[d]]
                     /\ OnStack(d) \/ folders[Parent[d]] # <<>>
  /\ pc \in {"count", "rewind"} => Untouched

\* The files and subfolders that a folder may still be given.
FilesDue(d) ==
  Cardinality(todo[d] \cap Files) + (IF pc \in Loading /\ d = Current THEN 1 ELSE 0)
FoldersDue(d) ==
  Cardinality(todo[d] \cap Folders) + (IF OnStack(d) /\ d # Current THEN 1 ELSE 0)

FilesFit == \A d \in Folders : Len(files[d]) + FilesDue(d) <= room[d].files
FoldersFit == \A d \in Folders : Len(folders[d]) + FoldersDue(d) <= room[d].folders

CountedFit ==
  pc = "rewind" => /\ Cardinality(Present(Current) \cap Files) <= room[Current].files
                   /\ Cardinality(Present(Current) \cap Folders) <= room[Current].folders

CacheInv == Types /\ StackIsPath /\ EnteredOnce /\ FilesFit /\ FoldersFit /\ CountedFit

----------------------------------------------------------------------------

LEMMA AsIntIsInt ==
  ASSUME NEW n \in Nat
  PROVE  AsInt(n) \in Int
<1>1. IntMax \in Int /\ IntMax + 1 > 0
  BY SizesAssumption
<1> DEFINE w == 2 * (IntMax + 1)
<1>2. w \in Int /\ w > 0 /\ n + IntMax + 1 \in Int
  BY <1>1
<1>3. AsInt(n) = ((n + IntMax + 1) % w) - (IntMax + 1)
  BY DEF AsInt
<1> HIDE DEF w
<1>4. (n + IntMax + 1) % w \in Int
  BY <1>2
<1> QED
  BY <1>1, <1>3, <1>4

LEMMA FolderIsEntry ==
  ASSUME NEW d \in Folders, d # Root
  PROVE  d \in Entries /\ Parent[d] \in Folders
BY TreeAssumption DEF Entries

LEMMA CurrentIsLast ==
  ASSUME Types
  PROVE  /\ Current = stack[Len(stack)] /\ Current \in Folders /\ OnStack(Current)
         /\ Len(stack) \in 1..Len(stack)
BY DEF Types, Current, Last, OnStack

LEMMA TopOfStack ==
  ASSUME Types
  PROVE  /\ Len(stack) \in Nat /\ Len(stack) > 0
         /\ Current = stack[Len(stack)] /\ Current \in Folders
<1>1. Len(stack) \in Nat /\ Len(stack) > 0
  BY DEF Types
<1> QED
  BY <1>1, CurrentIsLast

\* A folder's parent in the path is the folder before it.
LEMMA PathGoesUp ==
  ASSUME Types, StackIsPath, Len(stack) \in Nat, NEW i \in 2..Len(stack), i - 1 \in 1..Len(stack)
  PROVE  Parent[stack[i]] = stack[i - 1] /\ stack[i - 1] \in Folders
<1>1. stack[i - 1] \in Folders
  BY DEF Types
<1> QED
  BY <1>1 DEF StackIsPath

LEMMA FilesAreCounted ==
  ASSUME Types, NEW d \in Folders
  PROVE  Len(files[d]) \in Nat /\ room[d].files \in Nat
<1>1. files[d] \in Seq(FileEntry) /\ room[d] \in [files : Nat, folders : Nat]
  BY DEF Types
<1> QED
  BY <1>1

\* What is still to come counts for a number, and one entry less for one less.
LEMMA DueIsNat ==
  ASSUME NEW S
  PROVE  /\ IsFiniteSet(S \cap Files) /\ Cardinality(S \cap Files) \in Nat
         /\ IsFiniteSet(S \cap Folders) /\ Cardinality(S \cap Folders) \in Nat
<1>1. IsFiniteSet(S \cap Files) /\ IsFiniteSet(S \cap Folders)
  BY TreeAssumption, FS_Subset
<1> QED
  BY <1>1, FS_CardinalityType

LEMMA SmallerIsLess ==
  ASSUME NEW S, NEW R, R \subseteq S
  PROVE  /\ Cardinality(R \cap Files) <= Cardinality(S \cap Files)
         /\ Cardinality(R \cap Folders) <= Cardinality(S \cap Folders)
<1>1. R \cap Files \subseteq S \cap Files /\ R \cap Folders \subseteq S \cap Folders
  OBVIOUS
<1> QED
  BY <1>1, DueIsNat, FS_Subset

LEMMA OneFileLess ==
  ASSUME NEW S, NEW f \in S \cap Files
  PROVE  Cardinality((S \ {f}) \cap Files) = Cardinality(S \cap Files) - 1
<1> DEFINE due == S \cap Files
<1>1. (S \ {f}) \cap Files = due \ {f}
  OBVIOUS
<1>2. IsFiniteSet(due) /\ f \in due
  BY DueIsNat
<1> HIDE DEF due
<1>3. Cardinality(due \ {f}) = Cardinality(due) - 1
  BY <1>2, FS_RemoveElement
<1> QED
  BY <1>1, <1>3 DEF due

LEMMA OneFolderLess ==
  ASSUME NEW S, NEW d \in S \cap Folders
  PROVE  Cardinality((S \ {d}) \cap Folders) = Cardinality(S \cap Folders) - 1
<1> DEFINE due == S \cap Folders
<1>1. (S \ {d}) \cap Folders = due \ {d}
  OBVIOUS
<1>2. IsFiniteSet(due) /\ d \in due
  BY DueIsNat
<1> HIDE DEF due
<1>3. Cardinality(due \ {d}) = Cardinality(due) - 1
  BY <1>2, FS_RemoveElement
<1> QED
  BY <1>1, <1>3 DEF due

LEMMA SomeNeedRoom ==
  ASSUME NEW n \in Nat, NEW due \in Nat, NEW most \in Nat, NEW others \in Nat,
         n # 0, n + due <= most
  PROVE  most + others > 0
OBVIOUS

\* A subfolder of the innermost folder is not on the stack.
LEMMA NoChildOfCurrent ==
  ASSUME Types, StackIsPath, NEW c \in Folders \ {Root}, Parent[c] = Current
  PROVE  ~ OnStack(c)
<1> SUFFICES ASSUME NEW i \in 1..Len(stack), stack[i] = c PROVE FALSE
  BY DEF OnStack
<1>1. i \in 2..Len(stack)
  BY DEF StackIsPath, Types
<1>2. stack[i - 1] = stack[Len(stack)]
  BY <1>1, CurrentIsLast DEF StackIsPath
<1>3. Len(stack) \in Nat
  BY DEF Types
<1>4. i - 1 \in 1..Len(stack) /\ i - 1 # Len(stack)
  BY <1>1, <1>3
<1> QED
  BY <1>2, <1>4, CurrentIsLast DEF StackIsPath

LEMMA InitCacheInv == Init => CacheInv
<1> SUFFICES ASSUME Init PROVE CacheInv
  OBVIOUS
<1> USE DEF Init
<1>1. Root \in Folders
  BY TreeAssumption
<1>2. Types
  <2>1. stack \in Seq(Folders) /\ Len(stack) > 0
    BY <1>1
  <2>2. size \in [Files -> Nat]
    BY SizesAssumption
  <2>3. /\ files \in [Folders -> Seq(FileEntry)] /\ folders \in [Folders -> Seq(Folders)]
        /\ todo \in [Folders -> SUBSET Entries]
    OBVIOUS
  <2>4. room \in [Folders -> [files : Nat, folders : Nat]]
    OBVIOUS
  <2>5. pc = "count" /\ pc \notin Loading
    BY DEF Loading
  <2> QED
    BY <2>1, <2>2, <2>3, <2>4, <2>5 DEF Types
<1>3. StackIsPath /\ Current = Root
  BY <1>2, CurrentIsLast DEF StackIsPath
<1>4. EnteredOnce
  <2>1. \A d \in Folders : files[d] = <<>> /\ folders[d] = <<>> /\ todo[d] = {}
    OBVIOUS
  <2>2. \A d \in Folders : OnStack(d) => d = Root
    BY DEF OnStack
  <2> QED
    BY <2>1, <2>2, <1>1, <1>3 DEF EnteredOnce, Touched, Untouched
<1>5. \A d \in Folders : todo[d] \cap Files = {} /\ todo[d] \cap Folders = {}
  OBVIOUS
<1>6. \A d \in Folders : FilesDue(d) = 0 /\ FoldersDue(d) = 0
  <2> SUFFICES ASSUME NEW d \in Folders PROVE FilesDue(d) = 0 /\ FoldersDue(d) = 0
    OBVIOUS
  <2>1. OnStack(d) => d = Root
    BY DEF OnStack
  <2> QED
    BY <2>1, <1>3, <1>5, FS_EmptySet DEF FilesDue, FoldersDue, Loading
<1>7. FilesFit /\ FoldersFit
  BY <1>6 DEF FilesFit, FoldersFit
<1> QED
  BY <1>2, <1>3, <1>4, <1>7 DEF CacheInv, CountedFit

----------------------------------------------------------------------------
(***************************************************************************)
(* Steps that take entries away and enter no folder.                       *)
(***************************************************************************)

LessToDo == \A d \in Folders : todo'[d] \subseteq todo[d]

LEMMA LessStillFits ==
  ASSUME NEW n \in Nat, NEW most \in Nat, NEW old \in Nat, NEW new \in Nat,
         new <= old, n + old <= most
  PROVE  n + new <= most
OBVIOUS

LEMMA LessStaysEnteredOnce ==
  ASSUME Types, EnteredOnce, UNCHANGED <<stack, folders>>, LessToDo,
         \A d \in Folders : files'[d] # <<>> => files[d] # <<>> \/ d = Current,
         pc' \in {"count", "rewind"} => pc \in {"count", "rewind"} /\ files' = files
  PROVE  EnteredOnce'
<1> USE DEF LessToDo
<1>1. Current' = Current /\ OnStack(Current)
  BY CurrentIsLast DEF Current
<1>2. \A d : OnStack(d)' <=> OnStack(d)
  BY DEF OnStack
<1>3. \A d \in Folders : Touched(d)' => Touched(d)
  BY <1>1, <1>2 DEF Touched
<1>4. \A d \in Folders : todo'[d] \subseteq Children(d)
  BY DEF EnteredOnce
<1>5. ASSUME NEW d \in Folders \ {Root}, Touched(d)'
      PROVE  d \notin todo'[Parent[d]] /\ (OnStack(d)' \/ folders'[Parent[d]] # <<>>)
  <2>1. d \notin todo[Parent[d]] /\ (OnStack(d) \/ folders[Parent[d]] # <<>>)
    BY <1>3, <1>5 DEF EnteredOnce
  <2> QED
    BY <2>1, <1>2, FolderIsEntry
<1>6. pc' \in {"count", "rewind"} => Untouched'
  BY <1>1, CurrentIsLast DEF EnteredOnce, Untouched
<1>7. \A d : Children(d)' = Children(d)
  BY DEF Children
<1> QED
  BY <1>4, <1>5, <1>6, <1>7 DEF EnteredOnce

LEMMA LessStaysFoldersFit ==
  ASSUME Types, FoldersFit, UNCHANGED <<stack, folders, room>>, LessToDo
  PROVE  FoldersFit'
<1> SUFFICES ASSUME NEW d \in Folders
             PROVE  Len(folders[d]) + FoldersDue(d)' <= room[d].folders
  BY DEF FoldersFit
<1> DEFINE open == IF OnStack(d) /\ d # Current THEN 1 ELSE 0
           old == Cardinality(todo[d] \cap Folders)
           new == Cardinality(todo'[d] \cap Folders)
<1>1. FoldersDue(d) = old + open /\ FoldersDue(d)' = new + open
  BY DEF FoldersDue, OnStack, Current
<1>2. new <= old /\ new \in Nat /\ old \in Nat
  BY SmallerIsLess, DueIsNat DEF LessToDo
<1>3. Len(folders[d]) + FoldersDue(d) <= room[d].folders
  BY DEF FoldersFit
<1>4. Len(folders[d]) \in Nat /\ room[d].folders \in Nat /\ open \in {0, 1}
  BY DEF Types
<1> HIDE DEF open, old, new
<1>5. old + open \in Nat /\ new + open \in Nat /\ new + open <= old + open
  BY <1>2, <1>4
<1> QED
  BY <1>1, <1>3, <1>4, <1>5, LessStillFits

LEMMA StackStaysPath ==
  ASSUME StackIsPath, UNCHANGED stack
  PROVE  StackIsPath'
BY DEF StackIsPath

\* The tree that is built does not change; the disk may.
LEMMA SameTree ==
  ASSUME CacheInv, UNCHANGED <<stack, todo, room, files, folders>>,
         linked' \subseteq linked, size' \in [Files -> Nat],
         \/ pc' = pc
         \/ pc \in Loading /\ pc' \in Loading
         \/ pc' \in {"done", "exited"},
         pc' \in Loading => file' = file
  PROVE  CacheInv'
<1> USE DEF CacheInv
<1>1. Types'
  BY DEF Types, Loading
<1>2. EnteredOnce'
  <2>1. LessToDo
    BY DEF LessToDo
  <2> QED
    BY <2>1, LessStaysEnteredOnce DEF Loading
<1>3. FoldersFit'
  <2>1. LessToDo
    BY DEF LessToDo
  <2> QED
    BY <2>1, LessStaysFoldersFit
<1>4. ASSUME NEW d \in Folders
      PROVE  Len(files[d]) + FilesDue(d)' <= room[d].files
  <2> DEFINE due == Cardinality(todo[d] \cap Files)
             old == IF pc \in Loading /\ d = Current THEN 1 ELSE 0
             new == IF pc' \in Loading /\ d = Current THEN 1 ELSE 0
  <2>1. FilesDue(d) = due + old /\ FilesDue(d)' = due + new
    BY DEF FilesDue, Current
  <2>2. due \in Nat
    BY DueIsNat
  <2>5. old \in {0, 1} /\ new \in {0, 1} /\ (new = 1 => old = 1)
    BY DEF Loading
  <2>3. Len(files[d]) + FilesDue(d) <= room[d].files
    BY DEF FilesFit
  <2>4. Len(files[d]) \in Nat /\ room[d].files \in Nat
    BY DEF Types
  <2> HIDE DEF due, old, new
  <2>6. due + old \in Nat /\ due + new \in Nat /\ due + new <= due + old
    BY <2>2, <2>5
  <2> QED
    BY <2>1, <2>3, <2>4, <2>6, LessStillFits
<1>5. FilesFit'
  BY <1>4 DEF FilesFit
<1>6. CountedFit'
  <2> SUFFICES ASSUME pc' = "rewind" PROVE CountedFit'
    BY DEF CountedFit
  <2>1. pc = "rewind" /\ Current' = Current /\ Present(Current)' \subseteq Present(Current)
    BY DEF Loading, Current, Present, Children
  <2>2. /\ Cardinality(Present(Current)' \cap Files) <= Cardinality(Present(Current) \cap Files)
        /\ Cardinality(Present(Current)' \cap Folders) <= Cardinality(Present(Current) \cap Folders)
    BY <2>1, SmallerIsLess
  <2>3. /\ Cardinality(Present(Current)' \cap Files) \in Nat
        /\ Cardinality(Present(Current) \cap Files) \in Nat
        /\ Cardinality(Present(Current)' \cap Folders) \in Nat
        /\ Cardinality(Present(Current) \cap Folders) \in Nat
    BY DueIsNat
  <2>4. room[Current].files \in Nat /\ room[Current].folders \in Nat
    BY CurrentIsLast DEF Types
  <2> QED
    BY <2>1, <2>2, <2>3, <2>4 DEF CountedFit
<1> QED
  BY <1>1, <1>2, <1>3, <1>5, <1>6, StackStaysPath

----------------------------------------------------------------------------
(***************************************************************************)
(* Files.                                                                  *)
(***************************************************************************)

LEMMA FilesDueIsNat ==
  ASSUME NEW d
  PROVE  /\ FilesDue(d) \in Nat /\ Cardinality(todo[d] \cap Files) <= FilesDue(d)
         /\ Cardinality(todo[d] \cap Files) \in Nat
         /\ pc \notin Loading => FilesDue(d) = Cardinality(todo[d] \cap Files)
<1> DEFINE due == Cardinality(todo[d] \cap Files)
           open == IF pc \in Loading /\ d = Current THEN 1 ELSE 0
<1>1. due \in Nat
  BY DueIsNat
<1>2. open \in {0, 1} /\ (pc \notin Loading => open = 0)
  OBVIOUS
<1>3. FilesDue(d) = due + open
  BY DEF FilesDue
<1> HIDE DEF due, open
<1>4. FilesDue(d) \in Nat /\ due <= FilesDue(d) /\ (pc \notin Loading => FilesDue(d) = due)
  BY <1>1, <1>2, <1>3
<1> QED
  BY <1>1, <1>4 DEF due

LEMMA FilesDueNextIsNat ==
  ASSUME NEW d, pc' \notin Loading
  PROVE  /\ FilesDue(d)' = Cardinality(todo'[d] \cap Files)
         /\ Cardinality(todo'[d] \cap Files) \in Nat
<1> DEFINE due == Cardinality(todo'[d] \cap Files)
<1>1. due \in Nat
  BY DueIsNat
<1>2. FilesDue(d)' = due + 0
  BY DEF FilesDue
<1> HIDE DEF due
<1>3. FilesDue(d)' = due
  BY <1>1, <1>2
<1> QED
  BY <1>1, <1>3 DEF due

LEMMA VisitTakes ==
  ASSUME CacheInv, NEW e, Visit(e)
  PROVE  /\ LessToDo /\ todo' \in [Folders -> SUBSET Entries]
         /\ e \in todo[Current] /\ todo'[Current] = todo[Current] \ {e}
         /\ \A d \in Folders : d # Current => todo'[d] = todo[d]
         /\ e \in Entries /\ Parent[e] = Current /\ pc = "fill"
<1>1. Current \in Folders /\ todo \in [Folders -> SUBSET Entries]
  BY CurrentIsLast DEF CacheInv, Types
<1>2. e \in todo[Current] /\ todo' = [todo EXCEPT ![Current] = @ \ {e}] /\ pc = "fill"
  BY DEF Visit
<1>3. e \in Children(Current)
  BY <1>1, <1>2 DEF CacheInv, EnteredOnce
<1> QED
  BY <1>1, <1>2, <1>3 DEF LessToDo, Children

LEMMA SkipVanishedKeeps ==
  ASSUME CacheInv, NEW e \in Entries, SkipVanished(e)
  PROVE  CacheInv'
<1> USE DEF CacheInv
<1>1. UNCHANGED <<pc, stack, room, files, folders, file, size>> /\ pc = "fill" /\ Visit(e)
  BY DEF SkipVanished, Visit, disk
<1>2. LessToDo /\ todo' \in [Folders -> SUBSET Entries]
  BY <1>1, VisitTakes
<1>3. Types' /\ StackIsPath'
  BY <1>1, <1>2, StackStaysPath DEF Types, Loading
<1>4. EnteredOnce' /\ FoldersFit'
  BY <1>1, <1>2, LessStaysEnteredOnce, LessStaysFoldersFit
<1>5. ASSUME NEW d \in Folders
      PROVE  Len(files[d]) + FilesDue(d)' <= room[d].files
  <2>1. Cardinality(todo'[d] \cap Files) <= Cardinality(todo[d] \cap Files)
    BY <1>2, SmallerIsLess DEF LessToDo
  <2>2. FilesDue(d) \in Nat /\ FilesDue(d)' \in Nat /\ FilesDue(d)' <= FilesDue(d)
    BY <2>1, <1>1, FilesDueIsNat, FilesDueNextIsNat DEF Loading
  <2>3. Len(files[d]) \in Nat /\ room[d].files \in Nat
    BY FilesAreCounted
  <2> QED
    BY <2>2, <2>3, LessStillFits DEF FilesFit
<1>6. FilesFit' /\ CountedFit'
  BY <1>1, <1>5 DEF FilesFit, CountedFit
<1> QED
  BY <1>3, <1>4, <1>6

\* A file that was counted, and has been taken from what is to come, fits.
LEMMA AddFileKeeps ==
  ASSUME CacheInv, NEW f \in Files, NEW length \in Int, NEW state \in FileState,
         NEW whole \in BOOLEAN, AddFile(f, length, state, whole),
         UNCHANGED <<stack, room, folders, size>>,
         LessToDo, todo' \in [Folders -> SUBSET Entries],
         Cardinality(todo'[Current] \cap Files) + 1 <= FilesDue(Current)
  PROVE  CacheInv'
<1> USE DEF CacheInv
<1> DEFINE new == [entry |-> f, size |-> length, state |-> state, whole |-> whole]
<1>1. Current \in Folders /\ Current' = Current
  BY CurrentIsLast DEF Current
<1>2. new \in FileEntry
  BY DEF FileEntry
<1>3. files' = [files EXCEPT ![Current] = Append(@, new)] /\ pc' = "fill"
  BY DEF AddFile
<1> HIDE DEF new
<1>4. /\ files' \in [Folders -> Seq(FileEntry)]
      /\ Len(files'[Current]) = Len(files[Current]) + 1
      /\ \A d \in Folders : d # Current => files'[d] = files[d]
  BY <1>1, <1>2, <1>3 DEF Types
<1>5. Types' /\ StackIsPath'
  BY <1>3, <1>4, StackStaysPath DEF Types, Loading
<1>6. EnteredOnce'
  BY <1>3, <1>4, LessStaysEnteredOnce
<1>7. FoldersFit'
  BY LessStaysFoldersFit
<1>8. ASSUME NEW d \in Folders
      PROVE  Len(files'[d]) + FilesDue(d)' <= room[d].files
  <2>2. Cardinality(todo'[d] \cap Files) \in Nat /\ FilesDue(d)' = Cardinality(todo'[d] \cap Files)
    BY <1>3, FilesDueNextIsNat DEF Loading
  <2>3. FilesDue(d) \in Nat /\ Cardinality(todo[d] \cap Files) <= FilesDue(d)
    BY FilesDueIsNat
  <2>4. Cardinality(todo'[d] \cap Files) <= Cardinality(todo[d] \cap Files)
    BY SmallerIsLess DEF LessToDo
  <2>5. Len(files[d]) \in Nat /\ room[d].files \in Nat
    BY DEF Types
  <2>6. Len(files[d]) + FilesDue(d) <= room[d].files
    BY DEF FilesFit
  <2>7. CASE d = Current
    BY <2>2, <2>3, <2>5, <2>6, <2>7, <1>4
  <2>8. CASE d # Current
    <3>1. Cardinality(todo[d] \cap Files) \in Nat
      BY FilesDueIsNat
    <3>2. FilesDue(d)' \in Nat /\ FilesDue(d)' <= FilesDue(d)
      BY <2>2, <2>3, <2>4, <3>1
    <3> QED
      BY <3>2, <2>3, <2>5, <2>6, <2>8, <1>4, LessStillFits
  <2> QED
    BY <2>7, <2>8
<1>9. FilesFit' /\ CountedFit'
  BY <1>3, <1>8 DEF FilesFit, CountedFit
<1> QED
  BY <1>5, <1>6, <1>7, <1>9

LEMMA TakenFileFits ==
  ASSUME CacheInv, NEW f \in Files, Visit(f)
  PROVE  Cardinality(todo'[Current] \cap Files) + 1 <= FilesDue(Current)
<1>1. f \in todo[Current] \cap Files /\ todo'[Current] = todo[Current] \ {f}
  BY VisitTakes
<1>2. Cardinality(todo'[Current] \cap Files) = Cardinality(todo[Current] \cap Files) - 1
  BY <1>1, OneFileLess
<1>3. /\ Cardinality(todo[Current] \cap Files) \in Nat
      /\ Cardinality(todo[Current] \cap Files) <= FilesDue(Current)
      /\ FilesDue(Current) \in Nat
  BY FilesDueIsNat
<1> QED
  BY <1>2, <1>3

LEMMA LeaveOutKeeps ==
  ASSUME CacheInv, NEW f \in Files, LeaveOut(f)
  PROVE  CacheInv'
<1>1. /\ Visit(f) /\ AddFile(f, AsInt(size[f]), "not_loaded", FALSE)
      /\ UNCHANGED <<stack, room, folders, size>>
  BY DEF LeaveOut, disk
<1>2. AsInt(size[f]) \in Int
  BY AsIntIsInt DEF CacheInv, Types
<1>3. /\ LessToDo /\ todo' \in [Folders -> SUBSET Entries]
      /\ Cardinality(todo'[Current] \cap Files) + 1 <= FilesDue(Current)
  BY <1>1, VisitTakes, TakenFileFits
<1>4. FALSE \in BOOLEAN /\ "not_loaded" \in FileState
  BY DEF FileState
<1> QED
  BY <1>1, <1>2, <1>3, <1>4, AddFileKeeps, Zenon

LEMMA LoadedFileFits ==
  ASSUME CacheInv, pc \in Loading, UNCHANGED todo
  PROVE  /\ Cardinality(todo'[Current] \cap Files) + 1 <= FilesDue(Current)
         /\ LessToDo /\ todo' \in [Folders -> SUBSET Entries]
         /\ file.entry \in Files /\ file.size \in Int
<1>1. FilesDue(Current) = Cardinality(todo[Current] \cap Files) + 1
  BY DEF FilesDue
<1>2. Cardinality(todo[Current] \cap Files) \in Nat
  BY DueIsNat
<1>3. Cardinality(todo[Current] \cap Files) + 1 \in Nat
  BY <1>2
<1> QED
  BY <1>1, <1>3 DEF CacheInv, Types, LessToDo

LEMMA ReadRawKeeps ==
  ASSUME CacheInv, ReadRaw
  PROVE  CacheInv'
<1> DEFINE n == Min({file.size, Max({size[file.entry], got})})
<1>1. pc \in Loading /\ UNCHANGED <<stack, todo, room, folders, linked, size>>
  BY DEF ReadRaw, Loading, disk
<1>2. CASE AddFile(file.entry, file.size, "raw", got = 0 /\ n = file.size)
  <2>1. (got = 0 /\ n = file.size) \in BOOLEAN
    OBVIOUS
  <2>2. /\ Cardinality(todo'[Current] \cap Files) + 1 <= FilesDue(Current)
        /\ LessToDo /\ todo' \in [Folders -> SUBSET Entries]
        /\ file.entry \in Files /\ file.size \in Int
    BY <1>1, LoadedFileFits
  <2>3. "raw" \in FileState
    BY DEF FileState
  <2> HIDE DEF n
  <2> QED
    BY <1>1, <1>2, <2>1, <2>2, <2>3, AddFileKeeps, Zenon
<1>3. CASE UNCHANGED <<pc, files, free, file>>
  <2>1. size' \in [Files -> Nat] /\ linked' \subseteq linked
    BY <1>1 DEF CacheInv, Types
  <2> QED
    BY <1>1, <1>3, <2>1, SameTree
<1> QED
  BY <1>2, <1>3 DEF ReadRaw

LEMMA CompressKeeps ==
  ASSUME CacheInv, Compress
  PROVE  CacheInv'
<1>1. pc \in Loading /\ UNCHANGED <<stack, todo, room, folders, size>>
  BY DEF Compress, Loading, disk
<1>2. PICK m \in IF Exists(file.entry) THEN GzipSizes ELSE {0} :
        AddFile(file.entry, Min({m, BufferLength(file.size)}), "compressed",
                m <= BufferLength(file.size))
  BY DEF Compress
<1>3. m \in Int /\ BufferLength(file.size) \in Int
  <2>1. file.size \in Int
    BY <1>1, LoadedFileFits
  <2> QED
    BY <2>1, SizesAssumption DEF BufferLength
<1>4. Min({m, BufferLength(file.size)}) \in Int
  <2> DEFINE b == BufferLength(file.size)
  <2>1. b \in Int
    BY <1>3
  <2> HIDE DEF b
  <2>2. \E x \in {m, b} : \A y \in {m, b} : x <= y
    BY <1>3, <2>1
  <2>3. Min({m, b}) \in {m, b}
    BY <2>2 DEF Min
  <2>4. Min({m, b}) \in Int
    BY <1>3, <2>1, <2>3
  <2> QED
    BY <2>4 DEF b
<1>5. (m <= BufferLength(file.size)) \in BOOLEAN
  OBVIOUS
<1>6. /\ Cardinality(todo'[Current] \cap Files) + 1 <= FilesDue(Current)
      /\ LessToDo /\ todo' \in [Folders -> SUBSET Entries]
      /\ file.entry \in Files /\ file.size \in Int
  BY <1>1, LoadedFileFits
<1>7. "compressed" \in FileState
  BY DEF FileState
<1> QED
  BY <1>1, <1>2, <1>4, <1>5, <1>6, <1>7, AddFileKeeps, Zenon

LEMMA BeginLoadKeeps ==
  ASSUME CacheInv, NEW f \in Files, BeginLoad(f)
  PROVE  CacheInv'
<1> USE DEF CacheInv
<1>1. /\ Visit(f) /\ UNCHANGED <<stack, room, files, folders, size>>
      /\ file' = [entry |-> f, size |-> AsInt(size[f])]
      /\ pc' \in {"open", "gzip"}
  BY DEF BeginLoad, disk
<1>2. /\ LessToDo /\ todo' \in [Folders -> SUBSET Entries]
      /\ \A d \in Folders : d # Current => todo'[d] = todo[d]
      /\ pc = "fill"
  BY <1>1, VisitTakes
<1>3. AsInt(size[f]) \in Int
  BY AsIntIsInt DEF Types
<1>4. Types' /\ StackIsPath'
  BY <1>1, <1>2, <1>3, StackStaysPath DEF Types, Loading
<1>5. EnteredOnce' /\ FoldersFit'
  BY <1>1, <1>2, LessStaysEnteredOnce, LessStaysFoldersFit
<1>6. ASSUME NEW d \in Folders
      PROVE  Len(files[d]) + FilesDue(d)' <= room[d].files
  <2>1. FilesDue(d) \in Nat
    BY FilesDueIsNat
  <2>2. Len(files[d]) \in Nat /\ room[d].files \in Nat
    BY DEF Types
  <2>3. Current' = Current
    BY <1>1 DEF Current
  <2>4. CASE d = Current
    <3>1. FilesDue(d)' = Cardinality(todo'[d] \cap Files) + 1
      BY <1>1, <2>3, <2>4 DEF FilesDue, Loading
    <3>4. Cardinality(todo'[d] \cap Files) \in Nat
      BY DueIsNat
    <3>2. Cardinality(todo'[d] \cap Files) + 1 \in Nat
      BY <3>4
    <3>3. FilesDue(d)' <= FilesDue(d) /\ FilesDue(d)' \in Nat
      BY <1>1, <2>4, <3>1, <3>2, TakenFileFits
    <3> QED
      BY <2>1, <2>2, <3>3, LessStillFits DEF FilesFit
  <2>5. CASE d # Current
    <3> DEFINE due == Cardinality(todo[d] \cap Files)
    <3>1. FilesDue(d)' = due + 0 /\ FilesDue(d) = due + 0
      BY <1>2, <2>3, <2>5 DEF FilesDue
    <3> HIDE DEF due
    <3> QED
      BY <2>1, <2>2, <3>1 DEF FilesFit
  <2> QED
    BY <2>4, <2>5
<1>7. FilesFit' /\ CountedFit'
  BY <1>1, <1>6 DEF FilesFit, CountedFit
<1> QED
  BY <1>4, <1>5, <1>7

----------------------------------------------------------------------------
(***************************************************************************)
(* Folders.                                                                *)
(***************************************************************************)

\* The innermost folder of a stack with nothing on top.
LEMMA NothingDueAtCurrent ==
  ASSUME Types, todo[Current] = {}
  PROVE  /\ Cardinality(todo[Current] \cap Files) = 0
         /\ Cardinality(todo[Current] \cap Folders) = 0
<1>1. todo[Current] \cap Files = {} /\ todo[Current] \cap Folders = {}
  OBVIOUS
<1> QED
  BY <1>1, FS_EmptySet

LEMMA FoldersDueIsNat ==
  ASSUME NEW d
  PROVE  /\ FoldersDue(d) \in Nat /\ Cardinality(todo[d] \cap Folders) <= FoldersDue(d)
         /\ Cardinality(todo[d] \cap Folders) \in Nat
<1> DEFINE due == Cardinality(todo[d] \cap Folders)
           open == IF OnStack(d) /\ d # Current THEN 1 ELSE 0
<1>1. due \in Nat
  BY DueIsNat
<1>2. open \in {0, 1}
  OBVIOUS
<1>3. FoldersDue(d) = due + open
  BY DEF FoldersDue
<1> HIDE DEF due, open
<1>4. FoldersDue(d) \in Nat /\ due <= FoldersDue(d)
  BY <1>1, <1>2, <1>3
<1> QED
  BY <1>1, <1>4 DEF due

LEMMA CountKeeps ==
  ASSUME CacheInv, pc = "count", room' = [room EXCEPT ![Current] = Counted(Current)],
         pc' = "rewind", UNCHANGED <<stack, todo, files, folders, size, linked>>
  PROVE  CacheInv'
<1> USE DEF CacheInv
<1>1. /\ Current \in Folders /\ Current' = Current
      /\ \A d : OnStack(d)' <=> OnStack(d)
      /\ Present(Current)' = Present(Current)
  BY CurrentIsLast DEF Current, OnStack, Present, Children
<1>2. /\ Counted(Current).files = Cardinality(Present(Current) \cap Files)
      /\ Counted(Current).folders = Cardinality(Present(Current) \cap Folders)
      /\ Counted(Current) \in [files : Nat, folders : Nat]
  BY DueIsNat DEF Counted
<1>3. /\ room' \in [Folders -> [files : Nat, folders : Nat]]
      /\ room'[Current] = Counted(Current)
      /\ \A d \in Folders : d # Current => room'[d] = room[d]
  BY <1>1, <1>2 DEF Types
<1>4. Types' /\ StackIsPath'
  BY <1>3, StackStaysPath DEF Types, Loading
<1>5. EnteredOnce'
  <2>1. LessToDo
    BY DEF LessToDo
  <2> QED
    BY <2>1, LessStaysEnteredOnce
<1>6. Untouched
  BY DEF EnteredOnce
<1>7. FilesFit'
  <2> SUFFICES ASSUME NEW d \in Folders
               PROVE  Len(files[d]) + FilesDue(d)' <= room'[d].files
    BY DEF FilesFit
  <2>1. FilesDue(d)' = Cardinality(todo[d] \cap Files) /\ FilesDue(d) = FilesDue(d)'
    BY FilesDueIsNat, FilesDueNextIsNat DEF Loading
  <2>2. CASE d = Current
    <3>1. Len(files[d]) = 0 /\ FilesDue(d)' = 0
      BY <1>6, <2>1, <2>2, NothingDueAtCurrent DEF Untouched
    <3>2. room'[d].files \in Nat
      BY <1>3
    <3> QED
      BY <3>1, <3>2
  <2>3. CASE d # Current
    BY <1>3, <2>1, <2>3 DEF FilesFit
  <2> QED
    BY <2>2, <2>3
<1>8. FoldersFit'
  <2> SUFFICES ASSUME NEW d \in Folders
               PROVE  Len(folders[d]) + FoldersDue(d)' <= room'[d].folders
    BY DEF FoldersFit
  <2>1. FoldersDue(d)' = FoldersDue(d)
    BY <1>1 DEF FoldersDue
  <2>2. CASE d = Current
    <3>1. Cardinality(todo[d] \cap Folders) = 0
      BY <1>6, <2>2, NothingDueAtCurrent DEF Untouched
    <3>2. FoldersDue(d) = Cardinality(todo[d] \cap Folders) + 0
      BY <2>2 DEF FoldersDue
    <3>3. Len(folders[d]) = 0 /\ FoldersDue(d)' = 0
      <4>1. FoldersDue(d) = 0
        BY <3>1, <3>2
      <4>2. Len(folders[d]) = 0
        BY <1>6, <2>2 DEF Untouched
      <4> QED
        BY <4>1, <4>2, <2>1
    <3>4. room'[d].folders \in Nat
      BY <1>3
    <3> QED
      BY <3>3, <3>4
  <2>3. CASE d # Current
    BY <1>3, <2>1, <2>3 DEF FoldersFit
  <2> QED
    BY <2>2, <2>3
<1>9. CountedFit'
  <2>1. /\ Cardinality(Present(Current) \cap Files) \in Nat
        /\ Cardinality(Present(Current) \cap Folders) \in Nat
    BY DueIsNat
  <2> QED
    BY <1>1, <1>2, <1>3, <2>1 DEF CountedFit
<1> QED
  BY <1>4, <1>5, <1>7, <1>8, <1>9

LEMMA RewindKeeps ==
  ASSUME CacheInv, Rewind
  PROVE  CacheInv'
<1> USE DEF CacheInv
<1>1. /\ pc = "rewind" /\ pc' = "fill"
      /\ UNCHANGED <<stack, room, files, folders, size, linked>>
      /\ todo' = [todo EXCEPT ![Current] = Present(Current)]
  BY DEF Rewind, disk, Listed
<1>2. /\ Current \in Folders /\ Current' = Current
      /\ \A d : OnStack(d)' <=> OnStack(d)
  BY <1>1, CurrentIsLast DEF Current, OnStack
<1>3. Present(Current) \subseteq Entries /\ Present(Current) \subseteq Children(Current)
  BY DEF Present, Children
<1>4. /\ todo' \in [Folders -> SUBSET Entries]
      /\ todo'[Current] = Present(Current)
      /\ \A d \in Folders : d # Current => todo'[d] = todo[d]
  BY <1>1, <1>2, <1>3 DEF Types
<1>5. Types' /\ StackIsPath'
  BY <1>1, <1>4, StackStaysPath DEF Types, Loading
<1>6. Untouched
  BY <1>1 DEF EnteredOnce
<1>7. EnteredOnce'
  <2>1. \A d \in Folders : todo'[d] \subseteq Children(d)'
    BY <1>3, <1>4 DEF EnteredOnce, Children
  <2>2. ASSUME NEW d \in Folders \ {Root}, Touched(d)'
        PROVE  d \notin todo'[Parent[d]] /\ (OnStack(d)' \/ folders'[Parent[d]] # <<>>)
    <3>1. Touched(d)
      BY <1>1, <1>2, <1>4, <2>2, CurrentIsLast DEF Touched
    <3>2. d \notin todo[Parent[d]] /\ (OnStack(d) \/ folders[Parent[d]] # <<>>)
      BY <3>1 DEF EnteredOnce
    <3>3. Parent[d] # Current
      BY <3>2, <1>6, NoChildOfCurrent DEF Untouched
    <3> QED
      BY <3>2, <3>3, <1>1, <1>2, <1>4, FolderIsEntry
  <2>3. pc' \notin {"count", "rewind"}
    BY <1>1
  <2> QED
    BY <2>1, <2>2, <2>3 DEF EnteredOnce
<1>8. FilesFit'
  <2> SUFFICES ASSUME NEW d \in Folders
               PROVE  Len(files[d]) + FilesDue(d)' <= room[d].files
    BY <1>1 DEF FilesFit
  <2>1. /\ FilesDue(d)' = Cardinality(todo'[d] \cap Files)
        /\ FilesDue(d) = Cardinality(todo[d] \cap Files)
        /\ FilesDue(d)' \in Nat
    BY <1>1, FilesDueIsNat, FilesDueNextIsNat DEF Loading
  <2>2. CASE d = Current
    <3>1. Len(files[d]) = 0 /\ FilesDue(d)' <= room[d].files
      BY <1>1, <1>4, <1>6, <2>1, <2>2 DEF Untouched, CountedFit
    <3> QED
      BY <2>1, <3>1
  <2>3. CASE d # Current
    BY <1>4, <2>1, <2>3 DEF FilesFit
  <2> QED
    BY <2>2, <2>3
<1>9. FoldersFit'
  <2> SUFFICES ASSUME NEW d \in Folders
               PROVE  Len(folders[d]) + FoldersDue(d)' <= room[d].folders
    BY <1>1 DEF FoldersFit
  <2>1. CASE d = Current
    <3>1. FoldersDue(d)' = Cardinality(todo'[d] \cap Folders) + 0
      BY <1>2, <2>1 DEF FoldersDue
    <3>2. Cardinality(todo'[d] \cap Folders) \in Nat
      BY DueIsNat
    <3>3. Cardinality(todo'[d] \cap Folders) <= room[d].folders
      BY <1>1, <1>4, <2>1 DEF CountedFit
    <3>4. Len(folders[d]) = 0
      BY <1>6, <2>1 DEF Untouched
    <3> QED
      BY <3>1, <3>2, <3>3, <3>4
  <2>2. CASE d # Current
    <3>1. FoldersDue(d)' = FoldersDue(d)
      BY <1>2, <1>4, <2>2 DEF FoldersDue
    <3> QED
      BY <3>1 DEF FoldersFit
  <2> QED
    BY <2>1, <2>2
<1> QED
  BY <1>1, <1>5, <1>7, <1>8, <1>9 DEF CountedFit

\* A folder is entered that nothing has been built of.
LEMMA FolderEntered ==
  ASSUME CacheInv, NEW c \in Folders, EnterFolder(c)
  PROVE  /\ c # Root /\ Current # c /\ ~ Touched(c) /\ ~ OnStack(c)
         /\ Current' = c
         /\ \A d : OnStack(d)' <=> OnStack(d) \/ d = c
         /\ \A i \in 1..Len(stack) : stack'[i] = stack[i]
         /\ stack' \in Seq(Folders) /\ Len(stack') = Len(stack) + 1
         /\ stack'[Len(stack) + 1] = c
<1> USE DEF CacheInv
<1> DEFINE top == Len(stack)
<1>1. Visit(c) /\ stack' = Append(stack, c)
  BY DEF EnterFolder
<1>2. c \in todo[Current] /\ c \in Entries /\ Parent[c] = Current
  BY <1>1, VisitTakes
<1>3. c # Root
  BY <1>2, TreeAssumption DEF Entries
<1>4. /\ ~ Touched(c) /\ ~ OnStack(c)
      /\ files[c] = <<>> /\ folders[c] = <<>> /\ todo[c] = {}
  BY <1>2, <1>3 DEF EnteredOnce, Touched
<1>5. /\ top \in Nat /\ top > 0 /\ Current = stack[top] /\ Current \in Folders
      /\ Current # c
  <2>1. top \in Nat /\ top > 0
    BY DEF Types
  <2>2. Current = stack[top] /\ Current \in Folders /\ OnStack(Current)
    BY CurrentIsLast
  <2> QED
    BY <1>4, <2>1, <2>2
<1>6. /\ stack' \in Seq(Folders) /\ Len(stack') = top + 1
      /\ stack'[top + 1] = c /\ \A i \in 1..top : stack'[i] = stack[i]
  BY <1>1, <1>5 DEF Types
<1> HIDE DEF top
<1>7. Current' = c
  BY <1>6 DEF Current, Last
<1>8. \A d : OnStack(d)' <=> OnStack(d) \/ d = c
  BY <1>5, <1>6 DEF OnStack, top
<1> QED
  BY <1>3, <1>4, <1>5, <1>6, <1>7, <1>8 DEF top

LEMMA EnterFolderKeeps ==
  ASSUME CacheInv, NEW c \in Folders, EnterFolder(c)
  PROVE  CacheInv'
<1> USE DEF CacheInv
<1> DEFINE top == Len(stack)
<1>1. /\ Visit(c) /\ stack' = Append(stack, c) /\ pc' = "count"
      /\ UNCHANGED <<room, files, folders, size>>
  BY DEF EnterFolder, disk
<1>2. /\ LessToDo /\ todo' \in [Folders -> SUBSET Entries]
      /\ c \in todo[Current] /\ todo'[Current] = todo[Current] \ {c}
      /\ \A d \in Folders : d # Current => todo'[d] = todo[d]
      /\ c \in Entries /\ Parent[c] = Current /\ pc = "fill"
  BY <1>1, VisitTakes
<1>3. c # Root /\ Current # c /\ ~ Touched(c) /\ ~ OnStack(c)
  BY FolderEntered
<1>4. files[c] = <<>> /\ folders[c] = <<>> /\ todo[c] = {}
  BY <1>3 DEF Touched
<1>5. top \in Nat /\ top > 0 /\ Current = stack[top] /\ Current \in Folders
  BY TopOfStack
<1>6. /\ stack' \in Seq(Folders) /\ Len(stack') = top + 1
      /\ stack'[top + 1] = c /\ \A i \in 1..top : stack'[i] = stack[i]
  BY FolderEntered
<1> HIDE DEF top
<1>7. Current' = c
  BY FolderEntered
<1>8. \A d : OnStack(d)' <=> OnStack(d) \/ d = c
  BY FolderEntered
<1>9. Types'
  <2>1. /\ pc' \in {"count", "rewind", "fill", "done", "exited"} \cup Loading
        /\ pc' \notin Loading
    BY <1>1 DEF Loading
  <2>2. Len(stack') > 0
    BY <1>5, <1>6
  <2>3. /\ room' \in [Folders -> [files : Nat, folders : Nat]]
        /\ files' \in [Folders -> Seq(FileEntry)]
        /\ folders' \in [Folders -> Seq(Folders)]
        /\ size' \in [Files -> Nat]
    BY <1>1 DEF Types
  <2> QED
    BY <1>2, <1>6, <2>1, <2>2, <2>3 DEF Types
<1>10. StackIsPath'
  <2>1. stack'[1] = Root
    BY <1>5, <1>6 DEF StackIsPath
  <2>2. \A i \in 2..(top + 1) : stack'[i] # Root /\ Parent[stack'[i]] = stack'[i - 1]
    <3> SUFFICES ASSUME NEW i \in 2..(top + 1)
                 PROVE  stack'[i] # Root /\ Parent[stack'[i]] = stack'[i - 1]
      OBVIOUS
    <3>1. CASE i = top + 1
      BY <3>1, <1>2, <1>3, <1>5, <1>6
    <3>2. CASE i # top + 1
      <4>1. i \in 2..top /\ i - 1 \in 1..top /\ i \in 1..top
        BY <3>2, <1>5
      <4> QED
        BY <4>1, <1>6 DEF StackIsPath, top
    <3> QED
      BY <3>1, <3>2
  <2>3. \A i, j \in 1..(top + 1) : stack'[i] = stack'[j] => i = j
    <3>1. \A i \in 1..top : stack[i] # c
      BY <1>3 DEF OnStack, top
    <3>2. \A i, j \in 1..top : stack[i] = stack[j] => i = j
      BY DEF StackIsPath, top
    <3>3. \A i \in 1..(top + 1) : i = top + 1 \/ i \in 1..top
      BY <1>5
    <3> QED
      BY <3>1, <3>2, <3>3, <1>6
  <2> QED
    BY <2>1, <2>2, <2>3, <1>6 DEF StackIsPath
<1>11. EnteredOnce'
  <2>1. \A d \in Folders : todo'[d] \subseteq Children(d)'
    BY <1>2 DEF EnteredOnce, Children, LessToDo
  <2>2. ASSUME NEW d \in Folders \ {Root}, Touched(d)'
        PROVE  d \notin todo'[Parent[d]] /\ (OnStack(d)' \/ folders'[Parent[d]] # <<>>)
    <3>1. CASE d = c
      BY <3>1, <1>2, <1>8
    <3>2. CASE d # c
      <4>1. Touched(d)
        BY <2>2, <3>2, <1>1, <1>2, <1>8 DEF Touched, LessToDo
      <4> QED
        BY <4>1, <1>1, <1>2, <1>8, FolderIsEntry DEF EnteredOnce, LessToDo
    <3> QED
      BY <3>1, <3>2
  <2>3. Untouched'
    BY <1>1, <1>2, <1>3, <1>4, <1>7 DEF Untouched
  <2> QED
    BY <2>1, <2>2, <2>3 DEF EnteredOnce
<1>12. FilesFit'
  <2> SUFFICES ASSUME NEW d \in Folders
               PROVE  Len(files[d]) + FilesDue(d)' <= room[d].files
    BY <1>1 DEF FilesFit
  <2>1. Cardinality(todo'[d] \cap Files) <= Cardinality(todo[d] \cap Files)
    BY <1>2, SmallerIsLess DEF LessToDo
  <2>2. FilesDue(d) \in Nat /\ FilesDue(d)' \in Nat /\ FilesDue(d)' <= FilesDue(d)
    BY <2>1, <1>1, <1>2, FilesDueIsNat, FilesDueNextIsNat DEF Loading
  <2>3. Len(files[d]) \in Nat /\ room[d].files \in Nat
    BY FilesAreCounted
  <2> QED
    BY <2>2, <2>3, LessStillFits DEF FilesFit
<1>13. FoldersFit'
  <2> SUFFICES ASSUME NEW d \in Folders
               PROVE  Len(folders[d]) + FoldersDue(d)' <= room[d].folders
    BY <1>1 DEF FoldersFit
  <2>1. CASE d = Current
    <3>1. FoldersDue(d) = Cardinality(todo[d] \cap Folders) + 0
      BY <2>1 DEF FoldersDue
    <3>2. FoldersDue(d)' = Cardinality(todo'[d] \cap Folders) + 1
      BY <2>1, <1>3, <1>7, <1>8, CurrentIsLast DEF FoldersDue
    <3>3. Cardinality(todo'[d] \cap Folders) = Cardinality(todo[d] \cap Folders) - 1
      BY <2>1, <1>2, OneFolderLess
    <3>4. Cardinality(todo[d] \cap Folders) \in Nat
      BY DueIsNat
    <3>5. FoldersDue(d)' = FoldersDue(d)
      BY <3>1, <3>2, <3>3, <3>4
    <3> QED
      BY <3>5 DEF FoldersFit
  <2>2. CASE d # Current
    <3>1. todo'[d] = todo[d] /\ (OnStack(d)' /\ d # Current' <=> OnStack(d) /\ d # Current)
      BY <2>2, <1>2, <1>3, <1>7, <1>8
    <3>2. FoldersDue(d)' = FoldersDue(d)
      BY <3>1 DEF FoldersDue
    <3> QED
      BY <3>2 DEF FoldersFit
  <2> QED
    BY <2>1, <2>2
<1> QED
  BY <1>1, <1>9, <1>10, <1>11, <1>12, <1>13 DEF CountedFit

LEMMA OneMoreForOneLess ==
  ASSUME NEW n \in Nat, NEW due \in Nat, NEW most \in Nat, n + (due + 1) <= most
  PROVE  (n + 1) + due <= most
OBVIOUS

\* Back from a subfolder: its parent is the innermost folder again.
LEMMA FolderLeft ==
  ASSUME CacheInv, Current # Root, folders' = AddFolder(Current), stack' = Front(stack)
  PROVE  /\ Parent[Current] \in Folders /\ Parent[Current] # Current
         /\ Current' = Parent[Current]
         /\ \A d : OnStack(d)' <=> OnStack(d) /\ d # Current
         /\ folders' \in [Folders -> Seq(Folders)]
         /\ folders'[Parent[Current]] = Append(folders[Parent[Current]], Current)
         /\ \A d \in Folders : d # Parent[Current] => folders'[d] = folders[d]
<1> USE DEF CacheInv
<1> DEFINE top == Len(stack)
           up == Parent[Current]
<1>1. top \in Nat /\ top > 0 /\ Current = stack[top] /\ Current \in Folders
  BY TopOfStack
<1>2. top >= 2
  BY <1>1 DEF StackIsPath
<1>3. /\ stack' \in Seq(Folders) /\ Len(stack') = top - 1
      /\ \A i \in 1..(top - 1) : stack'[i] = stack[i]
  BY <1>1, <1>2 DEF Types, Front
<1>4. up = stack[top - 1] /\ up \in Folders /\ up # Current
  <2>1. top \in 2..top /\ top - 1 \in 1..top /\ top \in 1..top
    BY <1>1, <1>2
  <2>2. up = stack[top - 1] /\ stack[top - 1] \in Folders
    BY <1>1, <2>1, PathGoesUp
  <2> QED
    BY <1>1, <2>1, <2>2 DEF StackIsPath
<1>5. /\ folders' \in [Folders -> Seq(Folders)]
      /\ folders'[up] = Append(folders[up], Current)
      /\ \A d \in Folders : d # up => folders'[d] = folders[d]
  <2>1. folders' = [folders EXCEPT ![up] = Append(@, Current)]
    BY DEF AddFolder
  <2>2. folders \in [Folders -> Seq(Folders)]
    BY DEF Types
  <2> HIDE DEF top, up
  <2>3. \A s \in Seq(Folders) : Append(s, Current) \in Seq(Folders)
    BY <1>1
  <2> QED
    BY <2>1, <2>2, <2>3, <1>4
<1> HIDE DEF top, up
<1>6. Current' = up
  BY <1>1, <1>2, <1>3, <1>4 DEF Current, Last
<1>7. \A d : OnStack(d)' <=> OnStack(d) /\ d # Current
  <2>1. \A i \in 1..top : i = top \/ i \in 1..(top - 1)
    BY <1>1, <1>2
  <2>2. \A i \in 1..(top - 1) : i \in 1..top /\ i # top
    BY <1>1, <1>2
  <2>3. \A i \in 1..(top - 1) : stack[i] # Current
    BY <1>1, <2>2 DEF StackIsPath, top
  <2> QED
    BY <1>1, <1>3, <2>1, <2>2, <2>3 DEF OnStack, top
<1> QED
  BY <1>4, <1>5, <1>6, <1>7 DEF up

LEMMA LeaveSubfolderKeeps ==
  ASSUME CacheInv, pc = "fill", todo[Current] = {}, Current # Root,
         folders' = AddFolder(Current), stack' = Front(stack),
         UNCHANGED <<pc, todo, room, files, file, size>>
  PROVE  CacheInv'
<1> USE DEF CacheInv
<1> DEFINE top == Len(stack)
           up == Parent[Current]
<1>1. top \in Nat /\ top > 0 /\ Current = stack[top] /\ Current \in Folders
  BY TopOfStack
<1>2. top >= 2
  BY <1>1 DEF StackIsPath
<1>3. /\ stack' \in Seq(Folders) /\ Len(stack') = top - 1
      /\ \A i \in 1..(top - 1) : stack'[i] = stack[i]
  BY <1>1, <1>2 DEF Types, Front
<1>4. up = stack[top - 1] /\ up \in Folders /\ up # Current
  <2>1. top \in 2..top /\ top - 1 \in 1..top /\ top \in 1..top
    BY <1>1, <1>2
  <2>2. up = stack[top - 1] /\ stack[top - 1] \in Folders
    BY <1>1, <2>1, PathGoesUp
  <2> QED
    BY <1>1, <2>1, <2>2 DEF StackIsPath
<1>5. /\ folders' \in [Folders -> Seq(Folders)]
      /\ Len(folders'[up]) = Len(folders[up]) + 1 /\ folders'[up] # <<>>
      /\ \A d \in Folders : d # up => folders'[d] = folders[d]
  <2>1. /\ folders' \in [Folders -> Seq(Folders)]
        /\ folders'[up] = Append(folders[up], Current)
        /\ \A d \in Folders : d # up => folders'[d] = folders[d]
    BY FolderLeft
  <2>2. folders[up] \in Seq(Folders)
    BY <1>4 DEF Types
  <2> HIDE DEF up
  <2>3. \A s \in Seq(Folders) : Len(Append(s, Current)) = Len(s) + 1 /\ Append(s, Current) # <<>>
    BY <1>1
  <2> QED
    BY <2>1, <2>2, <2>3
<1> HIDE DEF top, up
<1>6. Current' = up
  BY FolderLeft DEF up
<1>7. \A d : OnStack(d)' <=> OnStack(d) /\ d # Current
  BY FolderLeft
<1>8. OnStack(up) /\ OnStack(Current)
  <2>1. top - 1 \in 1..top
    BY <1>1, <1>2
  <2> QED
    BY <2>1, <1>4, CurrentIsLast DEF OnStack, top
<1>9. Types'
  <2>1. Len(stack') > 0
    BY <1>1, <1>2, <1>3
  <2>2. stack' \in Seq(Folders) /\ folders' \in [Folders -> Seq(Folders)]
    BY <1>3, <1>5
  <2> QED
    BY <2>1, <2>2 DEF Types, Loading
<1>10. StackIsPath'
  <2>1. \A i \in 1..(top - 1) : i \in 1..top
    BY <1>1
  <2>2. \A i \in 2..(top - 1) : i \in 2..top /\ i - 1 \in 1..(top - 1) /\ i \in 1..(top - 1)
    BY <1>1
  <2>3. 1 \in 1..(top - 1)
    BY <1>1, <1>2
  <2>4. stack'[1] = Root
    BY <1>3, <2>3 DEF StackIsPath
  <2>5. \A i \in 2..(top - 1) : stack'[i] # Root /\ Parent[stack'[i]] = stack'[i - 1]
    BY <1>3, <2>2 DEF StackIsPath, top
  <2>7. \A i, j \in 1..top : stack[i] = stack[j] => i = j
    BY DEF StackIsPath, top
  <2>6. \A i, j \in 1..(top - 1) : stack'[i] = stack'[j] => i = j
    BY <1>3, <2>1, <2>7
  <2> QED
    BY <2>4, <2>5, <2>6, <1>3 DEF StackIsPath
<1>11. EnteredOnce'
  <2>1. \A d \in Folders : todo'[d] \subseteq Children(d)'
    BY DEF EnteredOnce, Children
  <2>2. ASSUME NEW d \in Folders \ {Root}, Touched(d)'
        PROVE  d \notin todo'[Parent[d]] /\ (OnStack(d)' \/ folders'[Parent[d]] # <<>>)
    <3>1. Touched(d)
      BY <2>2, <1>5, <1>7, <1>8 DEF Touched
    <3>2. d \notin todo[Parent[d]] /\ (OnStack(d) \/ folders[Parent[d]] # <<>>)
      BY <3>1 DEF EnteredOnce
    <3>3. CASE d = Current
      BY <3>2, <3>3, <1>5 DEF up
    <3>4. CASE d # Current
      BY <3>2, <3>4, <1>5, <1>7, FolderIsEntry
    <3> QED
      BY <3>3, <3>4
  <2> QED
    BY <2>1, <2>2 DEF EnteredOnce
<1>12. FilesFit'
  <2>1. \A d \in Folders : FilesDue(d)' = FilesDue(d)
    BY FilesDueIsNat, FilesDueNextIsNat DEF Loading
  <2> QED
    BY <2>1 DEF FilesFit
<1>13. FoldersFit'
  <2> SUFFICES ASSUME NEW d \in Folders
               PROVE  Len(folders'[d]) + FoldersDue(d)' <= room[d].folders
    BY DEF FoldersFit
  <2> DEFINE due == Cardinality(todo[d] \cap Folders)
  <2>0. due \in Nat
    BY DueIsNat
  <2>1. CASE d = up
    <3>1. FoldersDue(d) = due + 1
      BY <2>1, <1>4, <1>8 DEF FoldersDue
    <3>2. FoldersDue(d)' = due + 0
      BY <2>1, <1>6 DEF FoldersDue
    <3>3. Len(folders'[d]) = Len(folders[d]) + 1 /\ Len(folders[d]) \in Nat
      BY <2>1, <1>4, <1>5 DEF Types
    <3>4. Len(folders[d]) + FoldersDue(d) <= room[d].folders /\ room[d].folders \in Nat
      BY DEF FoldersFit, Types
    <3> HIDE DEF due
    <3>7. Len(folders[d]) + (due + 1) <= room[d].folders
      BY <3>1, <3>4
    <3>5. (Len(folders[d]) + 1) + due <= room[d].folders
      BY <2>0, <3>3, <3>4, <3>7, OneMoreForOneLess
    <3>6. FoldersDue(d)' = due
      BY <2>0, <3>2
    <3> QED
      BY <3>3, <3>5, <3>6
  <2>2. CASE d # up
    <3>1. OnStack(d)' /\ d # Current' <=> OnStack(d) /\ d # Current
      BY <2>2, <1>6, <1>7
    <3>2. FoldersDue(d)' = FoldersDue(d) /\ folders'[d] = folders[d]
      BY <2>2, <3>1, <1>5 DEF FoldersDue
    <3> QED
      BY <3>2 DEF FoldersFit
  <2> QED
    BY <2>1, <2>2
<1> QED
  BY <1>9, <1>10, <1>11, <1>12, <1>13 DEF CountedFit

----------------------------------------------------------------------------

LEMMA ExitKeeps ==
  ASSUME CacheInv, Exit
  PROVE  CacheInv'
<1>1. /\ UNCHANGED <<stack, todo, room, files, folders, file, size, linked>>
      /\ pc' = "exited"
  BY DEF Exit, cache, disk
<1>2. size' \in [Files -> Nat] /\ linked' \subseteq linked
  BY <1>1 DEF CacheInv, Types
<1> QED
  BY <1>1, <1>2, SameTree

LEMMA DiskKeeps ==
  ASSUME CacheInv,
         (\E f \in Files : Resize(f)) \/ (\E e \in Entries : Vanish(e)) \/ UNCHANGED vars
  PROVE  CacheInv'
<1>1. UNCHANGED <<pc, stack, todo, room, files, folders, file>>
  BY DEF Resize, Vanish, vars, cache
<1>2. linked' \subseteq linked
  BY DEF Resize, Vanish, vars, disk
<1>3. size' \in [Files -> Nat]
  <2>1. size \in [Files -> Nat] /\ Sizes \subseteq Nat
    BY SizesAssumption DEF CacheInv, Types
  <2> QED
    BY <2>1 DEF Resize, Vanish, vars, disk
<1> QED
  BY <1>1, <1>2, <1>3, SameTree

LEMMA BuildKeeps ==
  ASSUME CacheInv, Build
  PROVE  CacheInv'
<1>1. CASE CountFolder
  BY <1>1, CountKeeps, ExitKeeps DEF CountFolder, disk
<1>2. CASE Rewind
  BY <1>2, RewindKeeps
<1>3. CASE OpenRaw
  <2>1. CASE pc = "open" /\ pc' = "raw" /\ UNCHANGED <<cache, file, got, disk>>
    <3>1. size' \in [Files -> Nat] /\ linked' \subseteq linked
      BY <2>1 DEF CacheInv, Types, disk
    <3> QED
      BY <2>1, <3>1, SameTree DEF Loading, cache
  <2> QED
    BY <1>3, <2>1, ExitKeeps DEF OpenRaw
<1>4. CASE ReadRaw \/ ReadFails
  BY <1>4, ReadRawKeeps, ExitKeeps DEF ReadFails
<1>5. CASE Compress
  BY <1>5, CompressKeeps
<1>6. CASE LeaveFolder
  <2>1. CASE Current = Root
    <3>1. /\ UNCHANGED <<stack, todo, room, files, folders, file, size, linked>>
          /\ pc' = "done"
      BY <1>6, <2>1 DEF LeaveFolder, disk
    <3>2. size' \in [Files -> Nat] /\ linked' \subseteq linked
      BY <3>1 DEF CacheInv, Types
    <3> QED
      BY <3>1, <3>2, SameTree
  <2>2. CASE Current # Root
    BY <1>6, <2>2, LeaveSubfolderKeeps DEF LeaveFolder, disk
  <2> QED
    BY <2>1, <2>2
<1>7. CASE \E e \in Entries : SkipVanished(e) \/ StatFails(e)
  BY <1>7, SkipVanishedKeeps, ExitKeeps DEF StatFails
<1>8. CASE \E f \in Files : LeaveOut(f) \/ MallocFails(f) \/ BeginLoad(f)
  BY <1>8, LeaveOutKeeps, BeginLoadKeeps, ExitKeeps DEF MallocFails
<1>9. CASE \E d \in Folders : EnterFolder(d)
  BY <1>9, EnterFolderKeeps
<1> QED
  BY <1>1, <1>2, <1>3, <1>4, <1>5, <1>6, <1>7, <1>8, <1>9 DEF Build

\* Every folder is entered once, and what has been added to it, with what may
\* still come, is no more than what was counted.
THEOREM CacheInvariant == Spec => []CacheInv
<1>1. CacheInv /\ [Next]_vars => CacheInv'
  BY BuildKeeps, DiskKeeps DEF Next
<1> QED
  BY <1>1, InitCacheInv, PTL DEF Spec

\* For every tree, and whatever vanishes between the two readings of a directory,
\* addFileToFolder() and addSubfolderToFolder() stay within the arrays.  Entries that
\* appear between them, which overrun the arrays (file_cache.c 175-195), are not in Next.
THEOREM ArraysAlwaysHold == Spec => []ArraysHold
<1>1. CacheInv => ArraysHold
  <2> SUFFICES ASSUME CacheInv, NEW d \in Folders
               PROVE  Len(files[d]) <= room[d].files /\ Len(folders[d]) <= room[d].folders
    BY DEF ArraysHold
  <2>1. FilesDue(d) \in Nat /\ FoldersDue(d) \in Nat
    BY FilesDueIsNat, FoldersDueIsNat
  <2>2. /\ Len(files[d]) \in Nat /\ room[d].files \in Nat
        /\ Len(folders[d]) \in Nat /\ room[d].folders \in Nat
    BY DEF CacheInv, Types
  <2> QED
    BY <2>1, <2>2 DEF CacheInv, FilesFit, FoldersFit
<1> QED
  BY <1>1, CacheInvariant, PTL

----------------------------------------------------------------------------
(***************************************************************************)
(* The contents that are read.                                             *)
(***************************************************************************)

\* setRawFileContent() is at work on a file.
Opened == pc \in {"open", "raw"}

\* Nothing has been read, and the first read() will bring all that was asked for.
NotCutYet == got = 0 /\ size[file.entry] >= file.size

\* The one change was that the file became shorter: its end is never reached.
CutForEver == changes = 1 /\ size[file.entry] < file.size /\ got <= size[file.entry]

ReadingInv ==
  /\ got \in Nat /\ changes \in Nat
  /\ pc # "raw" => got = 0
  /\ Opened => file.size \in Nat
  /\ Opened /\ changes <= 1 => NotCutYet \/ CutForEver

RawInv == ReadingInv /\ RawIsWhole

\* A size that fits in an int is kept, and no other is made larger.
LEMMA AsIntIsNoLarger ==
  ASSUME NEW n \in Nat
  PROVE  AsInt(n) <= n
<1>1. IntMax \in Nat
  BY SizesAssumption
<1> DEFINE w == 2 * (IntMax + 1)
           m == n + IntMax + 1
<1>2. w \in Nat /\ w > 0 /\ m \in Nat
  BY <1>1
<1>3. AsInt(n) = (m % w) - (IntMax + 1)
  BY DEF AsInt
<1> HIDE DEF w, m
<1>4. m % w \in Nat /\ m % w <= m
  BY <1>2
<1>5. AsInt(n) <= m - (IntMax + 1)
  BY <1>1, <1>2, <1>3, <1>4
<1> QED
  BY <1>1, <1>5 DEF m

LEMMA MaxOfTwo ==
  ASSUME NEW a \in Int, NEW b \in Int
  PROVE  Max({a, b}) = IF a >= b THEN a ELSE b
<1>1. \E x \in {a, b} : \A y \in {a, b} : x >= y
  OBVIOUS
<1>2. Max({a, b}) \in {a, b} /\ \A y \in {a, b} : Max({a, b}) >= y
  BY <1>1 DEF Max
<1> QED
  BY <1>2

LEMMA MinOfTwo ==
  ASSUME NEW a \in Int, NEW b \in Int
  PROVE  Min({a, b}) = IF a <= b THEN a ELSE b
<1>1. \E x \in {a, b} : \A y \in {a, b} : x <= y
  OBVIOUS
<1>2. Min({a, b}) \in {a, b} /\ \A y \in {a, b} : Min({a, b}) <= y
  BY <1>1 DEF Min
<1> QED
  BY <1>2

LEMMA InitRawInv == Init => RawInv
<1> SUFFICES ASSUME Init PROVE RawInv
  OBVIOUS
<1> USE DEF Init
<1>1. ReadingInv
  BY DEF ReadingInv, Opened
<1>2. RawIsWhole
  BY DEF RawIsWhole
<1> QED
  BY <1>1, <1>2 DEF RawInv

\* Nothing is added, nothing is opened, nothing is read.
LEMMA SameContents ==
  ASSUME RawInv, UNCHANGED <<files, got, changes>>, ~ Opened, pc' \notin {"open", "raw"}
  PROVE  RawInv'
<1>1. ReadingInv'
  BY DEF RawInv, ReadingInv, Opened
<1>2. RawIsWhole'
  BY DEF RawInv, RawIsWhole
<1> QED
  BY <1>1, <1>2 DEF RawInv

\* An appended array holds what it held, and the new entry.
LEMMA AppendedEntry ==
  ASSUME NEW S, NEW s \in Seq(S), NEW new, NEW i \in DOMAIN Append(s, new)
  PROVE  Append(s, new)[i] = new \/ (i \in DOMAIN s /\ Append(s, new)[i] = s[i])
<1>1. /\ DOMAIN Append(s, new) = 1..(Len(s) + 1) /\ DOMAIN s = 1..Len(s) /\ Len(s) \in Nat
      /\ Append(s, new)[Len(s) + 1] = new
      /\ \A k \in 1..Len(s) : Append(s, new)[k] = s[k]
  OBVIOUS
<1>2. i = Len(s) + 1 \/ i \in 1..Len(s)
  BY <1>1
<1> QED
  BY <1>1, <1>2

LEMMA AddFileKeepsRaw ==
  ASSUME Types, RawInv, NEW f, NEW length, NEW state, NEW whole,
         AddFile(f, length, state, whole), UNCHANGED changes,
         state = "raw" /\ changes <= 1 => whole
  PROVE  RawInv'
<1> DEFINE new == [entry |-> f, size |-> length, state |-> state, whole |-> whole]
<1>1. Current \in Folders
  BY CurrentIsLast
<1>2. files' = [files EXCEPT ![Current] = Append(@, new)] /\ pc' = "fill" /\ got' = 0
  BY DEF AddFile
<1>3. new.state = "raw" /\ changes <= 1 => new.whole
  OBVIOUS
<1> HIDE DEF new
<1>4. ReadingInv'
  BY <1>2 DEF RawInv, ReadingInv, Opened
<1>5. ASSUME NEW d \in Folders, NEW i \in DOMAIN files'[d]
      PROVE  files'[d][i] = new \/ (i \in DOMAIN files[d] /\ files'[d][i] = files[d][i])
  <2>1. CASE d = Current
    <3>1. files'[d] = Append(files[d], new) /\ files[d] \in Seq(FileEntry)
      BY <1>1, <1>2, <2>1 DEF Types
    <3> QED
      BY <3>1, AppendedEntry
  <2>2. CASE d # Current
    <3>1. files'[d] = files[d]
      BY <1>1, <1>2, <2>2 DEF Types
    <3> QED
      BY <3>1
  <2> QED
    BY <2>1, <2>2
<1>6. RawIsWhole'
  <2> SUFFICES ASSUME changes <= 1, NEW d \in Folders, NEW i \in DOMAIN files'[d],
                      files'[d][i].state = "raw"
               PROVE  files'[d][i].whole
    BY DEF RawIsWhole
  <2> QED
    BY <1>3, <1>5 DEF RawInv, RawIsWhole
<1> QED
  BY <1>4, <1>6 DEF RawInv

LEMMA BeginLoadKeepsRaw ==
  ASSUME Types, RawInv, NEW f \in Files, BeginLoad(f)
  PROVE  RawInv'
<1>1. /\ pc = "fill" /\ pc' \in {"open", "gzip"}
      /\ file' = [entry |-> f, size |-> AsInt(size[f])]
      /\ AsInt(size[f]) >= 0 /\ UNCHANGED <<files, got, size, changes>>
  BY DEF BeginLoad, Visit, disk
<1>2. size[f] \in Nat /\ AsInt(size[f]) \in Int /\ AsInt(size[f]) <= size[f]
  BY AsIntIsInt, AsIntIsNoLarger DEF Types
<1>3. /\ file'.size \in Nat /\ size'[file'.entry] >= file'.size /\ got' = 0
  BY <1>1, <1>2 DEF RawInv, ReadingInv
<1>4. ReadingInv'
  BY <1>1, <1>3 DEF RawInv, ReadingInv, Opened, NotCutYet
<1>5. RawIsWhole'
  BY <1>1 DEF RawInv, RawIsWhole
<1> QED
  BY <1>4, <1>5 DEF RawInv

LEMMA OpenRawKeepsRaw ==
  ASSUME RawInv, pc = "open", pc' \in {"raw", "exited"},
         UNCHANGED <<files, file, got, size, changes>>
  PROVE  RawInv'
<1>1. ReadingInv'
  BY DEF RawInv, ReadingInv, Opened, NotCutYet, CutForEver
<1>2. RawIsWhole'
  BY DEF RawInv, RawIsWhole
<1> QED
  BY <1>1, <1>2 DEF RawInv

\* The first read() brings the whole content, or none does.
LEMMA ReadRawKeepsRaw ==
  ASSUME Types, RawInv, ReadRaw
  PROVE  RawInv'
<1> DEFINE n == Min({file.size, Max({size[file.entry], got})})
<1>1. /\ Opened /\ pc = "raw" /\ UNCHANGED <<size, changes>>
      /\ file.size \in Nat /\ size[file.entry] \in Nat /\ got \in Nat
      /\ changes <= 1 => NotCutYet \/ CutForEver
  BY DEF ReadRaw, RawInv, ReadingInv, Opened, Types, Loading, disk
<1>2. /\ n \in Nat
      /\ NotCutYet => n = file.size
      /\ CutForEver => n = size[file.entry] /\ n < file.size
  BY <1>1, MaxOfTwo, MinOfTwo DEF NotCutYet, CutForEver
<1>3. IF n >= file.size THEN AddFile(file.entry, file.size, "raw", got = 0 /\ n = file.size)
                        ELSE got' = n /\ UNCHANGED <<pc, files, free, file>>
  BY DEF ReadRaw, IsRead
<1> HIDE DEF n
<1>4. CASE n >= file.size
  <2> DEFINE whole == got = 0 /\ n = file.size
  <2>1. changes <= 1 => whole
    BY <1>1, <1>2, <1>4 DEF NotCutYet
  <2>2. AddFile(file.entry, file.size, "raw", whole)
    BY <1>3, <1>4
  <2> HIDE DEF whole
  <2> QED
    BY <1>1, <2>1, <2>2, AddFileKeepsRaw, Zenon
<1>5. CASE ~ (n >= file.size)
  <2>1. got' = n /\ UNCHANGED <<pc, files, file>>
    BY <1>3, <1>5
  <2>2. changes <= 1 => CutForEver
    BY <1>1, <1>2, <1>5
  <2>3. changes <= 1 => CutForEver'
    BY <1>1, <1>2, <2>1, <2>2 DEF CutForEver
  <2>4. ReadingInv'
    BY <1>1, <1>2, <2>1, <2>3 DEF RawInv, ReadingInv, Opened
  <2>5. RawIsWhole'
    BY <1>1, <2>1 DEF RawInv, RawIsWhole
  <2> QED
    BY <2>4, <2>5 DEF RawInv
<1> QED
  BY <1>4, <1>5

LEMMA DiskKeepsRaw ==
  ASSUME Types, RawInv,
         (\E f \in Files : Resize(f)) \/ (\E e \in Entries : Vanish(e))
  PROVE  RawInv'
<1>1. UNCHANGED <<pc, files, file, got>> /\ changes' = changes + 1 /\ changes \in Nat
  BY DEF Resize, Vanish, cache, RawInv, ReadingInv
<1>2. size' \in [Files -> Nat]
  BY SizesAssumption DEF Resize, Vanish, Types
<1>3. RawIsWhole'
  BY <1>1 DEF RawInv, RawIsWhole
<1>4. ASSUME Opened, changes' <= 1 PROVE NotCutYet' \/ CutForEver'
  <2>1. changes = 0 /\ changes' = 1
    BY <1>1, <1>4
  <2>2. got = 0 /\ file.size \in Nat
    BY <1>4, <2>1 DEF RawInv, ReadingInv, NotCutYet, CutForEver
  <2>3. size'[file.entry] \in Nat
    BY <1>2, <1>4 DEF Types, Opened, Loading
  <2> QED
    BY <1>1, <2>1, <2>2, <2>3 DEF NotCutYet, CutForEver
<1>5. ReadingInv'
  BY <1>1, <1>4 DEF RawInv, ReadingInv, Opened
<1> QED
  BY <1>3, <1>5 DEF RawInv

LEMMA BuildKeepsRaw ==
  ASSUME Types, RawInv, Build
  PROVE  RawInv'
<1>1. CASE CountFolder \/ Rewind \/ LeaveFolder
  BY <1>1, SameContents DEF CountFolder, Rewind, LeaveFolder, Exit, Opened, cache, disk
<1>2. CASE OpenRaw
  <2>1. pc = "open" /\ pc' \in {"raw", "exited"} /\ UNCHANGED <<files, file, got, size, changes>>
    BY <1>2 DEF OpenRaw, Exit, cache, disk
  <2> QED
    BY <2>1, OpenRawKeepsRaw
<1>3. CASE ReadRaw
  BY <1>3, ReadRawKeepsRaw
<1>4. CASE Compress
  <2>1. PICK m : AddFile(file.entry, Min({m, BufferLength(file.size)}), "compressed",
                         m <= BufferLength(file.size))
    BY <1>4 DEF Compress
  <2>2. UNCHANGED changes
    BY <1>4 DEF Compress, disk
  <2> QED
    BY <2>1, <2>2, AddFileKeepsRaw
<1>5. CASE \E e \in Entries : SkipVanished(e) \/ StatFails(e)
  BY <1>5, SameContents DEF SkipVanished, StatFails, Visit, Exit, Opened, cache, disk
<1>6. ASSUME NEW f \in Files, LeaveOut(f) \/ MallocFails(f) \/ BeginLoad(f)
      PROVE  RawInv'
  <2>1. CASE LeaveOut(f)
    <3>1. AddFile(f, AsInt(size[f]), "not_loaded", FALSE) /\ UNCHANGED changes
      BY <2>1 DEF LeaveOut, disk
    <3>2. "not_loaded" = "raw" /\ changes <= 1 => FALSE
      OBVIOUS
    <3> QED
      BY <3>1, <3>2, AddFileKeepsRaw, Zenon
  <2>2. CASE MallocFails(f)
    BY <2>2, SameContents DEF MallocFails, Exit, Opened, cache, disk
  <2> QED
    BY <1>6, <2>1, <2>2, BeginLoadKeepsRaw
<1>7. CASE \E d \in Folders : EnterFolder(d)
  BY <1>7, SameContents DEF EnterFolder, Visit, Opened, disk
<1>8. CASE ReadFails
  <2>1. pc' = "exited" /\ got' = 0 /\ UNCHANGED <<files, got, changes>>
    BY <1>8 DEF ReadFails, Exit, cache, disk
  <2>2. ReadingInv'
    BY <2>1 DEF RawInv, ReadingInv, Opened
  <2>3. RawIsWhole'
    BY <2>1 DEF RawInv, RawIsWhole
  <2> QED
    BY <2>2, <2>3 DEF RawInv
<1> QED
  BY <1>1, <1>2, <1>3, <1>4, <1>5, <1>6, <1>7, <1>8 DEF Build

\* While the disk has changed at most once, a file being read has either not been cut,
\* and its first read() brings all of it, or it was the one change, and is never read to
\* its end.
THEOREM ReadingInvariant == Spec => []RawInv
<1>1. Types /\ RawInv /\ [Next]_vars => RawInv'
  <2>1. ASSUME RawInv, UNCHANGED vars PROVE RawInv'
    BY <2>1 DEF vars, cache, disk, RawInv, RawIsWhole, ReadingInv, Opened, NotCutYet, CutForEver
  <2> QED
    BY <2>1, BuildKeepsRaw, DiskKeepsRaw DEF Next
<1>2. CacheInv => Types
  BY DEF CacheInv
<1> QED
  BY <1>1, <1>2, InitRawInv, CacheInvariant, PTL DEF Spec

\* For every tree, every size and every order of the changes: each read() of
\* setRawFileContent() writes at the start of the content, yet one change of the disk,
\* whenever it comes, leaves no raw content in the cache that is not the first bytes of
\* one version of its file.
THEOREM RawIsAlwaysWhole == Spec => []RawIsWhole
BY ReadingInvariant, PTL DEF RawInv

----------------------------------------------------------------------------
(***************************************************************************)
(* Sums over finite sets, as MapThenSumSet() forms them: it takes the      *)
(* elements in an order of its own, which must not matter.                 *)
(***************************************************************************)

Pick(s) == CHOOSE x \in s : TRUE

\* g sums w over the subsets of S in D as MapThenSumSet() does.
Sums(g, D, w) ==
  \A s \in D : g[s] = IF s = {} THEN 0 ELSE w[Pick(s)] + g[s \ {Pick(s)}]

LEMMA PickIsIn ==
  ASSUME NEW s, s # {}
  PROVE  Pick(s) \in s
BY DEF Pick

\* The least-number principle.
LEMMA LeastNatural ==
  ASSUME NEW S \in SUBSET Nat, NEW n \in S
  PROVE  \E x \in S : \A y \in S : x <= y
<1> DEFINE R == OpToRel(<, Nat)
<1>1. R = {ss \in Nat \X Nat : ss[1] < ss[2]}
  BY DEF OpToRel
<1>2. IsWellFoundedOn(R, Nat)
  BY NatLessThanWellFounded
<1> HIDE DEF R
<1>3. PICK x \in S : \A y \in S : ~ (<<y, x>> \in R)
  BY <1>2, WFMin
<1>4. \A y \in S : x <= y
  <2> SUFFICES ASSUME NEW y \in S PROVE x <= y
    OBVIOUS
  <2>1. x \in Nat /\ y \in Nat
    OBVIOUS
  <2>2. y < x => <<y, x>> \in R
    BY <2>1, <1>1
  <2> QED
    BY <2>1, <2>2, <1>3
<1> QED
  BY <1>4

\* Of some finite sets, one has fewest elements.
LEMMA LeastSet ==
  ASSUME NEW Bad, \A s \in Bad : IsFiniteSet(s), Bad # {}
  PROVE  \E s \in Bad : \A x \in s : s \ {x} \notin Bad
<1> DEFINE N == {Cardinality(s) : s \in Bad}
<1>1. N \in SUBSET Nat /\ N # {}
  BY FS_CardinalityType
<1>2. PICK n \in N : \A m \in N : n <= m
  <2> HIDE DEF N
  <2> QED
    BY <1>1, LeastNatural
<1>3. PICK s \in Bad : n = Cardinality(s)
  OBVIOUS
<1>4. ASSUME NEW x \in s, s \ {x} \in Bad PROVE FALSE
  <2>1. Cardinality(s \ {x}) = Cardinality(s) - 1 /\ Cardinality(s) \in Nat
    BY <1>3, FS_RemoveElement, FS_CardinalityType
  <2>2. n <= Cardinality(s \ {x})
    BY <1>2, <1>4
  <2> HIDE DEF N
  <2> QED
    BY <2>1, <2>2, <1>3
<1> QED
  BY <1>4

\* The sum of some numbers does not depend on the numbers of others.
LEMMA SameSum ==
  ASSUME NEW S, IsFiniteSet(S), NEW g, NEW h, NEW v, NEW w, \A x \in S : v[x] = w[x],
         Sums(g, SUBSET S, v), Sums(h, SUBSET S, w)
  PROVE  g[S] = h[S]
<1> DEFINE Bad == {s \in SUBSET S : g[s] # h[s]}
<1>1. ASSUME Bad # {} PROVE FALSE
  <2>1. \A s \in Bad : IsFiniteSet(s)
    BY FS_Subset
  <2>2. PICK s \in Bad : \A x \in s : s \ {x} \notin Bad
    <3> HIDE DEF Bad
    <3> QED
      BY <1>1, <2>1, LeastSet
  <2>3. CASE s = {}
    BY <2>3 DEF Sums
  <2>4. CASE s # {}
    <3>1. Pick(s) \in s
      BY <2>4, PickIsIn
    <3>2. g[s \ {Pick(s)}] = h[s \ {Pick(s)}] /\ v[Pick(s)] = w[Pick(s)]
      BY <2>2, <3>1
    <3> QED
      BY <2>4, <3>2 DEF Sums
  <2> QED
    BY <2>3, <2>4
<1> QED
  BY <1>1

LEMMA SumIsInt ==
  ASSUME NEW S, IsFiniteSet(S), NEW g, NEW w, \A x \in S : w[x] \in Int,
         Sums(g, SUBSET S, w)
  PROVE  \A s \in SUBSET S : g[s] \in Int
<1> DEFINE Bad == {s \in SUBSET S : g[s] \notin Int}
<1>1. ASSUME Bad # {} PROVE FALSE
  <2>1. \A s \in Bad : IsFiniteSet(s)
    BY FS_Subset
  <2>2. PICK s \in Bad : \A x \in s : s \ {x} \notin Bad
    <3> HIDE DEF Bad
    <3> QED
      BY <1>1, <2>1, LeastSet
  <2>5. s \in SUBSET S /\ g[s] \notin Int
    OBVIOUS
  <2>3. CASE s = {}
    <3>1. g[s] = 0
      BY <2>3, <2>5 DEF Sums
    <3> QED
      BY <2>5, <3>1
  <2>4. CASE s # {}
    <3>1. Pick(s) \in s
      BY <2>4, PickIsIn
    <3>2. g[s \ {Pick(s)}] \in Int /\ w[Pick(s)] \in Int
      BY <2>2, <3>1
    <3>3. g[s] = w[Pick(s)] + g[s \ {Pick(s)}]
      BY <2>4, <2>5 DEF Sums
    <3> QED
      BY <2>5, <3>2, <3>3
  <2> QED
    BY <2>3, <2>4
<1> QED
  BY <1>1

\* Any element may be taken last.
LEMMA SumWithout ==
  ASSUME NEW S, IsFiniteSet(S), NEW g, NEW w, \A x \in S : w[x] \in Int,
         Sums(g, SUBSET S, w)
  PROVE  \A x \in S : g[S] = w[x] + g[S \ {x}]
<1> DEFINE Bad == {s \in SUBSET S : \E x \in s : g[s] # w[x] + g[s \ {x}]}
<1>1. ASSUME Bad # {} PROVE FALSE
  <2>1. \A s \in Bad : IsFiniteSet(s)
    BY FS_Subset
  <2>2. PICK s \in Bad : \A x \in s : s \ {x} \notin Bad
    <3> HIDE DEF Bad
    <3> QED
      BY <1>1, <2>1, LeastSet
  <2>3. PICK x \in s : g[s] # w[x] + g[s \ {x}]
    OBVIOUS
  <2> DEFINE p == Pick(s)
             r == (s \ {p}) \ {x}
  <2>4. p \in s /\ g[s] = w[p] + g[s \ {p}] /\ s \in SUBSET S
    BY PickIsIn DEF Sums
  <2> HIDE DEF p
  <2>5. p # x
    BY <2>3, <2>4
  <2>6. g[s \ {p}] = w[x] + g[r]
    BY <2>2, <2>4, <2>5
  <2>7. g[s \ {x}] = w[p] + g[r]
    <3>1. (s \ {x}) \ {p} = r
      OBVIOUS
    <3>2. s \ {x} \notin Bad /\ p \in s \ {x} /\ s \ {x} \in SUBSET S
      BY <2>2, <2>4, <2>5
    <3> QED
      BY <3>1, <3>2
  <2>8. w[p] \in Int /\ w[x] \in Int /\ g[r] \in Int
    <3>1. p \in S /\ x \in S /\ r \in SUBSET S
      BY <2>4
    <3> HIDE DEF r
    <3> QED
      BY <3>1, SumIsInt
  <2> HIDE DEF r
  <2> QED
    BY <2>3, <2>4, <2>6, <2>7, <2>8
<1> QED
  BY <1>1

IsSum(n, S, w) == \E g : Sums(g, SUBSET S, w) /\ n = g[S]

\* The numbers w of T are those v of S, and others.
More(S, v, T, w) ==
  /\ IsFiniteSet(T) /\ S \subseteq T
  /\ \A y \in S : v[y] = w[y]
  /\ \A y \in T : w[y] \in Int

\* One more number adds itself to the sum.
LEMMA SumOfMore ==
  ASSUME NEW S, NEW v, NEW T, NEW w, More(S, v, T, w),
         NEW m, NEW n, IsSum(m, S, v), IsSum(n, T, w)
  PROVE  /\ m \in Int
         /\ T = S => n = m
         /\ \A x \in T : T \ {x} = S => n = w[x] + m
<1> USE DEF More
<1>1. PICK g : Sums(g, SUBSET S, v) /\ m = g[S]
  BY DEF IsSum
<1>2. PICK h : Sums(h, SUBSET T, w) /\ n = h[T]
  BY DEF IsSum
<1>3. IsFiniteSet(S) /\ Sums(h, SUBSET S, w)
  BY <1>2, FS_Subset DEF Sums
<1>4. g[S] = h[S]
  BY <1>1, <1>3, SameSum
<1>5. \A s \in SUBSET T : h[s] \in Int
  BY <1>2, SumIsInt
<1>6. \A x \in T : h[T] = w[x] + h[T \ {x}]
  BY <1>2, SumWithout
<1>7. m \in Int /\ (T = S => n = m)
  BY <1>1, <1>2, <1>4, <1>5
<1>8. ASSUME NEW x \in T, T \ {x} = S PROVE n = w[x] + m
  BY <1>1, <1>2, <1>4, <1>6, <1>8
<1> QED
  BY <1>7, <1>8

\* The function MapThenSumSet() chooses.
Iterates(g, S, w) ==
  g = [s \in SUBSET S |-> IF s = {} THEN 0 ELSE w[Pick(s)] + g[s \ {Pick(s)}]]

\* There is such a sum.
LEMMA SumExists ==
  ASSUME NEW S, IsFiniteSet(S), NEW w
  PROVE  \E g : Iterates(g, S, w)
<1> DEFINE Small(n) == {s \in SUBSET S : Cardinality(s) <= n}
           HasSum(n) == \E g : /\ g = [s \in Small(n) |-> g[s]]
                               /\ Sums(g, Small(n), w)
           Bad == {n \in Nat : ~ HasSum(n)}
<1>1. \A s \in SUBSET S : /\ IsFiniteSet(s) /\ Cardinality(s) \in Nat
                          /\ Cardinality(s) = 0 <=> s = {}
                          /\ \A x \in s : Cardinality(s \ {x}) = Cardinality(s) - 1
  BY FS_Subset, FS_CardinalityType, FS_EmptySet, FS_RemoveElement
<1>2. HasSum(0)
  <2> DEFINE g == [s \in Small(0) |-> 0]
  <2>1. \A s \in Small(0) : s = {}
    BY <1>1
  <2>2. g = [s \in Small(0) |-> g[s]] /\ Sums(g, Small(0), w)
    BY <2>1 DEF Sums
  <2> HIDE DEF g
  <2> QED
    BY <2>2
<1>3. ASSUME NEW n \in Nat, HasSum(n) PROVE HasSum(n + 1)
  <2>1. PICK g : Sums(g, Small(n), w)
    BY <1>3
  <2> DEFINE h == [s \in Small(n + 1) |-> IF s = {} THEN 0 ELSE w[Pick(s)] + g[s \ {Pick(s)}]]
  <2>2. \A s \in Small(n) : s \in Small(n + 1) /\ h[s] = g[s]
    BY <1>1, <2>1 DEF Sums
  <2>3. ASSUME NEW s \in Small(n + 1), s # {}
        PROVE  s \ {Pick(s)} \in Small(n)
    <3>1. Pick(s) \in s
      BY <2>3, PickIsIn
    <3> QED
      BY <1>1, <3>1
  <2>4. Sums(h, Small(n + 1), w)
    BY <2>2, <2>3 DEF Sums
  <2>5. h = [s \in Small(n + 1) |-> h[s]]
    OBVIOUS
  <2> HIDE DEF h
  <2> QED
    BY <2>4, <2>5
<1>4. \A n \in Nat : HasSum(n)
  <2> HIDE DEF HasSum
  <2> SUFFICES ASSUME Bad # {} PROVE FALSE
    OBVIOUS
  <2>1. PICK n \in Bad : \A m \in Bad : n <= m
    <3>1. Bad \in SUBSET Nat
      OBVIOUS
    <3> HIDE DEF Bad
    <3> QED
      BY <3>1, LeastNatural
  <2>2. n # 0
    BY <1>2
  <2>3. n - 1 \in Nat /\ (n - 1) + 1 = n
    BY <2>2
  <2>4. HasSum(n - 1)
    BY <2>1, <2>3
  <2> QED
    BY <1>3, <2>3, <2>4
<1>5. Cardinality(S) \in Nat /\ Small(Cardinality(S)) = SUBSET S
  BY <1>1, FS_Subset, FS_CardinalityType
<1>6. PICK g : g = [s \in SUBSET S |-> g[s]] /\ Sums(g, SUBSET S, w)
  <2> HIDE DEF Small
  <2> QED
    BY <1>4, <1>5
<1>7. g = [s \in SUBSET S |-> IF s = {} THEN 0 ELSE w[Pick(s)] + g[s \ {Pick(s)}]]
  BY <1>6 DEF Sums
<1> QED
  BY <1>7 DEF Iterates

----------------------------------------------------------------------------
(***************************************************************************)
(* The space of the contents in memory.                                    *)
(***************************************************************************)

\* The contents in memory when the files arrays are these, their sizes, and their sum.
LoadedIn(fs) ==
  {x \in UNION {{d} \X DOMAIN fs[d] : d \in Folders} : fs[x[1]][x[2]].state # "not_loaded"}
SizesIn(fs) == [x \in LoadedIn(fs) |-> fs[x[1]][x[2]].size]
BytesIn(fs) == MapThenSumSet(LAMBDA x : fs[x[1]][x[2]].size, LoadedIn(fs))

LEMMA BytesInIsSum ==
  ASSUME NEW fs, IsFiniteSet(LoadedIn(fs))
  PROVE  IsSum(BytesIn(fs), LoadedIn(fs), SizesIn(fs))
<1> DEFINE S == LoadedIn(fs)
           F(g) == [s \in SUBSET S |->
                      IF s = {} THEN 0
                      ELSE LET x == CHOOSE x \in s : TRUE
                           IN  fs[x[1]][x[2]].size + g[s \ {x}]]
           iter == CHOOSE g : g = F(g)
<1>1. BytesIn(fs) = iter[S]
  BY DEF BytesIn, MapThenSumSet, MapThenFoldSet
<1>2. PICK g : Iterates(g, S, SizesIn(fs))
  <2> HIDE DEF S
  <2> QED
    BY SumExists DEF S
<1>3. \A s \in SUBSET S : s # {} =>
        SizesIn(fs)[Pick(s)] = fs[Pick(s)[1]][Pick(s)[2]].size
  BY PickIsIn DEF SizesIn
<1>4. g = F(g)
  <2>1. F(g) = [s \in SUBSET S |-> IF s = {} THEN 0
                   ELSE fs[Pick(s)[1]][Pick(s)[2]].size + g[s \ {Pick(s)}]]
    BY DEF Pick
  <2> HIDE DEF F, S
  <2> QED
    BY <1>2, <1>3, <2>1 DEF Iterates
<1>5. iter = F(iter)
  <2> HIDE DEF F
  <2> QED
    BY <1>4
<1> HIDE DEF iter
<1>6. Sums(iter, SUBSET S, SizesIn(fs))
  <2>1. \A s \in SUBSET S :
          iter[s] = IF s = {} THEN 0 ELSE fs[Pick(s)[1]][Pick(s)[2]].size + iter[s \ {Pick(s)}]
    <3> HIDE DEF S
    <3> QED
      BY <1>5 DEF Pick
  <2> HIDE DEF S
  <2> QED
    BY <1>3, <2>1 DEF Sums
<1> QED
  BY <1>1, <1>6 DEF IsSum

LEMMA LoadedIsPlace ==
  ASSUME NEW fs, NEW x \in LoadedIn(fs)
  PROVE  \E d \in Folders : \E i \in DOMAIN fs[d] :
           x = <<d, i>> /\ fs[d][i].state # "not_loaded"
BY DEF LoadedIn

LEMMA PlaceIsLoaded ==
  ASSUME NEW fs, NEW d \in Folders, NEW i \in DOMAIN fs[d], fs[d][i].state # "not_loaded"
  PROVE  <<d, i>> \in LoadedIn(fs)
BY DEF LoadedIn

LEMMA LoadedIsFinite ==
  ASSUME NEW fs \in [Folders -> Seq(FileEntry)]
  PROVE  /\ IsFiniteSet(LoadedIn(fs))
         /\ \A x \in LoadedIn(fs) : SizesIn(fs)[x] \in Int
<1> DEFINE row == [d \in Folders |-> {d} \X DOMAIN fs[d]]
           Rows == {row[d] : d \in Folders}
<1>1. IsFiniteSet(Rows)
  <2>1. row \in Surjection(Folders, Rows)
    BY DEF Surjection
  <2>2. IsFiniteSet(Folders)
    BY TreeAssumption
  <2> HIDE DEF row, Rows
  <2> QED
    BY <2>1, <2>2, FS_Surjection
<1>2. ASSUME NEW d \in Folders PROVE IsFiniteSet(row[d])
  <2>1. Len(fs[d]) \in Nat /\ DOMAIN fs[d] = 1..Len(fs[d])
    OBVIOUS
  <2>2. IsFiniteSet(1..Len(fs[d]))
    BY <2>1, FS_Interval
  <2>4. IsFiniteSet({d})
    BY FS_Singleton
  <2>3. IsFiniteSet({d} \X (1..Len(fs[d])))
    BY <2>2, <2>4, FS_Product
  <2> QED
    BY <2>1, <2>3
<1>3. \A R \in Rows : IsFiniteSet(R)
  BY <1>2
<1>4. LoadedIn(fs) \subseteq UNION Rows
  BY DEF LoadedIn
<1> HIDE DEF Rows
<1>5. IsFiniteSet(UNION Rows)
  BY <1>1, <1>3, FS_UNION
<1>6. ASSUME NEW x \in LoadedIn(fs) PROVE SizesIn(fs)[x] \in Int
  <2>1. PICK d \in Folders : \E i \in DOMAIN fs[d] : x = <<d, i>>
    BY LoadedIsPlace
  <2>2. PICK i \in DOMAIN fs[d] : x = <<d, i>>
    BY <2>1
  <2>3. fs[d][i] \in FileEntry
    OBVIOUS
  <2> QED
    BY <2>2, <2>3 DEF SizesIn, FileEntry
<1> QED
  BY <1>4, <1>5, <1>6, FS_Subset

LEMMA BytesAreInt ==
  ASSUME NEW fs \in [Folders -> Seq(FileEntry)]
  PROVE  BytesIn(fs) \in Int
<1>1. IsFiniteSet(LoadedIn(fs)) /\ \A x \in LoadedIn(fs) : SizesIn(fs)[x] \in Int
  BY LoadedIsFinite
<1>2. PICK g : Sums(g, SUBSET LoadedIn(fs), SizesIn(fs)) /\ BytesIn(fs) = g[LoadedIn(fs)]
  BY <1>1, BytesInIsSum DEF IsSum
<1> QED
  BY <1>1, <1>2, SumIsInt

\* No content, no bytes.
LEMMA NothingLoaded ==
  ASSUME NEW fs, LoadedIn(fs) = {}
  PROVE  BytesIn(fs) = 0
<1>1. IsFiniteSet(LoadedIn(fs))
  BY FS_EmptySet
<1>2. PICK g : Sums(g, SUBSET LoadedIn(fs), SizesIn(fs)) /\ BytesIn(fs) = g[LoadedIn(fs)]
  BY <1>1, BytesInIsSum DEF IsSum
<1> QED
  BY <1>2 DEF Sums

\* The array of d has got an entry more, the nth, and the others have not changed.
OneMore(fs, gs, d, n, e) ==
  /\ fs \in [Folders -> Seq(FileEntry)] /\ gs \in [Folders -> Seq(FileEntry)]
  /\ d \in Folders /\ e \in FileEntry
  /\ n \in DOMAIN gs[d] /\ n \notin DOMAIN fs[d] /\ gs[d][n] = e
  /\ \A i \in DOMAIN gs[d] : i = n \/ i \in DOMAIN fs[d]
  /\ \A i \in DOMAIN fs[d] : i \in DOMAIN gs[d] /\ gs[d][i] = fs[d][i]
  /\ \A c \in Folders : c # d => gs[c] = fs[c]

\* Its size is added to the sum, if its content has been loaded.
LEMMA OneMoreContent ==
  ASSUME NEW fs, NEW gs, NEW d, NEW n, NEW e, OneMore(fs, gs, d, n, e)
  PROVE  /\ BytesIn(fs) \in Int
         /\ BytesIn(gs) = BytesIn(fs) + (IF e.state = "not_loaded" THEN 0 ELSE e.size)
<1> DEFINE x == <<d, n>>
           S == LoadedIn(fs)
           T == LoadedIn(gs)
           v == SizesIn(fs)
           w == SizesIn(gs)
<1>3. /\ IsFiniteSet(S) /\ IsFiniteSet(T)
      /\ \A y \in T : w[y] \in Int
  BY LoadedIsFinite DEF OneMore
<1>4. x \notin S
  <2> SUFFICES ASSUME x \in S PROVE FALSE
    OBVIOUS
  <2>1. PICK c \in Folders : \E i \in DOMAIN fs[c] : x = <<c, i>>
    BY LoadedIsPlace
  <2>2. PICK i \in DOMAIN fs[c] : x = <<c, i>>
    BY <2>1
  <2> QED
    BY <2>2 DEF OneMore
<1>5. ASSUME NEW c \in Folders, NEW i \in DOMAIN fs[c]
      PROVE  i \in DOMAIN gs[c] /\ gs[c][i] = fs[c][i]
  <2>1. CASE c = d
    BY <2>1 DEF OneMore
  <2>2. CASE c # d
    BY <2>2 DEF OneMore
  <2> QED
    BY <2>1, <2>2
<1>6. ASSUME NEW y \in S PROVE y \in T /\ w[y] = v[y]
  <2>1. PICK c \in Folders :
          \E i \in DOMAIN fs[c] : y = <<c, i>> /\ fs[c][i].state # "not_loaded"
    BY LoadedIsPlace
  <2>2. PICK i \in DOMAIN fs[c] : y = <<c, i>> /\ fs[c][i].state # "not_loaded"
    BY <2>1
  <2>3. i \in DOMAIN gs[c] /\ gs[c][i] = fs[c][i]
    BY <1>5
  <2>4. y \in T
    BY <2>2, <2>3, PlaceIsLoaded
  <2>5. v[y] = fs[c][i].size /\ w[y] = gs[c][i].size
    BY <2>2, <2>4 DEF SizesIn
  <2> QED
    BY <2>3, <2>4, <2>5
<1>7. ASSUME NEW y \in T
      PROVE  y \in S \/ (y = x /\ e.state # "not_loaded")
  <2>1. PICK c \in Folders :
          \E i \in DOMAIN gs[c] : y = <<c, i>> /\ gs[c][i].state # "not_loaded"
    BY LoadedIsPlace
  <2>2. PICK i \in DOMAIN gs[c] : y = <<c, i>> /\ gs[c][i].state # "not_loaded"
    BY <2>1
  <2>3. CASE c = d /\ i = n
    BY <2>2, <2>3 DEF OneMore
  <2>4. CASE ~ (c = d /\ i = n)
    <3>1. i \in DOMAIN fs[c]
      BY <2>4 DEF OneMore
    <3>2. gs[c][i] = fs[c][i]
      BY <3>1, <1>5
    <3> QED
      BY <2>2, <3>1, <3>2, PlaceIsLoaded
  <2> QED
    BY <2>3, <2>4
<1>8. ASSUME e.state # "not_loaded" PROVE x \in T /\ w[x] = e.size
  <2>1. x \in T
    BY <1>8, PlaceIsLoaded DEF OneMore
  <2> QED
    BY <2>1 DEF SizesIn, OneMore
<1>9. IsSum(BytesIn(fs), S, v) /\ IsSum(BytesIn(gs), T, w)
  BY <1>3, BytesInIsSum
<1>10. S \subseteq T /\ \A y \in S : v[y] = w[y]
  BY <1>6
<1> HIDE DEF S, T, v, w, x
<1>11. /\ BytesIn(fs) \in Int
       /\ T = S => BytesIn(gs) = BytesIn(fs)
       /\ \A z \in T : T \ {z} = S => BytesIn(gs) = w[z] + BytesIn(fs)
  <2>1. More(S, v, T, w)
    BY <1>3, <1>10 DEF More
  <2>2. BytesIn(fs) \in Int
    BY <2>1, <1>9, SumOfMore
  <2>3. T = S => BytesIn(gs) = BytesIn(fs)
    BY <2>1, <1>9, SumOfMore
  <2>4. \A z \in T : T \ {z} = S => BytesIn(gs) = w[z] + BytesIn(fs)
    BY <2>1, <1>9, SumOfMore
  <2> QED
    BY <2>2, <2>3, <2>4
<1>12. CASE e.state = "not_loaded"
  <2>1. T = S
    BY <1>7, <1>10, <1>12
  <2> QED
    BY <2>1, <1>11, <1>12
<1>13. CASE e.state # "not_loaded"
  <2>1. x \in T /\ w[x] = e.size /\ T \ {x} = S
    BY <1>4, <1>7, <1>8, <1>10, <1>13
  <2>2. e.size \in Int
    BY DEF FileEntry, OneMore
  <2> QED
    BY <2>1, <2>2, <1>11, <1>13
<1> QED
  BY <1>12, <1>13

LEMMA BytesAdded ==
  ASSUME NEW fs \in [Folders -> Seq(FileEntry)], NEW d \in Folders, NEW e \in FileEntry,
         NEW gs, gs = [fs EXCEPT ![d] = Append(@, e)]
  PROVE  /\ BytesIn(fs) \in Int
         /\ BytesIn(gs) = BytesIn(fs) + (IF e.state = "not_loaded" THEN 0 ELSE e.size)
<1> DEFINE n == Len(fs[d]) + 1
<1>1. fs[d] \in Seq(FileEntry) /\ gs[d] = Append(fs[d], e)
  OBVIOUS
<1>2. gs \in [Folders -> Seq(FileEntry)] /\ \A c \in Folders : c # d => gs[c] = fs[c]
  OBVIOUS
<1>3. /\ DOMAIN gs[d] = 1..n /\ DOMAIN fs[d] = 1..(n - 1) /\ n \in Nat /\ n > 0
      /\ gs[d][n] = e
      /\ \A i \in DOMAIN fs[d] : i \in 1..n /\ gs[d][i] = fs[d][i]
  BY <1>1
<1> HIDE DEF n
<1>4. /\ n \in DOMAIN gs[d] /\ n \notin DOMAIN fs[d] /\ gs[d][n] = e
      /\ \A i \in DOMAIN gs[d] : i = n \/ i \in DOMAIN fs[d]
      /\ \A i \in DOMAIN fs[d] : i \in DOMAIN gs[d] /\ gs[d][i] = fs[d][i]
  BY <1>3
<1> QED
  <2>1. OneMore(fs, gs, d, n, e)
    BY <1>2, <1>4 DEF OneMore
  <2> QED
    BY <2>1, OneMoreContent

----------------------------------------------------------------------------
\* What is free is what the contents in memory have not taken, and there is room for the
\* one being loaded, as long as its file is.
SpaceInv ==
  /\ free = MaxSize - LoadedBytes
  /\ free \in Nat
  /\ pc \in Loading \/ file # NOT_FOUND => file.size \in Nat /\ file.size <= free

LEMMA LoadedBytesAre == LoadedBytes = BytesIn(files) /\ (LoadedBytes = BytesIn(files))'
<1>1. LoadedBytes = BytesIn(files)
  BY DEF LoadedBytes, BytesIn, Loaded, Cached, LoadedIn
<1>2. (LoadedBytes = BytesIn(files))'
  BY <1>1, PTL
<1> QED
  BY <1>1, <1>2

LEMMA InitSpaceInv == Init => SpaceInv
<1> SUFFICES ASSUME Init PROVE SpaceInv
  OBVIOUS
<1>1. LoadedIn(files) = {}
  BY DEF Init, LoadedIn
<1>2. LoadedBytes = 0
  BY <1>1, NothingLoaded, LoadedBytesAre
<1>3. MaxSize \in Nat /\ free = MaxSize /\ file = NOT_FOUND /\ pc = "count"
  BY SizesAssumption DEF Init
<1> QED
  BY <1>2, <1>3 DEF SpaceInv, Loading

\* Nothing is added.
LEMMA SameSpace ==
  ASSUME SpaceInv, UNCHANGED <<files, free>>,
         \/ file' = file /\ (pc' \in Loading => pc \in Loading)
         \/ file'.size \in Nat /\ file'.size <= free
  PROVE  SpaceInv'
<1>1. LoadedBytes' = LoadedBytes
  BY LoadedBytesAre
<1> QED
  BY <1>1 DEF SpaceInv

\* A content that is added was fitting.
LEMMA AddFileKeepsSpace ==
  ASSUME CacheInv, SpaceInv, NEW f \in Files, NEW length \in Int, NEW state \in FileState,
         NEW whole \in BOOLEAN, AddFile(f, length, state, whole),
         state # "not_loaded" => length \in Nat /\ length <= free
  PROVE  SpaceInv'
<1> DEFINE new == [entry |-> f, size |-> length, state |-> state, whole |-> whole]
<1>1. /\ files' = [files EXCEPT ![Current] = Append(@, new)]
      /\ free' = IF state = "not_loaded" THEN free ELSE free - length
      /\ pc' = "fill" /\ file' = NOT_FOUND
  BY DEF AddFile
<1>2. files \in [Folders -> Seq(FileEntry)] /\ Current \in Folders /\ new \in FileEntry
  BY CurrentIsLast DEF CacheInv, Types, FileEntry
<1>3. new.state = state /\ new.size = length
  OBVIOUS
<1> HIDE DEF new
<1>4. BytesIn(files) \in Int
  BY <1>1, <1>2, BytesAdded
<1>5. BytesIn(files') = BytesIn(files) + (IF new.state = "not_loaded" THEN 0 ELSE new.size)
  BY <1>1, <1>2, BytesAdded
<1>6. LoadedBytes = BytesIn(files) /\ LoadedBytes' = BytesIn(files')
  BY LoadedBytesAre
<1>7. free = MaxSize - LoadedBytes /\ free \in Nat /\ MaxSize \in Nat
  BY SizesAssumption DEF SpaceInv
<1>8. free' \in Nat
  BY <1>1, <1>7
<1>9. free' = MaxSize - LoadedBytes'
  <2>1. CASE state = "not_loaded"
    BY <2>1, <1>1, <1>3, <1>4, <1>5, <1>6, <1>7
  <2>2. CASE state # "not_loaded"
    BY <2>2, <1>1, <1>3, <1>4, <1>5, <1>6, <1>7
  <2> QED
    BY <2>1, <2>2
<1> QED
  BY <1>1, <1>8, <1>9 DEF SpaceInv, Loading

LEMMA ReadRawKeepsSpace ==
  ASSUME CacheInv, SpaceInv, ReadRaw
  PROVE  SpaceInv'
<1> DEFINE whole == got = 0 /\ Min({file.size, Max({size[file.entry], got})}) = file.size
<1>1. pc = "raw" /\ file.entry \in Files
  BY DEF ReadRaw, CacheInv, Types, Loading
<1>2. file.size \in Nat /\ file.size <= free
  BY <1>1 DEF SpaceInv, Loading
<1>3. whole \in BOOLEAN /\ "raw" \in FileState
  BY DEF FileState
<1>4. \/ AddFile(file.entry, file.size, "raw", whole)
      \/ UNCHANGED <<pc, files, free, file>>
  BY DEF ReadRaw
<1> HIDE DEF whole
<1>5. CASE AddFile(file.entry, file.size, "raw", whole)
  <2>1. file.size \in Int
    BY <1>2
  <2> QED
    BY <1>1, <1>2, <1>3, <1>5, <2>1, AddFileKeepsSpace, Zenon
<1>6. CASE UNCHANGED <<pc, files, free, file>>
  BY <1>6, SameSpace
<1> QED
  BY <1>4, <1>5, <1>6

\* The compressed content takes no more than the buffer, which is as long as the file.
LEMMA CompressKeepsSpace ==
  ASSUME CacheInv, SpaceInv, Compress
  PROVE  SpaceInv'
<1>1. pc = "gzip" /\ file.entry \in Files
  BY DEF Compress, CacheInv, Types, Loading
<1>2. file.size \in Nat /\ file.size <= free /\ free \in Nat
  BY <1>1 DEF SpaceInv, Loading
<1>3. PICK m \in IF Exists(file.entry) THEN GzipSizes ELSE {0} :
        AddFile(file.entry, Min({m, BufferLength(file.size)}), "compressed",
                m <= BufferLength(file.size))
  BY DEF Compress
<1>4. m \in Nat /\ BufferLength(file.size) = file.size
  BY <1>2, SizesAssumption DEF BufferLength
<1> DEFINE length == Min({m, BufferLength(file.size)})
           whole == m <= BufferLength(file.size)
<1>5. length \in Nat /\ length \in Int /\ length <= free
  BY <1>2, <1>4, MinOfTwo
<1>6. whole \in BOOLEAN /\ "compressed" \in FileState
  BY DEF FileState
<1> HIDE DEF length, whole
<1>7. AddFile(file.entry, length, "compressed", whole)
  BY <1>3 DEF length, whole
<1> QED
  BY <1>1, <1>5, <1>6, <1>7, AddFileKeepsSpace, Zenon

LEMMA LeaveOutKeepsSpace ==
  ASSUME CacheInv, SpaceInv, NEW f \in Files, LeaveOut(f)
  PROVE  SpaceInv'
<1>1. AddFile(f, AsInt(size[f]), "not_loaded", FALSE)
  BY DEF LeaveOut
<1>2. AsInt(size[f]) \in Int
  BY AsIntIsInt DEF CacheInv, Types
<1>3. FALSE \in BOOLEAN /\ "not_loaded" \in FileState
  BY DEF FileState
<1> QED
  BY <1>1, <1>2, <1>3, AddFileKeepsSpace, Zenon

LEMMA BeginLoadKeepsSpace ==
  ASSUME CacheInv, SpaceInv, NEW f \in Files, BeginLoad(f)
  PROVE  SpaceInv'
<1>1. /\ file' = [entry |-> f, size |-> AsInt(size[f])]
      /\ AsInt(size[f]) >= 0 /\ AsInt(size[f]) <= free
      /\ UNCHANGED <<files, free>>
  BY DEF BeginLoad, Fits
<1>2. AsInt(size[f]) \in Int
  BY AsIntIsInt DEF CacheInv, Types
<1>3. file'.size \in Nat /\ file'.size <= free
  BY <1>1, <1>2
<1> QED
  BY <1>1, <1>3, SameSpace

LEMMA BuildKeepsSpace ==
  ASSUME CacheInv, SpaceInv, Build
  PROVE  SpaceInv'
<1>1. CASE CountFolder \/ Rewind \/ OpenRaw \/ ReadFails \/ LeaveFolder
  <2>1. UNCHANGED <<files, free, file>> /\ (pc' \in Loading => pc \in Loading)
    BY <1>1 DEF CountFolder, Rewind, OpenRaw, ReadFails, LeaveFolder, Exit, Loading, cache
  <2> QED
    BY <2>1, SameSpace
<1>2. CASE ReadRaw
  BY <1>2, ReadRawKeepsSpace
<1>3. CASE Compress
  BY <1>3, CompressKeepsSpace
<1>4. CASE \E e \in Entries : SkipVanished(e) \/ StatFails(e)
  <2>1. UNCHANGED <<files, free, file>> /\ (pc' \in Loading => pc \in Loading)
    BY <1>4 DEF SkipVanished, StatFails, Exit, Loading, cache
  <2> QED
    BY <2>1, SameSpace
<1>5. CASE \E f \in Files : LeaveOut(f) \/ MallocFails(f) \/ BeginLoad(f)
  <2> SUFFICES ASSUME NEW f \in Files, LeaveOut(f) \/ MallocFails(f) \/ BeginLoad(f)
               PROVE  SpaceInv'
    BY <1>5
  <2>1. CASE MallocFails(f)
    <3>1. UNCHANGED <<files, free, file>> /\ pc' \notin Loading
      BY <2>1 DEF MallocFails, Exit, Loading, cache
    <3> QED
      BY <3>1, SameSpace
  <2> QED
    BY <2>1, LeaveOutKeepsSpace, BeginLoadKeepsSpace
<1>6. CASE \E d \in Folders : EnterFolder(d)
  <2>1. UNCHANGED <<files, free, file>> /\ pc' \notin Loading
    BY <1>6 DEF EnterFolder, Loading
  <2> QED
    BY <2>1, SameSpace
<1> QED
  BY <1>1, <1>2, <1>3, <1>4, <1>5, <1>6 DEF Build

\* Through every step of the building, cache_free_space is what the contents leave.
THEOREM SpaceInvariant == Spec => []SpaceInv
<1>1. CacheInv /\ SpaceInv /\ [Next]_vars => SpaceInv'
  <2>1. ASSUME SpaceInv,
               \/ \E f \in Files : Resize(f)
               \/ \E e \in Entries : Vanish(e)
               \/ UNCHANGED vars
        PROVE  SpaceInv'
    BY <2>1, SameSpace DEF Resize, Vanish, vars, cache
  <2> QED
    BY <2>1, BuildKeepsSpace DEF Next
<1> QED
  BY <1>1, InitSpaceInv, CacheInvariant, PTL DEF Spec

\* For every tree, every size and whatever files grow, shrink or vanish meanwhile, the
\* contents in memory and the one being loaded never take more than max_cache_size.
THEOREM CacheIsNeverOverfull == Spec => []CacheNeverOverfull
<1>1. CacheInv /\ SpaceInv => CacheNeverOverfull
  <2> SUFFICES ASSUME CacheInv, SpaceInv PROVE LoadedBytes + BytesInLoading <= MaxSize
    BY DEF CacheNeverOverfull
  <2>1. BytesInLoading \in Nat /\ BytesInLoading <= free
    BY DEF SpaceInv, BytesInLoading, BufferLength
  <2>2. free = MaxSize - LoadedBytes /\ free \in Nat /\ MaxSize \in Nat
    BY SizesAssumption DEF SpaceInv
  <2>3. LoadedBytes \in Int
    BY LoadedBytesAre, BytesAreInt DEF CacheInv, Types
  <2> QED
    BY <2>1, <2>2, <2>3
<1> QED
  BY <1>1, CacheInvariant, SpaceInvariant, PTL

----------------------------------------------------------------------------
(***************************************************************************)
(* Paths that lead somewhere.                                              *)
(***************************************************************************)

\* What Exists() says when these entries are linked.
ExistsIn(L, e) ==
  LET exists[x \in Entries \cup {Root}] ==
        IF x = Root THEN TRUE ELSE x \in L /\ exists[Parent[x]]
  IN  exists[e]

LEMMA ExistsAre == \A e : /\ Exists(e) = ExistsIn(linked, e)
                          /\ Exists(e)' = ExistsIn(linked', e)
BY DEF Exists, ExistsIn

LEMMA ParentIsFolder ==
  ASSUME NEW e \in Entries
  PROVE  e # Root /\ Parent[e] \in Folders /\ (Parent[e] = Root \/ Parent[e] \in Entries)
BY TreeAssumption DEF Entries

\* What a function says of the entries of D, or of all, follows from what it says of their parents.
UpFrom(g, D, L) ==
  g = [x \in D \cup {Root} |-> IF x = Root THEN TRUE ELSE x \in L /\ g[Parent[x]]]

LEMMA ExistsExists ==
  ASSUME NEW L
  PROVE  \E g : UpFrom(g, Entries, L)
<1> DEFINE Whole(D) == \A x \in D : Parent[x] \in D \cup {Root}
           Has(D) == Whole(D) /\ \E g : UpFrom(g, D, L)
           Bad == {S \in SUBSET Entries : Has(Entries \ S)}
<1>1. Bad # {}
  <2> DEFINE g == [x \in {Root} |-> TRUE]
  <2>1. UpFrom(g, {}, L)
    BY DEF UpFrom
  <2>2. Entries \ Entries = {} /\ Whole({})
    OBVIOUS
  <2> HIDE DEF g
  <2> QED
    BY <2>1, <2>2
<1>2. PICK S \in Bad : \A x \in S : S \ {x} \notin Bad
  <2>1. \A S \in Bad : IsFiniteSet(S)
    <3>1. \A S \in Bad : S \in SUBSET Entries
      OBVIOUS
    <3>2. IsFiniteSet(Entries)
      BY TreeAssumption, FS_Subset, FS_Union DEF Entries
    <3> HIDE DEF Bad
    <3> QED
      BY <3>1, <3>2, FS_Subset
  <2> HIDE DEF Bad
  <2> QED
    BY <1>1, <2>1, LeastSet
<1>3. CASE S = {}
  BY <1>3
<1>4. CASE S # {}
  <2> DEFINE D == Entries \ S
  <2>1. PICK e \in S : Parent[e] \notin S
    <3>1. S \in SUBSET Entries
      OBVIOUS
    <3> HIDE DEF Bad
    <3> QED
      BY <1>4, <3>1, TreeAssumption
  <2>2. PICK g : UpFrom(g, D, L)
    OBVIOUS
  <2>3. Whole(D) /\ e \notin D /\ e \in Entries /\ e # Root /\ Parent[e] \in D \cup {Root}
    BY <2>1, ParentIsFolder
  <2> DEFINE E == D \cup {e}
             h == [x \in E \cup {Root} |-> IF x = e THEN e \in L /\ g[Parent[e]] ELSE g[x]]
  <2>4. E = Entries \ (S \ {e})
    OBVIOUS
  <2> HIDE DEF Bad, D
  <2>5. \A x \in D \cup {Root} : g[x] = IF x = Root THEN TRUE ELSE x \in L /\ g[Parent[x]]
    BY <2>2 DEF UpFrom
  <2>6. \A x \in D \cup {Root} : h[x] = g[x]
    BY <2>3
  <2>7. h[e] = (e \in L /\ g[Parent[e]])
    OBVIOUS
  <2>8. \A x \in D : Parent[x] \in D \cup {Root}
    BY <2>3
  <2>9. h = [x \in E \cup {Root} |-> h[x]]
    OBVIOUS
  <2> HIDE DEF h
  <2>10. \A x \in E \cup {Root} : h[x] = IF x = Root THEN TRUE ELSE x \in L /\ h[Parent[x]]
    BY <2>3, <2>5, <2>6, <2>7, <2>8
  <2> HIDE DEF E
  <2>11. UpFrom(h, E, L)
    BY <2>9, <2>10 DEF UpFrom
  <2>12. Whole(E)
    BY <2>3 DEF E
  <2>13. Has(E)
    BY <2>11, <2>12
  <2>14. S \ {e} \in SUBSET Entries /\ S \ {e} \in Bad
    <3> HIDE DEF Has
    <3> QED
      BY <2>4, <2>13 DEF Bad, E
  <2> QED
    BY <1>2, <2>1, <2>14
<1> QED
  BY <1>3, <1>4

\* A path leads somewhere when its last step does, and the path to it.
LEMMA ExistsUp ==
  ASSUME NEW L
  PROVE  /\ ExistsIn(L, Root)
         /\ \A x \in Entries : ExistsIn(L, x) <=> x \in L /\ ExistsIn(L, Parent[x])
<1> DEFINE All == Entries \cup {Root}
           F(g) == [x \in All |-> IF x = Root THEN TRUE ELSE x \in L /\ g[Parent[x]]]
           exists == CHOOSE g : g = F(g)
<1>1. PICK g : g = F(g)
  BY ExistsExists DEF UpFrom
<1>2. exists = F(exists)
  <2> HIDE DEF F
  <2> QED
    BY <1>1
<1>3. \A e : ExistsIn(L, e) = exists[e]
  BY DEF ExistsIn
<1> HIDE DEF exists
<1>4. /\ exists[Root] = TRUE
      /\ \A x \in Entries : exists[x] = (x \in L /\ exists[Parent[x]])
  BY <1>2, ParentIsFolder
<1> QED
  BY <1>3, <1>4

\* Nothing comes back when an entry is taken away.
LEMMA FewerExist ==
  ASSUME NEW L, NEW M, M \subseteq L, NEW e \in Entries, ExistsIn(M, e)
  PROVE  ExistsIn(L, e)
<1> DEFINE Bad == {x \in Entries : ExistsIn(M, x) /\ ~ ExistsIn(L, x)}
<1>1. ASSUME Bad # {} PROVE FALSE
  <2>1. PICK x \in Bad : Parent[x] \notin Bad
    <3>1. Bad \in SUBSET Entries
      OBVIOUS
    <3> HIDE DEF Bad
    <3> QED
      BY <1>1, <3>1, TreeAssumption
  <2>2. x \in M /\ ExistsIn(M, Parent[x])
    BY <2>1, ExistsUp
  <2>3. ExistsIn(L, Parent[x])
    BY <2>1, <2>2, ParentIsFolder, ExistsUp
  <2> QED
    BY <2>1, <2>2, <2>3, ExistsUp
<1> QED
  BY <1>1

\* While nothing has been taken away, every path leads somewhere.
LEMMA AllExist ==
  ASSUME linked = Entries \cup {Root}
  PROVE  \A e \in Entries \cup {Root} : Exists(e)
<1> DEFINE Bad == {x \in Entries : ~ Exists(x)}
<1>1. /\ Exists(Root)
      /\ \A x \in Entries : Exists(x) <=> x \in linked /\ Exists(Parent[x])
  BY ExistsAre, ExistsUp
<1>2. ASSUME Bad # {} PROVE FALSE
  <2>1. PICK x \in Bad : Parent[x] \notin Bad
    <3>1. Bad \in SUBSET Entries
      OBVIOUS
    <3> HIDE DEF Bad
    <3> QED
      BY <1>2, <3>1, TreeAssumption
  <2>2. Exists(Parent[x])
    BY <1>1, <2>1, ParentIsFolder
  <2> QED
    BY <1>1, <2>1, <2>2
<1> QED
  BY <1>1, <1>2

----------------------------------------------------------------------------
(***************************************************************************)
(* The tree that is built: all of what is still there, and on a disk that  *)
(* does not change all of it.                                              *)
(***************************************************************************)

\* A folder in the subfolders array of another is a child of it, and has been left.
ListedInv ==
  \A d \in Folders : \A c \in ToSet(folders[d]) :
    /\ c # Root /\ Parent[c] = d
    /\ c \notin todo[d] /\ ~ OnStack(c) /\ todo[c] = {}

InParent(d) == d # Root /\ d \in ToSet(folders[Parent[d]])

\* The entries of a folder have been counted, and the second reading has begun.
Begun(d) == (OnStack(d) \/ InParent(d)) /\ ~ (d = Current /\ pc \in {"count", "rewind"})

FilesIn(d) == {files[d][i].entry : i \in DOMAIN files[d]}
FilesSeen(d) ==
  FilesIn(d) \cup (todo[d] \cap Files)
    \cup (IF pc \in Loading /\ d = Current THEN {file.entry} ELSE {})
FoldersSeen(d) ==
  ToSet(folders[d]) \cup (todo[d] \cap Folders)
    \cup {c \in Folders \ {Root} : OnStack(c) /\ Parent[c] = d}

\* Each entry of a folder being read that is still there has been added, is being added,
\* or is still to come.
Seen(d) ==
  /\ FilesSeen(d) \subseteq Children(d) \cap Files
  /\ FoldersSeen(d) \subseteq Children(d) \cap Folders
  /\ \A e \in Children(d) : Exists(e) => e \in FilesSeen(d) \cup FoldersSeen(d)
AllSeen == \A d \in Folders : Begun(d) => Seen(d)

MirrorInv ==
  /\ ListedInv
  /\ changes \in Nat
  /\ pc = "done" => Current = Root /\ todo[Root] = {}
  /\ pc # "exited" => AllSeen
  /\ changes = 0 => linked = Entries \cup {Root}

----------------------------------------------------------------------------

LEMMA InitMirrorInv == Init => MirrorInv
<1> SUFFICES ASSUME Init PROVE MirrorInv
  OBVIOUS
<1>1. \A d \in Folders : folders[d] = <<>> /\ ToSet(folders[d]) = {}
  BY DEF Init, ToSet
<1>2. ListedInv
  BY <1>1 DEF ListedInv
<1>3. Current = Root /\ pc = "count"
  BY DEF Init, Current, Last
<1>4. \A d : OnStack(d) => d = Root
  BY DEF Init, OnStack
<1>5. \A d \in Folders : ~ Begun(d)
  <2> SUFFICES ASSUME NEW d \in Folders, Begun(d) PROVE FALSE
    OBVIOUS
  <2>1. d = Root
    BY <1>1, <1>4, FolderIsEntry DEF Begun, InParent
  <2> QED
    BY <1>3, <2>1 DEF Begun
<1> QED
  BY <1>2, <1>3, <1>5 DEF MirrorInv, AllSeen, Init

LEMMA RangeInFolders ==
  ASSUME Types, NEW d \in Folders, NEW c \in ToSet(folders[d])
  PROVE  c \in Folders
BY DEF Types, ToSet

\* What is to come grows no longer, and the tree stays.
LEMMA ListedStay ==
  ASSUME Types, ListedInv, LessToDo, UNCHANGED <<stack, folders>>
  PROVE  ListedInv' /\ \A d \in Folders : InParent(d)' <=> InParent(d)
<1>1. \A d : OnStack(d)' <=> OnStack(d)
  BY DEF OnStack
<1>2. \A d : ToSet(folders[d])' = ToSet(folders[d])
  BY DEF ToSet
<1>3. ASSUME NEW d \in Folders, NEW c \in ToSet(folders[d])
      PROVE  c # Root /\ Parent[c] = d /\ c \notin todo'[d] /\ ~ OnStack(c)' /\ todo'[c] = {}
  <2>1. c # Root /\ Parent[c] = d /\ c \notin todo[d] /\ ~ OnStack(c) /\ todo[c] = {}
    BY DEF ListedInv
  <2>2. c \in Folders
    BY RangeInFolders
  <2> QED
    BY <1>1, <2>1, <2>2 DEF LessToDo
<1> QED
  BY <1>1, <1>2, <1>3 DEF ListedInv, InParent

\* Nothing but the innermost folder changes.
OthersStay ==
  /\ UNCHANGED <<stack, folders>>
  /\ \A d \in Folders : d # Current => todo'[d] = todo[d] /\ files'[d] = files[d]

LEMMA OthersStaySeen ==
  ASSUME Types, AllSeen, OthersStay, ListedInv, UNCHANGED linked,
         \A d \in Folders : InParent(d)' <=> InParent(d),
         pc' \in {"count", "rewind"} \/ Seen(Current)'
  PROVE  AllSeen'
<1>1. Current' = Current /\ \A d : OnStack(d)' <=> OnStack(d)
  BY DEF OthersStay, Current, OnStack
<1>2. /\ \A d : Children(d)' = Children(d)
      /\ \A e : Exists(e)' = Exists(e)
  BY ExistsAre DEF Children
<1>3. ASSUME NEW d \in Folders, Begun(d)' PROVE Seen(d)'
  <2>1. CASE d = Current
    BY <1>1, <1>3, <2>1 DEF Begun
  <2>2. CASE d # Current
    <3>1. Begun(d)
      BY <1>1, <1>3, <2>2 DEF Begun
    <3>2. FilesSeen(d)' = FilesSeen(d)
      BY <1>1, <2>2 DEF FilesSeen, FilesIn, OthersStay
    <3>3. FoldersSeen(d)' = FoldersSeen(d)
      BY <1>1, <2>2 DEF FoldersSeen, OthersStay, ToSet
    <3> QED
      BY <1>2, <3>1, <3>2, <3>3 DEF AllSeen, Seen
  <2> QED
    BY <2>1, <2>2
<1> QED
  BY <1>3 DEF AllSeen

\* A file moves from what is to come, or from being loaded, to its next place.
LEMMA FileMoves ==
  ASSUME Types, AllSeen, OthersStay, pc \notin {"count", "rewind"}, UNCHANGED linked,
         todo'[Current] \cap Folders = todo[Current] \cap Folders,
         FilesSeen(Current)' = FilesSeen(Current)
  PROVE  Seen(Current)'
<1>1. Current \in Folders /\ OnStack(Current)
  BY CurrentIsLast
<1>2. Seen(Current)
  BY <1>1 DEF AllSeen, Begun
<1>3. Current' = Current /\ \A d : OnStack(d)' <=> OnStack(d)
  BY DEF OthersStay, Current, OnStack
<1>4. FoldersSeen(Current)' = FoldersSeen(Current)
  BY <1>3 DEF FoldersSeen, OthersStay, ToSet
<1>5. /\ Children(Current)' = Children(Current)
      /\ \A e : Exists(e)' = Exists(e)
  BY <1>3, ExistsAre DEF Children
<1> QED
  BY <1>2, <1>3, <1>4, <1>5 DEF Seen

LEMMA AddFileFills ==
  ASSUME Types, NEW f, NEW length, NEW state, NEW whole, AddFile(f, length, state, whole),
         UNCHANGED stack
  PROVE  /\ FilesIn(Current)' = FilesIn(Current) \cup {f}
         /\ \A d \in Folders : d # Current => files'[d] = files[d]
<1> DEFINE new == [entry |-> f, size |-> length, state |-> state, whole |-> whole]
<1>1. Current' = Current /\ Current \in Folders
  BY CurrentIsLast DEF Current
<1>2. files' = [files EXCEPT ![Current] = Append(@, new)] /\ new.entry = f
  BY DEF AddFile
<1> HIDE DEF new
<1> DEFINE old == files[Current]
           n == Len(old)
<1>3. old \in Seq(FileEntry) /\ n \in Nat /\ DOMAIN old = 1..n
  BY <1>1 DEF Types
<1>4. files'[Current] = Append(old, new)
  BY <1>1, <1>2 DEF Types
<1>5. /\ DOMAIN files'[Current] = 1..(n + 1)
      /\ files'[Current][n + 1] = new
      /\ \A i \in 1..n : files'[Current][i] = old[i]
  <2>1. \A s \in Seq(FileEntry) :
          /\ DOMAIN Append(s, new) = 1..(Len(s) + 1)
          /\ Append(s, new)[Len(s) + 1] = new
          /\ \A i \in 1..Len(s) : Append(s, new)[i] = s[i]
    OBVIOUS
  <2> QED
    BY <1>3, <1>4, <2>1
<1>6. \A d \in Folders : d # Current => files'[d] = files[d]
  BY <1>1, <1>2 DEF Types
<1>7. \A i \in 1..(n + 1) : i = n + 1 \/ i \in 1..n
  BY <1>3
<1>8. n + 1 \in 1..(n + 1) /\ \A i \in 1..n : i \in 1..(n + 1)
  BY <1>3
<1> HIDE DEF n
<1>9. {files'[Current][i].entry : i \in DOMAIN files'[Current]}
        = {old[i].entry : i \in DOMAIN old} \cup {f}
  BY <1>2, <1>3, <1>5, <1>7, <1>8
<1> QED
  BY <1>1, <1>6, <1>9 DEF FilesIn

LEMMA ExitKeepsMirror ==
  ASSUME CacheInv, MirrorInv, Exit
  PROVE  MirrorInv'
<1>1. UNCHANGED <<stack, todo, folders, linked, changes>> /\ pc' = "exited"
  BY DEF Exit, cache, disk
<1>2. Types /\ LessToDo /\ ListedInv
  BY <1>1 DEF CacheInv, MirrorInv, LessToDo
<1>3. ListedInv'
  BY <1>1, <1>2, ListedStay
<1> QED
  BY <1>1, <1>3 DEF MirrorInv

\* A step that adds no folder keeps the mirror when it does so for the innermost one.
LEMMA StepKeepsMirror ==
  ASSUME CacheInv, MirrorInv, OthersStay, LessToDo, UNCHANGED <<linked, changes>>,
         pc # "exited", pc' # "done",
         AllSeen => pc' \in {"count", "rewind"} \/ Seen(Current)'
  PROVE  MirrorInv'
<1>1. Types /\ ListedInv
  BY DEF CacheInv, MirrorInv
<1>2. ListedInv' /\ \A d \in Folders : InParent(d)' <=> InParent(d)
  BY <1>1, ListedStay DEF OthersStay
<1>3. AllSeen
  BY DEF MirrorInv
<1>4. AllSeen'
  BY <1>1, <1>2, <1>3, OthersStaySeen
<1> QED
  BY <1>2, <1>4 DEF MirrorInv

LEMMA CountKeepsMirror ==
  ASSUME CacheInv, MirrorInv, CountFolder
  PROVE  MirrorInv'
<1>1. CASE pc' = "rewind"
  <2>1. UNCHANGED <<stack, todo, files, folders, linked, changes>> /\ pc = "count"
    BY <1>1 DEF CountFolder, Exit, disk
  <2>2. OthersStay /\ LessToDo
    BY <2>1 DEF OthersStay, LessToDo
  <2> QED
    BY <1>1, <2>1, <2>2, StepKeepsMirror
<1>2. CASE Exit
  BY <1>2, ExitKeepsMirror
<1> QED
  BY <1>1, <1>2 DEF CountFolder

\* Both readings of the directory return the same entries.
LEMMA RewindKeepsMirror ==
  ASSUME CacheInv, MirrorInv, Rewind
  PROVE  MirrorInv'
<1>1. /\ pc = "rewind" /\ pc' = "fill"
      /\ UNCHANGED <<stack, files, folders, linked, changes>>
      /\ todo' = [todo EXCEPT ![Current] = Present(Current)]
  BY DEF Rewind, disk, Listed
<1>2. Types /\ ListedInv /\ Untouched /\ StackIsPath
  BY <1>1 DEF CacheInv, MirrorInv, EnteredOnce
<1>3. /\ Current \in Folders /\ OnStack(Current) /\ Current' = Current
      /\ \A d : OnStack(d)' <=> OnStack(d)
      /\ \A d : ToSet(folders[d])' = ToSet(folders[d])
  BY <1>1, <1>2, CurrentIsLast DEF Current, OnStack, ToSet
<1>4. /\ todo'[Current] = Present(Current)
      /\ \A d \in Folders : d # Current => todo'[d] = todo[d]
  BY <1>1, <1>2, <1>3 DEF Types
<1>5. OthersStay
  BY <1>1, <1>4 DEF OthersStay
<1>6. ToSet(folders[Current]) = {} /\ FilesIn(Current) = {}
  BY <1>2 DEF Untouched, ToSet, FilesIn
<1>7. ListedInv'
  <2> SUFFICES ASSUME NEW d \in Folders, NEW c \in ToSet(folders[d])
               PROVE  /\ c # Root /\ Parent[c] = d
                      /\ c \notin todo'[d] /\ ~ OnStack(c) /\ todo'[c] = {}
    BY <1>3 DEF ListedInv
  <2>1. c # Root /\ Parent[c] = d /\ c \notin todo[d] /\ ~ OnStack(c) /\ todo[c] = {}
    BY <1>2 DEF ListedInv
  <2>2. c \in Folders /\ c # Current /\ d # Current
    BY <1>2, <1>3, <1>6, <2>1, RangeInFolders
  <2> QED
    BY <1>4, <2>1, <2>2
<1>8. Seen(Current)'
  <2>1. /\ Present(Current) = Children(Current) \cap linked /\ Children(Current) \subseteq Entries
        /\ Children(Current)' = Children(Current)
    BY <1>3 DEF Present, Children
  <2>2. FilesIn(Current)' = {}
    BY <1>1, <1>3, <1>6 DEF FilesIn
  <2>3. FilesSeen(Current)' = Present(Current) \cap Files
    BY <1>1, <1>3, <1>4, <2>2 DEF FilesSeen, Loading
  <2>4. {c \in Folders \ {Root} : OnStack(c)' /\ Parent[c] = Current} = {}
    BY <1>2, <1>3, NoChildOfCurrent
  <2>5. FoldersSeen(Current)' = Present(Current) \cap Folders
    BY <1>3, <1>4, <1>6, <2>4 DEF FoldersSeen
  <2>6. ASSUME NEW e \in Children(Current), Exists(e)'
        PROVE  e \in FilesSeen(Current)' \cup FoldersSeen(Current)'
    <3>1. e \in Entries /\ e \in linked
      BY <1>1, <2>1, <2>6, ExistsAre, ExistsUp
    <3> QED
      BY <2>1, <2>3, <2>5, <2>6, <3>1 DEF Entries
  <2> QED
    BY <1>3, <2>1, <2>3, <2>5, <2>6 DEF Seen
<1>9. AllSeen'
  <2>1. \A d \in Folders : InParent(d)' <=> InParent(d)
    BY <1>1 DEF InParent
  <2>2. AllSeen
    BY <1>1 DEF MirrorInv
  <2> QED
    BY <1>1, <1>2, <1>5, <1>8, <2>1, <2>2, OthersStaySeen
<1> QED
  BY <1>1, <1>7, <1>9 DEF MirrorInv

LEMMA OpenRawKeepsMirror ==
  ASSUME CacheInv, MirrorInv, OpenRaw
  PROVE  MirrorInv'
<1>1. CASE pc' = "raw"
  <2>1. UNCHANGED <<stack, todo, files, folders, file, linked, changes>> /\ pc = "open"
    BY <1>1 DEF OpenRaw, Exit, cache, disk
  <2>2. OthersStay /\ LessToDo /\ Types
    BY <2>1 DEF OthersStay, LessToDo, CacheInv
  <2>3. FilesSeen(Current)' = FilesSeen(Current)
    BY <1>1, <2>1 DEF FilesSeen, FilesIn, Current, Loading
  <2>4. AllSeen => Seen(Current)'
    BY <2>1, <2>2, <2>3, FileMoves
  <2> QED
    BY <1>1, <2>1, <2>2, <2>4, StepKeepsMirror
<1>2. CASE Exit
  BY <1>2, ExitKeepsMirror
<1> QED
  BY <1>1, <1>2 DEF OpenRaw

\* The file that was being loaded has been added.
LEMMA LoadedKeepsMirror ==
  ASSUME CacheInv, MirrorInv, pc \in Loading, NEW length, NEW state, NEW whole,
         AddFile(file.entry, length, state, whole),
         UNCHANGED <<stack, todo, folders, linked, changes>>
  PROVE  MirrorInv'
<1>1. Types /\ LessToDo /\ Current' = Current /\ pc' = "fill"
  BY DEF CacheInv, LessToDo, Current, AddFile
<1>2. /\ FilesIn(Current)' = FilesIn(Current) \cup {file.entry}
      /\ \A d \in Folders : d # Current => files'[d] = files[d]
  BY <1>1, AddFileFills
<1>3. OthersStay
  BY <1>2 DEF OthersStay
<1>4. FilesSeen(Current)' = FilesSeen(Current)
  BY <1>1, <1>2 DEF FilesSeen, Loading
<1>5. pc \notin {"count", "rewind"} /\ pc # "exited" /\ pc' # "done"
  BY <1>1 DEF Loading
<1>6. AllSeen => Seen(Current)'
  BY <1>1, <1>3, <1>4, <1>5, FileMoves
<1> QED
  BY <1>1, <1>3, <1>5, <1>6, StepKeepsMirror

LEMMA ReadRawKeepsMirror ==
  ASSUME CacheInv, MirrorInv, ReadRaw
  PROVE  MirrorInv'
<1> DEFINE whole == got = 0 /\ Min({file.size, Max({size[file.entry], got})}) = file.size
<1>1. /\ UNCHANGED <<stack, todo, folders, linked, changes>>
      /\ pc \in Loading /\ pc \notin {"count", "rewind", "exited", "done"}
  BY DEF ReadRaw, Loading, disk
<1>2. \/ AddFile(file.entry, file.size, "raw", whole)
      \/ UNCHANGED <<pc, files, free, file>>
  BY DEF ReadRaw
<1> HIDE DEF whole
<1>3. CASE AddFile(file.entry, file.size, "raw", whole)
  BY <1>1, <1>3, LoadedKeepsMirror
<1>4. CASE UNCHANGED <<pc, files, free, file>>
  <2>1. OthersStay /\ LessToDo /\ Types
    BY <1>1, <1>4 DEF OthersStay, LessToDo, CacheInv
  <2>2. FilesSeen(Current)' = FilesSeen(Current)
    BY <1>1, <1>4 DEF FilesSeen, FilesIn, Current
  <2>3. AllSeen => Seen(Current)'
    BY <1>1, <2>1, <2>2, FileMoves
  <2> QED
    BY <1>1, <1>4, <2>1, <2>3, StepKeepsMirror
<1> QED
  BY <1>2, <1>3, <1>4

LEMMA CompressKeepsMirror ==
  ASSUME CacheInv, MirrorInv, Compress
  PROVE  MirrorInv'
<1>1. UNCHANGED <<stack, todo, folders, linked, changes>> /\ pc \in Loading
  BY DEF Compress, Loading, disk
<1>2. PICK m : AddFile(file.entry, Min({m, BufferLength(file.size)}), "compressed",
                       m <= BufferLength(file.size))
  BY DEF Compress
<1> DEFINE length == Min({m, BufferLength(file.size)})
           whole == m <= BufferLength(file.size)
<1>3. AddFile(file.entry, length, "compressed", whole)
  BY <1>2
<1> HIDE DEF length, whole
<1> QED
  BY <1>1, <1>3, LoadedKeepsMirror

\* A file taken from what is to come is added, or about to be loaded.
LEMMA VisitedFileMoves ==
  ASSUME CacheInv, MirrorInv, NEW f \in Files, Visit(f),
         UNCHANGED <<stack, folders, linked, changes>>, pc' \in {"fill"} \cup Loading,
         \A d \in Folders : d # Current => files'[d] = files[d],
         FilesIn(Current)' \cup (IF pc' \in Loading THEN {file'.entry} ELSE {})
           = FilesIn(Current) \cup {f}
  PROVE  MirrorInv'
<1>1. /\ Types /\ LessToDo /\ pc = "fill" /\ pc \notin Loading /\ f \notin Folders
      /\ Current' = Current
      /\ f \in todo[Current] /\ todo'[Current] = todo[Current] \ {f}
      /\ \A d \in Folders : d # Current => todo'[d] = todo[d]
  BY VisitTakes, TreeAssumption DEF CacheInv, Loading, Current
<1>2. OthersStay
  BY <1>1 DEF OthersStay
<1>3. FilesSeen(Current)' = FilesSeen(Current)
  <2>1. FilesSeen(Current) = FilesIn(Current) \cup (todo[Current] \cap Files)
    BY <1>1 DEF FilesSeen
  <2>2. FilesSeen(Current)' = FilesIn(Current) \cup {f} \cup (todo'[Current] \cap Files)
    BY <1>1 DEF FilesSeen
  <2> QED
    BY <1>1, <2>1, <2>2
<1>4. todo'[Current] \cap Folders = todo[Current] \cap Folders
  BY <1>1
<1>5. AllSeen => Seen(Current)'
  BY <1>1, <1>2, <1>3, <1>4, FileMoves
<1>6. pc # "exited" /\ pc' # "done"
  BY <1>1 DEF Loading
<1> QED
  BY <1>1, <1>2, <1>5, <1>6, StepKeepsMirror

LEMMA LeaveOutKeepsMirror ==
  ASSUME CacheInv, MirrorInv, NEW f \in Files, LeaveOut(f)
  PROVE  MirrorInv'
<1>1. /\ Visit(f) /\ UNCHANGED <<stack, folders, linked, changes>>
      /\ AddFile(f, AsInt(size[f]), "not_loaded", FALSE) /\ pc' = "fill"
      /\ pc' \notin Loading
  BY DEF LeaveOut, AddFile, disk, Loading
<1>2. Types
  BY DEF CacheInv
<1>3. /\ FilesIn(Current)' = FilesIn(Current) \cup {f}
      /\ \A d \in Folders : d # Current => files'[d] = files[d]
  BY <1>1, <1>2, AddFileFills
<1> QED
  BY <1>1, <1>3, VisitedFileMoves

LEMMA BeginLoadKeepsMirror ==
  ASSUME CacheInv, MirrorInv, NEW f \in Files, BeginLoad(f)
  PROVE  MirrorInv'
<1>1. /\ Visit(f) /\ UNCHANGED <<stack, files, folders, linked, changes>>
      /\ file' = [entry |-> f, size |-> AsInt(size[f])]
      /\ pc' \in Loading
  BY DEF BeginLoad, disk, Loading
<1>2. FilesIn(Current)' = FilesIn(Current)
  BY <1>1 DEF FilesIn, Current
<1>3. file'.entry = f
  BY <1>1
<1> QED
  BY <1>1, <1>2, <1>3, VisitedFileMoves

\* An entry that has vanished is not missed.
LEMMA SkipVanishedKeepsMirror ==
  ASSUME CacheInv, MirrorInv, NEW e \in Entries, SkipVanished(e)
  PROVE  MirrorInv'
<1>1. /\ Visit(e) /\ ~ Exists(e) /\ UNCHANGED <<pc, stack, files, folders, linked, changes>>
  BY DEF SkipVanished, disk
<1>2. /\ LessToDo /\ pc = "fill"
      /\ \A d \in Folders : d # Current => todo'[d] = todo[d]
  BY <1>1, VisitTakes
<1>3. OthersStay
  BY <1>1, <1>2 DEF OthersStay
<1>4. /\ Current \in Folders /\ OnStack(Current) /\ Current' = Current
      /\ \A d : OnStack(d)' <=> OnStack(d)
      /\ todo'[Current] = todo[Current] \ {e}
  BY <1>1, VisitTakes, CurrentIsLast DEF CacheInv, Current, OnStack
<1>5. ASSUME AllSeen PROVE Seen(Current)'
  <2>1. Seen(Current)
    BY <1>2, <1>4, <1>5 DEF AllSeen, Begun
  <2>2. FilesSeen(Current) \ {e} \subseteq FilesSeen(Current)'
        /\ FilesSeen(Current)' \subseteq FilesSeen(Current)
    BY <1>1, <1>2, <1>4 DEF FilesSeen, FilesIn, Loading
  <2>3. FoldersSeen(Current) \ {e} \subseteq FoldersSeen(Current)'
        /\ FoldersSeen(Current)' \subseteq FoldersSeen(Current)
    BY <1>1, <1>4 DEF FoldersSeen, ToSet
  <2>4. /\ Children(Current)' = Children(Current)
        /\ \A x : Exists(x)' = Exists(x)
    BY <1>1, <1>4, ExistsAre DEF Children
  <2> QED
    BY <1>1, <1>4, <2>1, <2>2, <2>3, <2>4 DEF Seen
<1> QED
  BY <1>1, <1>2, <1>3, <1>5, StepKeepsMirror

\* The folder moves from what is to come to the stack.
LEMMA EnterFolderKeepsMirror ==
  ASSUME CacheInv, MirrorInv, NEW e \in Folders, EnterFolder(e)
  PROVE  MirrorInv'
<1>1. /\ Visit(e) /\ pc' = "count" /\ UNCHANGED <<files, folders, linked, changes>>
  BY DEF EnterFolder, disk
<1>2. /\ LessToDo /\ pc = "fill" /\ Parent[e] = Current
      /\ e \in todo[Current] /\ todo'[Current] = todo[Current] \ {e}
      /\ \A d \in Folders : d # Current => todo'[d] = todo[d]
  BY <1>1, VisitTakes
<1>3. e # Root /\ Current' = e
  BY FolderEntered
<1>4. \A d : OnStack(d)' <=> OnStack(d) \/ d = e
  BY FolderEntered
<1>5. Types /\ ListedInv /\ e \notin Files /\ \A d : ToSet(folders[d])' = ToSet(folders[d])
  BY <1>1, TreeAssumption DEF CacheInv, MirrorInv, ToSet
<1>6. ListedInv'
  <2> SUFFICES ASSUME NEW d \in Folders, NEW c \in ToSet(folders[d])
               PROVE  /\ c # Root /\ Parent[c] = d
                      /\ c \notin todo'[d] /\ ~ OnStack(c)' /\ todo'[c] = {}
    BY <1>5 DEF ListedInv
  <2>1. c # Root /\ Parent[c] = d /\ c \notin todo[d] /\ ~ OnStack(c) /\ todo[c] = {}
    BY <1>5 DEF ListedInv
  <2>2. c \in Folders /\ c # e
    BY <1>2, <1>5, <2>1, RangeInFolders
  <2> QED
    BY <1>2, <1>4, <2>1, <2>2 DEF LessToDo
<1>7. ASSUME AllSeen, NEW d \in Folders, Begun(d)' PROVE Seen(d)'
  <2>1. d # e /\ (OnStack(d)' \/ InParent(d)')
    BY <1>1, <1>3, <1>7 DEF Begun
  <2>2. Begun(d)
    BY <1>1, <1>2, <1>4, <2>1 DEF Begun, InParent
  <2>3. Seen(d)
    BY <1>7, <2>2 DEF AllSeen
  <2>4. todo'[d] \cap Files = todo[d] \cap Files
    BY <1>2, <1>5
  <2>5. FilesSeen(d)' = FilesSeen(d)
    BY <1>1, <1>2, <2>4 DEF FilesSeen, FilesIn, Loading
  <2>6. FoldersSeen(d)' = FoldersSeen(d)
    <3>1. CASE d = Current
      BY <1>2, <1>3, <1>4, <1>5, <3>1 DEF FoldersSeen
    <3>2. CASE d # Current
      BY <1>2, <1>4, <1>5, <3>2 DEF FoldersSeen
    <3> QED
      BY <3>1, <3>2
  <2>7. Children(d)' = Children(d) /\ \A x : Exists(x)' = Exists(x)
    BY <1>1, ExistsAre DEF Children
  <2> QED
    BY <2>3, <2>5, <2>6, <2>7 DEF Seen
<1> QED
  BY <1>1, <1>2, <1>6, <1>7 DEF MirrorInv, AllSeen

\* The folder moves from the stack to the subfolders of its parent.
LEMMA LeaveSubfolderKeepsMirror ==
  ASSUME CacheInv, MirrorInv, pc = "fill", todo[Current] = {}, Current # Root,
         folders' = AddFolder(Current), stack' = Front(stack),
         UNCHANGED <<pc, todo, files, linked, changes>>
  PROVE  MirrorInv'
<1> DEFINE c == Current
           up == Parent[Current]
<1>1. Types /\ ListedInv /\ c \in Folders /\ OnStack(c)
  BY CurrentIsLast DEF CacheInv, MirrorInv
<1>2. /\ up \in Folders /\ Current' = up
      /\ folders'[up] = Append(folders[up], c)
      /\ \A d \in Folders : d # up => folders'[d] = folders[d]
  BY FolderLeft
<1>3. \A d : OnStack(d)' <=> OnStack(d) /\ d # c
  BY FolderLeft
<1>4. c # Root /\ c \notin todo[up] /\ todo[c] = {}
  BY <1>1 DEF CacheInv, EnteredOnce, Touched
<1> HIDE DEF c, up
<1>5. /\ ToSet(folders'[up]) = ToSet(folders[up]) \cup {c}
      /\ \A d \in Folders : d # up => ToSet(folders'[d]) = ToSet(folders[d])
  <2>1. ASSUME NEW s \in Seq(Folders) PROVE ToSet(Append(s, c)) = ToSet(s) \cup {c}
    <3> DEFINE n == Len(s)
    <3>1. n \in Nat /\ DOMAIN s = 1..n /\ DOMAIN Append(s, c) = 1..(n + 1)
      OBVIOUS
    <3>2. Append(s, c)[n + 1] = c /\ \A i \in 1..n : Append(s, c)[i] = s[i]
      OBVIOUS
    <3> HIDE DEF n
    <3>3. /\ n + 1 \in 1..(n + 1) /\ \A i \in 1..n : i \in 1..(n + 1)
          /\ \A i \in 1..(n + 1) : i = n + 1 \/ i \in 1..n
      BY <3>1
    <3> QED
      BY <3>1, <3>2, <3>3 DEF ToSet
  <2>2. folders[up] \in Seq(Folders)
    BY <1>1, <1>2 DEF Types
  <2> QED
    BY <1>2, <2>1, <2>2
<1>6. \A d : ToSet(folders[d])' = ToSet(folders'[d])
  BY DEF ToSet
<1>7. ListedInv'
  <2> SUFFICES ASSUME NEW d \in Folders, NEW s \in ToSet(folders'[d])
               PROVE  /\ s # Root /\ Parent[s] = d
                      /\ s \notin todo[d] /\ ~ OnStack(s)' /\ todo[s] = {}
    BY <1>6 DEF ListedInv
  <2>1. s \in ToSet(folders[d]) \/ (s = c /\ d = up)
    BY <1>5
  <2>2. CASE s \in ToSet(folders[d])
    BY <1>1, <1>3, <2>2 DEF ListedInv
  <2>3. CASE s = c /\ d = up
    BY <1>3, <1>4, <2>3 DEF c, up
  <2> QED
    BY <2>1, <2>2, <2>3
<1>8. ASSUME AllSeen, NEW d \in Folders, Begun(d)' PROVE Seen(d)'
  <2>1. InParent(d)' => InParent(d) \/ d = c
    <3>1. ASSUME InParent(d)' PROVE d # Root /\ d \in ToSet(folders'[Parent[d]])
      BY <3>1, <1>6 DEF InParent
    <3> QED
      BY <3>1, <1>5, FolderIsEntry DEF InParent
  <2>2. Begun(d)
    BY <1>1, <1>3, <1>8, <2>1 DEF Begun
  <2>3. Seen(d)
    BY <1>8, <2>2 DEF AllSeen
  <2>4. FilesSeen(d)' = FilesSeen(d)
    BY DEF FilesSeen, FilesIn, Loading
  <2>5. FoldersSeen(d)' = FoldersSeen(d)
    <3>1. CASE d = up
      <4>1. {s \in Folders \ {Root} : OnStack(s) /\ Parent[s] = d}
              = {s \in Folders \ {Root} : OnStack(s)' /\ Parent[s] = d} \cup {c}
        BY <1>1, <1>3, <1>4, <3>1 DEF c, up
      <4> QED
        BY <1>5, <1>6, <3>1, <4>1 DEF FoldersSeen
    <3>2. CASE d # up
      <4>1. {s \in Folders \ {Root} : OnStack(s) /\ Parent[s] = d}
              = {s \in Folders \ {Root} : OnStack(s)' /\ Parent[s] = d}
        BY <1>3, <3>2 DEF c, up
      <4> QED
        BY <1>5, <1>6, <3>2, <4>1 DEF FoldersSeen
    <3> QED
      BY <3>1, <3>2
  <2>6. Children(d)' = Children(d) /\ \A x : Exists(x)' = Exists(x)
    BY ExistsAre DEF Children
  <2> QED
    BY <2>3, <2>4, <2>5, <2>6 DEF Seen
<1> QED
  BY <1>7, <1>8 DEF MirrorInv, AllSeen

LEMMA LeaveFolderKeepsMirror ==
  ASSUME CacheInv, MirrorInv, LeaveFolder
  PROVE  MirrorInv'
<1>1. /\ pc = "fill" /\ todo[Current] = {}
      /\ UNCHANGED <<todo, files, file, linked, changes>>
  BY DEF LeaveFolder, disk
<1>2. CASE Current = Root
  <2>1. pc' = "done" /\ UNCHANGED <<stack, folders>>
    BY <1>2 DEF LeaveFolder
  <2>2. Types /\ ListedInv /\ LessToDo /\ OthersStay
    BY <1>1, <2>1 DEF CacheInv, MirrorInv, LessToDo, OthersStay
  <2>3. ListedInv' /\ \A d \in Folders : InParent(d)' <=> InParent(d)
    BY <2>1, <2>2, ListedStay
  <2>4. FilesSeen(Current)' = FilesSeen(Current)
    BY <1>1, <2>1 DEF FilesSeen, FilesIn, Current, Loading
  <2>5. ASSUME AllSeen PROVE AllSeen'
    <3>1. Seen(Current)'
      BY <1>1, <2>2, <2>4, <2>5, FileMoves
    <3> QED
      BY <1>1, <2>2, <2>3, <2>5, <3>1, OthersStaySeen
  <2>6. Current' = Root /\ todo'[Root] = {}
    BY <1>1, <1>2, <2>1 DEF Current
  <2> QED
    BY <1>1, <2>1, <2>3, <2>5, <2>6 DEF MirrorInv
<1>3. CASE Current # Root
  <2>1. folders' = AddFolder(Current) /\ stack' = Front(stack) /\ UNCHANGED pc
    BY <1>3 DEF LeaveFolder
  <2> QED
    BY <1>1, <1>3, <2>1, LeaveSubfolderKeepsMirror
<1> QED
  BY <1>2, <1>3

LEMMA BuildKeepsMirror ==
  ASSUME CacheInv, MirrorInv, Build
  PROVE  MirrorInv'
<1>1. CASE \E e \in Entries : SkipVanished(e) \/ StatFails(e)
  BY <1>1, SkipVanishedKeepsMirror, ExitKeepsMirror DEF StatFails
<1>2. CASE \E f \in Files : LeaveOut(f) \/ MallocFails(f) \/ BeginLoad(f)
  BY <1>2, LeaveOutKeepsMirror, BeginLoadKeepsMirror, ExitKeepsMirror DEF MallocFails
<1>3. CASE \E d \in Folders : EnterFolder(d)
  BY <1>3, EnterFolderKeepsMirror
<1>4. CASE ReadFails
  BY <1>4, ExitKeepsMirror DEF ReadFails
<1> QED
  BY <1>1, <1>2, <1>3, <1>4, CountKeepsMirror, RewindKeepsMirror, OpenRawKeepsMirror,
     ReadRawKeepsMirror, CompressKeepsMirror, LeaveFolderKeepsMirror DEF Build

LEMMA DiskKeepsMirror ==
  ASSUME CacheInv, MirrorInv,
         \/ \E f \in Files : Resize(f)
         \/ \E e \in Entries : Vanish(e)
         \/ UNCHANGED vars
  PROVE  MirrorInv'
<1>1. \A e \in Entries : Exists(e)' => Exists(e)
  <2>1. linked' \subseteq linked
    BY DEF Resize, Vanish, vars, disk
  <2> QED
    BY <2>1, ExistsAre, FewerExist
<1>2. AllSeen => AllSeen'
  <2>1. UNCHANGED <<pc, stack, todo, files, folders, file>>
    BY DEF Resize, Vanish, vars, cache
  <2>2. /\ \A d : Begun(d)' <=> Begun(d)
        /\ \A d : /\ FilesSeen(d)' = FilesSeen(d) /\ FoldersSeen(d)' = FoldersSeen(d)
                /\ Children(d)' = Children(d) /\ Children(d) \subseteq Entries
    BY <2>1 DEF OnStack, Begun, InParent, FilesSeen, FoldersSeen, FilesIn, Current, ToSet,
                Children
  <2> QED
    BY <1>1, <2>2 DEF AllSeen, Seen
<1>3. CASE UNCHANGED vars
  <2>1. ListedInv' /\ Current' = Current
    BY <1>3 DEF vars, cache, ListedInv, MirrorInv, OnStack, Current, ToSet
  <2> QED
    BY <1>2, <1>3, <2>1 DEF vars, cache, disk, MirrorInv
<1>4. CASE (\E f \in Files : Resize(f)) \/ (\E e \in Entries : Vanish(e))
  <2>1. /\ UNCHANGED <<pc, stack, todo, folders>> /\ changes' = changes + 1 /\ pc # "done"
    BY <1>4 DEF Resize, Vanish, Building, cache
  <2>2. Types /\ ListedInv /\ LessToDo /\ changes \in Nat
    BY <2>1 DEF CacheInv, MirrorInv, LessToDo
  <2>3. ListedInv'
    BY <2>1, <2>2, ListedStay
  <2> QED
    BY <1>2, <2>1, <2>2, <2>3 DEF MirrorInv
<1> QED
  BY <1>3, <1>4

\* Each entry of a folder whose second reading has begun, and that is still there, is to come,
\* being added, or added.
THEOREM MirrorInvariant == Spec => []MirrorInv
<1>1. CacheInv /\ MirrorInv /\ [Next]_vars => MirrorInv'
  BY BuildKeepsMirror, DiskKeepsMirror DEF Next
<1> QED
  BY <1>1, InitMirrorInv, CacheInvariant, PTL DEF Spec

LEMMA RootAlone ==
  ASSUME CacheInv, Current = Root
  PROVE  \A c : OnStack(c) => c = Root
<1>1. /\ Types /\ StackIsPath /\ Len(stack) \in Nat
      /\ Len(stack) \in 1..Len(stack) /\ stack[Len(stack)] = Root
  <2>1. Types /\ StackIsPath
    BY DEF CacheInv
  <2>2. stack \in Seq(Folders) /\ Len(stack) > 0
    BY <2>1 DEF Types
  <2> QED
    BY <2>1, <2>2, CurrentIsLast
<1>2. stack[1] = Root /\ 1 \in 1..Len(stack)
  BY <1>1 DEF StackIsPath
<1>3. Len(stack) = 1
  BY <1>1, <1>2 DEF StackIsPath
<1> QED
  BY <1>1, <1>2, <1>3 DEF OnStack

\* In the end no folder that is still there is left out: its parent would be left out too, and
\* so on up to the root.
LEMMA EveryFolderBegun ==
  ASSUME CacheInv, MirrorInv, pc = "done", NEW d \in Folders, Exists(d)
  PROVE  /\ Begun(d) /\ todo[d] = {}
         /\ FilesSeen(d) = FilesIn(d) /\ FoldersSeen(d) = ToSet(folders[d])
<1>1. /\ Types /\ StackIsPath /\ ListedInv /\ AllSeen
      /\ Current = Root /\ todo[Root] = {}
  BY DEF CacheInv, MirrorInv
<1>2. \A c : OnStack(c) => c = Root
  BY <1>1, RootAlone
<1>3. OnStack(Root)
  BY <1>1, CurrentIsLast
<1>4. \A c \in Folders : Begun(c) <=> c = Root \/ InParent(c)
  BY <1>2, <1>3 DEF Begun
<1> DEFINE Bad == {c \in Folders \ {Root} : Exists(c) /\ ~ InParent(c)}
<1>5. ASSUME Bad # {} PROVE FALSE
  <2>1. PICK c \in Bad : Parent[c] \notin Bad
    <3>1. Bad \in SUBSET Entries
      BY FolderIsEntry
    <3> HIDE DEF Bad
    <3> QED
      BY <1>5, <3>1, TreeAssumption
  <2> DEFINE up == Parent[c]
  <2>2. c \in Entries /\ up \in Folders /\ c \in Children(up) /\ c \in Folders /\ c \notin Files
    BY <2>1, FolderIsEntry, TreeAssumption DEF Children
  <2>3. Exists(c) /\ Exists(up)
    BY <2>1, <2>2, ExistsAre, ExistsUp
  <2>4. up = Root \/ InParent(up)
    BY <2>1, <2>2, <2>3
  <2>5. c \in FoldersSeen(up)
    BY <1>1, <1>4, <2>2, <2>3, <2>4 DEF AllSeen, Seen
  <2>6. todo[up] = {}
    BY <1>1, <2>2, <2>4, FolderIsEntry DEF ListedInv, InParent
  <2>7. ~ OnStack(c)
    BY <1>2, <2>1
  <2>8. c \in ToSet(folders[up])
    BY <2>2, <2>5, <2>6, <2>7 DEF FoldersSeen
  <2> QED
    BY <2>1, <2>8 DEF InParent
<1>6. d = Root \/ InParent(d)
  BY <1>5
<1>7. Begun(d)
  BY <1>4, <1>6
<1>8. todo[d] = {}
  BY <1>1, <1>6, FolderIsEntry DEF ListedInv, InParent
<1>9. FilesSeen(d) = FilesIn(d)
  BY <1>8 DEF FilesSeen, Loading
<1>10. FoldersSeen(d) = ToSet(folders[d])
  BY <1>2, <1>8 DEF FoldersSeen
<1> QED
  BY <1>7, <1>8, <1>9, <1>10

\* For every tree: a disk that does not change while it is read is in the cache entry for
\* entry, and the space in use is that of the contents.
THEOREM DiskIsAlwaysMirrored == Spec => []DiskIsMirrored
<1>1. ASSUME CacheInv, MirrorInv, pc = "done", changes = 0, NEW d \in Folders
      PROVE  /\ {files[d][i].entry : i \in DOMAIN files[d]} = Children(d) \cap Files
             /\ ToSet(folders[d]) = Children(d) \cap Folders
  <2>1. \A e \in Entries \cup {Root} : Exists(e)
    BY <1>1, AllExist DEF MirrorInv
  <2>2. Exists(d)
    BY <2>1, FolderIsEntry
  <2>3. /\ Seen(d)
        /\ FilesSeen(d) = FilesIn(d) /\ FoldersSeen(d) = ToSet(folders[d])
    BY <1>1, <2>2, EveryFolderBegun DEF MirrorInv, AllSeen
  <2>4. Children(d) \subseteq FilesIn(d) \cup ToSet(folders[d])
    BY <2>1, <2>3 DEF Seen, Children
  <2> QED
    BY <2>3, <2>4, TreeAssumption DEF Seen, FilesIn
<1>2. CacheInv /\ MirrorInv /\ SpaceInv => DiskIsMirrored
  BY <1>1 DEF DiskIsMirrored, SpaceInv
<1> QED
  BY <1>2, CacheInvariant, MirrorInvariant, SpaceInvariant, PTL

----------------------------------------------------------------------------
(***************************************************************************)
(* Sequences one after the other, as FlattenSeq() puts them.               *)
(***************************************************************************)

LEMMA ConcatFacts ==
  ASSUME NEW X, NEW s \in Seq(X), NEW t \in Seq(X)
  PROVE  /\ s \o t \in Seq(X) /\ ToSet(s \o t) = ToSet(s) \cup ToSet(t)
         /\ IsInjective(s) /\ IsInjective(t) /\ ToSet(s) \cap ToSet(t) = {}
              => IsInjective(s \o t)
<1> DEFINE m == Len(s)
           n == Len(t)
           u == s \o t
<1>1. m \in Nat /\ n \in Nat /\ DOMAIN s = 1..m /\ DOMAIN t = 1..n
  OBVIOUS
<1>2. u \in Seq(X) /\ DOMAIN u = 1..(m + n)
  OBVIOUS
<1>3. \A i \in 1..(m + n) : u[i] = IF i <= m THEN s[i] ELSE t[i - m]
  OBVIOUS
<1> HIDE DEF m, n, u
<1>4. /\ \A i \in 1..m : i \in 1..(m + n) /\ u[i] = s[i]
      /\ \A j \in 1..n : m + j \in 1..(m + n) /\ u[m + j] = t[j]
      /\ \A i \in 1..(m + n) : i \in 1..m \/ (i - m \in 1..n /\ i = m + (i - m))
  <2>1. ASSUME NEW j \in 1..n PROVE m + j \in 1..(m + n) /\ u[m + j] = t[j]
    <3>1. m + j \in 1..(m + n) /\ ~ (m + j <= m) /\ (m + j) - m = j
      BY <1>1
    <3> QED
      BY <3>1, <1>3
  <2>2. \A i \in 1..m : i \in 1..(m + n) /\ u[i] = s[i]
    BY <1>1, <1>3
  <2>3. \A i \in 1..(m + n) : i \in 1..m \/ (i - m \in 1..n /\ i = m + (i - m))
    BY <1>1
  <2> QED
    BY <2>1, <2>2, <2>3
<1>5. ASSUME NEW i \in 1..(m + n)
      PROVE  (i \in 1..m /\ u[i] = s[i]) \/ (\E j \in 1..n : i = m + j /\ u[i] = t[j])
  BY <1>4
<1>6. ToSet(u) = ToSet(s) \cup ToSet(t)
  <2>1. ASSUME NEW x \in ToSet(u) PROVE x \in ToSet(s) \cup ToSet(t)
    BY <1>1, <1>2, <1>5 DEF ToSet
  <2>2. ASSUME NEW x \in ToSet(s) PROVE x \in ToSet(u)
    <3>1. PICK i \in 1..m : x = s[i]
      BY <1>1, <2>2 DEF ToSet
    <3>2. i \in 1..(m + n) /\ u[i] = x
      BY <1>4, <3>1
    <3> QED
      BY <1>2, <3>2 DEF ToSet
  <2>3. ASSUME NEW x \in ToSet(t) PROVE x \in ToSet(u)
    <3>1. PICK j \in 1..n : x = t[j]
      BY <1>1, <2>3 DEF ToSet
    <3>2. m + j \in 1..(m + n) /\ u[m + j] = x
      BY <1>4, <3>1
    <3> QED
      BY <1>2, <3>2 DEF ToSet
  <2> QED
    BY <2>1, <2>2, <2>3
<1>7. ASSUME IsInjective(s), IsInjective(t), ToSet(s) \cap ToSet(t) = {}
      PROVE  IsInjective(u)
  <2> SUFFICES ASSUME NEW i \in 1..(m + n), NEW j \in 1..(m + n), u[i] = u[j]
               PROVE  i = j
    BY <1>2 DEF IsInjective
  <2>1. \A k \in 1..m, l \in 1..n : s[k] # t[l]
    BY <1>1, <1>7 DEF ToSet
  <2>2. CASE i \in 1..m /\ j \in 1..m
    BY <1>1, <1>4, <1>7, <2>2 DEF IsInjective
  <2>3. CASE i \in 1..m /\ j \notin 1..m
    BY <1>4, <1>5, <2>1, <2>3
  <2>4. CASE i \notin 1..m /\ j \in 1..m
    BY <1>4, <1>5, <2>1, <2>4
  <2>5. CASE i \notin 1..m /\ j \notin 1..m
    <3>1. PICK k \in 1..n : i = m + k /\ u[i] = t[k]
      BY <1>5, <2>5
    <3>2. PICK l \in 1..n : j = m + l /\ u[j] = t[l]
      BY <1>5, <2>5
    <3> QED
      BY <1>1, <1>7, <3>1, <3>2 DEF IsInjective
  <2> QED
    BY <2>2, <2>3, <2>4, <2>5
<1> QED
  BY <1>2, <1>6, <1>7 DEF u

\* What holds of 1, and of the next number with each, holds up to n.
Climbs(S, n) == 1 \in S /\ \A k \in S : k + 1 \in 1..n => k + 1 \in S

LEMMA UpToEnd ==
  ASSUME NEW n \in Nat, NEW S, Climbs(S, n)
  PROVE  \A k \in 1..n : k \in S
<1> DEFINE Bad == {k \in 1..n : k \notin S}
<1>1. ASSUME Bad # {} PROVE FALSE
  <2>1. PICK k \in Bad : \A j \in Bad : k <= j
    <3>1. Bad \in SUBSET Nat
      OBVIOUS
    <3> HIDE DEF Bad
    <3> QED
      BY <1>1, <3>1, LeastNatural
  <2>2. k \in 1..n /\ k # 1
    BY DEF Climbs
  <2>3. k - 1 \in 1..n /\ (k - 1) + 1 = k /\ ~ (k <= k - 1)
    BY <2>2
  <2>4. k - 1 \in S
    BY <2>1, <2>3
  <2> QED
    BY <2>2, <2>3, <2>4 DEF Climbs
<1> QED
  BY <1>1

Flattens(g, s) ==
  g = [i \in 1..Len(s) |-> IF i = 1 THEN s[i] ELSE g[i - 1] \o s[i]]

LEMMA FlattenExists ==
  ASSUME NEW s, Len(s) \in Nat
  PROVE  \E g : Flattens(g, s)
<1> DEFINE n == Len(s)
           Prefix(g, k) ==
             g = [i \in 1..k |-> IF i = 1 THEN s[i] ELSE g[i - 1] \o s[i]]
           S == {k \in 1..n : \E g : Prefix(g, k)}
<1> HIDE DEF n
<1>1. n \in Nat
  BY DEF n
<1>2. CASE n = 0
  <2> DEFINE g == [i \in 1..n |-> s[i]]
  <2>1. 1..n = {}
    BY <1>2
  <2>2. g = [i \in 1..n |-> IF i = 1 THEN s[i] ELSE g[i - 1] \o s[i]]
    BY <2>1
  <2> HIDE DEF g
  <2> QED
    BY <2>2 DEF Flattens, n
<1>3. CASE n # 0
  <2>1. 1 \in S
    <3> DEFINE g == [i \in 1..1 |-> s[i]]
    <3>1. \A i \in 1..1 : i = 1
      OBVIOUS
    <3>2. Prefix(g, 1)
      BY <3>1
    <3>3. 1 \in 1..n
      BY <1>1, <1>3
    <3> HIDE DEF g, Prefix
    <3> QED
      BY <3>2, <3>3
  <2>2. ASSUME NEW k \in S, k + 1 \in 1..n PROVE k + 1 \in S
    <3>1. PICK g : Prefix(g, k)
      OBVIOUS
    <3>2. k \in Nat /\ k > 0
      OBVIOUS
    <3> DEFINE h == [i \in 1..(k + 1) |-> IF i = k + 1 THEN g[k] \o s[k + 1] ELSE g[i]]
    <3>3. \A i \in 1..(k + 1) : i # k + 1 => i \in 1..k /\ (i # 1 => i - 1 \in 1..k)
      BY <3>2
    <3>4. \A i \in 1..k : i \in 1..(k + 1) /\ i # k + 1
      BY <3>2
    <3>5. \A i \in 1..k : h[i] = g[i] /\ g[i] = IF i = 1 THEN s[i] ELSE g[i - 1] \o s[i]
      BY <3>1, <3>4
    <3>6. ASSUME NEW i \in 1..(k + 1)
          PROVE  h[i] = IF i = 1 THEN s[i] ELSE h[i - 1] \o s[i]
      <4>1. CASE i = k + 1
        <5>1. i # 1 /\ i - 1 = k /\ k \in 1..k
          BY <3>2, <4>1
        <5> QED
          BY <3>5, <4>1, <5>1
      <4>2. CASE i # k + 1
        <5>1. i \in 1..k /\ (i # 1 => i - 1 \in 1..k)
          BY <3>3, <4>2
        <5> HIDE DEF h
        <5> QED
          BY <3>5, <5>1
      <4> QED
        BY <4>1, <4>2
    <3>7. h = [i \in 1..(k + 1) |-> h[i]]
      OBVIOUS
    <3> HIDE DEF h
    <3>8. Prefix(h, k + 1)
      BY <3>6, <3>7
    <3> HIDE DEF Prefix
    <3> QED
      BY <2>2, <3>8
  <2>3. n \in S
    <3>1. Climbs(S, n)
      <4> HIDE DEF S
      <4> QED
        BY <2>1, <2>2 DEF Climbs
    <3>2. n \in 1..n
      BY <1>1, <1>3
    <3> HIDE DEF S
    <3> QED
      BY <1>1, <3>1, <3>2, UpToEnd
  <2> QED
    BY <2>3 DEF Flattens, n
<1> QED
  BY <1>2, <1>3

\* Sequences without repetition that have nothing in common.
Apart(s) ==
  \A i \in DOMAIN s :
    /\ IsInjective(s[i])
    /\ \A j \in DOMAIN s : i # j => ToSet(s[i]) \cap ToSet(s[j]) = {}

LEMMA FlattenFacts ==
  ASSUME NEW X, NEW s \in Seq(Seq(X))
  PROVE  /\ FlattenSeq(s) \in Seq(X)
         /\ \A x : x \in ToSet(FlattenSeq(s)) <=> \E i \in DOMAIN s : x \in ToSet(s[i])
         /\ Apart(s) => IsInjective(FlattenSeq(s))
<1> DEFINE n == Len(s)
<1>1. n \in Nat /\ DOMAIN s = 1..n /\ \A i \in 1..n : s[i] \in Seq(X)
  OBVIOUS
<1>2. CASE n = 0
  <2>1. s = <<>> /\ FlattenSeq(s) = <<>>
    BY <1>2 DEF FlattenSeq
  <2>2. <<>> \in Seq(X) /\ DOMAIN s = {} /\ IsInjective(<<>>)
    BY <2>1 DEF IsInjective
  <2>3. \A x : x \notin ToSet(<<>>)
    BY DEF ToSet
  <2> QED
    BY <2>1, <2>2, <2>3
<1>3. CASE n # 0
  <2> DEFINE F(g) == [i \in 1..n |-> IF i = 1 THEN s[i] ELSE g[i - 1] \o s[i]]
             f == CHOOSE g : g = F(g)
  <2>1. FlattenSeq(s) = f[n]
    BY <1>3 DEF FlattenSeq
  <2>2. \E g : g = F(g)
    BY <1>1, FlattenExists DEF Flattens
  <2>3. f = F(f)
    <3> HIDE DEF F
    <3> QED
      BY <2>2
  <2> HIDE DEF f, n
  <2>4. \A i \in 1..n : f[i] = IF i = 1 THEN s[i] ELSE f[i - 1] \o s[i]
    BY <2>3
  <2> HIDE DEF F
  <2> DEFINE Good(k) ==
               /\ f[k] \in Seq(X)
               /\ \A x : x \in ToSet(f[k]) <=> \E i \in 1..k : x \in ToSet(s[i])
               /\ Apart(s) => IsInjective(f[k])
             S == {k \in 1..n : Good(k)}
  <2>5. 1 \in S
    <3>1. 1 \in 1..n /\ f[1] = s[1]
      BY <1>1, <1>3, <2>4
    <3>2. \A i \in 1..1 : i = 1
      OBVIOUS
    <3>3. 1 \in 1..1
      OBVIOUS
    <3>4. Apart(s) => IsInjective(s[1])
      BY <1>1, <3>1 DEF Apart
    <3>5. Good(1)
      BY <1>1, <3>1, <3>2, <3>3, <3>4
    <3> QED
      BY <3>1, <3>5
  <2>6. ASSUME NEW k \in S, k + 1 \in 1..n PROVE k + 1 \in S
    <3>1. k \in 1..n /\ k \in Nat /\ Good(k)
      BY <1>1
    <3>2. f[k + 1] = f[k] \o s[k + 1] /\ s[k + 1] \in Seq(X)
      <4>1. k + 1 # 1 /\ (k + 1) - 1 = k
        BY <3>1
      <4> QED
        BY <1>1, <2>4, <2>6, <4>1
    <3>3. /\ f[k + 1] \in Seq(X) /\ ToSet(f[k + 1]) = ToSet(f[k]) \cup ToSet(s[k + 1])
          /\ IsInjective(f[k]) /\ IsInjective(s[k + 1]) /\ ToSet(f[k]) \cap ToSet(s[k + 1]) = {}
               => IsInjective(f[k + 1])
      BY <3>1, <3>2, ConcatFacts
    <3>4. \A i : i \in 1..(k + 1) <=> i \in 1..k \/ i = k + 1
      BY <3>1
    <3>5. \A x : x \in ToSet(f[k + 1]) <=> \E i \in 1..(k + 1) : x \in ToSet(s[i])
      BY <3>1, <3>3, <3>4
    <3>6. ASSUME Apart(s) PROVE IsInjective(f[k + 1])
      <4>1. \A i \in 1..k : i \in 1..n /\ i # k + 1
        BY <1>1, <3>1
      <4>2. \A i \in 1..k : ToSet(s[i]) \cap ToSet(s[k + 1]) = {}
        BY <1>1, <2>6, <3>6, <4>1 DEF Apart
      <4>3. IsInjective(s[k + 1])
        BY <1>1, <2>6, <3>6 DEF Apart
      <4> QED
        BY <3>1, <3>3, <3>6, <4>2, <4>3
    <3> QED
      BY <2>6, <3>3, <3>5, <3>6
  <2>7. n \in S
    <3>1. Climbs(S, n)
      <4> HIDE DEF S
      <4> QED
        BY <2>5, <2>6 DEF Climbs
    <3>2. n \in 1..n
      BY <1>1, <1>3
    <3> HIDE DEF S
    <3> QED
      BY <1>1, <3>1, <3>2, UpToEnd
  <2> QED
    BY <1>1, <2>1, <2>7
<1> QED
  BY <1>2, <1>3

----------------------------------------------------------------------------
(***************************************************************************)
(* The part of the tree under an entry.                                    *)
(***************************************************************************)

AllEntries == Entries \cup {Root}

Closed(S) == \A e \in Entries : Parent[e] \in S => e \in S

Under(d) == {x \in AllEntries : \A S \in SUBSET AllEntries : d \in S /\ Closed(S) => x \in S}

LEMMA UnderIsLeast ==
  ASSUME NEW d \in AllEntries
  PROVE  /\ d \in Under(d) /\ Under(d) \in SUBSET AllEntries /\ Closed(Under(d))
         /\ \A S \in SUBSET AllEntries : d \in S /\ Closed(S) => Under(d) \subseteq S
<1>1. d \in Under(d) /\ Under(d) \in SUBSET AllEntries
  BY DEF Under
<1>2. ASSUME NEW e \in Entries, Parent[e] \in Under(d) PROVE e \in Under(d)
  <2>1. e \in AllEntries
    BY DEF AllEntries
  <2> QED
    BY <1>2, <2>1 DEF Under, Closed
<1>3. \A S \in SUBSET AllEntries : d \in S /\ Closed(S) => Under(d) \subseteq S
  BY DEF Under
<1> QED
  BY <1>1, <1>2, <1>3 DEF Closed

LEMMA UnderIsReached ==
  ASSUME NEW d \in AllEntries, NEW x \in Under(d), x # d
  PROVE  x \in Entries /\ Parent[x] \in Under(d)
<1> SUFFICES ASSUME ~ (x \in Entries /\ Parent[x] \in Under(d)) PROVE FALSE
  OBVIOUS
<1> DEFINE S == Under(d) \ {x}
<1>1. d \in S /\ S \in SUBSET AllEntries
  BY UnderIsLeast
<1>2. Closed(S)
  BY UnderIsLeast DEF Closed
<1>3. Under(d) \subseteq S
  <2> HIDE DEF S
  <2> QED
    BY <1>1, <1>2, UnderIsLeast
<1> QED
  BY <1>3

LEMMA ParentIsNotUnder ==
  ASSUME NEW e \in Entries
  PROVE  Parent[e] \notin Under(e)
<1> SUFFICES ASSUME Parent[e] \in Under(e) PROVE FALSE
  OBVIOUS
<1>1. e \in AllEntries /\ e \in Under(e) /\ Under(e) \in SUBSET AllEntries /\ e # Root
  BY UnderIsLeast, TreeAssumption DEF AllEntries, Entries
<1>2. Root \notin Entries
  BY TreeAssumption DEF Entries
<1>3. \A x \in Under(e) : x \in Entries /\ Parent[x] \in Under(e)
  BY <1>1, UnderIsReached
<1>4. Under(e) \in SUBSET Entries /\ Under(e) # {}
  BY <1>1, <1>3
<1> QED
  BY <1>3, <1>4, TreeAssumption

LEMMA SiblingsAreApart ==
  ASSUME NEW e \in Entries, NEW f \in Entries, e # f, Parent[e] = Parent[f]
  PROVE  Under(e) \cap Under(f) = {}
<1> DEFINE Bad == Under(e) \cap Under(f)
<1>1. /\ e \in AllEntries /\ f \in AllEntries
      /\ e \in Under(e) /\ f \in Under(f)
  BY UnderIsLeast DEF AllEntries
<1>2. e \notin Under(f) /\ f \notin Under(e)
  BY <1>1, UnderIsReached, ParentIsNotUnder
<1>3. \A x \in Bad : x \in Entries /\ Parent[x] \in Bad
  BY <1>1, <1>2, UnderIsReached
<1>4. Bad \in SUBSET Entries
  BY <1>3
<1> HIDE DEF Bad
<1>5. Bad = {}
  BY <1>3, <1>4, TreeAssumption
<1> QED
  BY <1>5 DEF Bad

LEMMA ChildIsUnder ==
  ASSUME NEW e \in Entries
  PROVE  Under(e) \subseteq Under(Parent[e]) /\ e \in Under(Parent[e])
<1>1. e \in AllEntries /\ Parent[e] \in AllEntries
  BY TreeAssumption DEF AllEntries, Entries
<1>2. /\ Under(Parent[e]) \in SUBSET AllEntries /\ Closed(Under(Parent[e]))
      /\ Parent[e] \in Under(Parent[e])
  BY <1>1, UnderIsLeast
<1>3. e \in Under(Parent[e])
  BY <1>2 DEF Closed
<1> QED
  BY <1>1, <1>2, <1>3, UnderIsLeast

\* Going down from a folder ends too: some folder of a set has no subfolder in it.
LEMMA LowestFolder ==
  ASSUME NEW T \in SUBSET Folders, T # {}
  PROVE  \E d \in T : \A c \in T \ {Root} : Parent[c] # d
<1> DEFINE Endless(S) == S # {} /\ \A d \in S : \E c \in S : Parent[c] = d
           Bad == {S \in SUBSET (Folders \ {Root}) : Endless(S)}
<1>1. ASSUME Bad # {} PROVE FALSE
  <2>1. \A S \in Bad : IsFiniteSet(S)
    <3>1. \A S \in Bad : S \in SUBSET Folders
      OBVIOUS
    <3> HIDE DEF Bad
    <3> QED
      BY <3>1, TreeAssumption, FS_Subset
  <2>2. PICK S \in Bad : \A x \in S : S \ {x} \notin Bad
    <3> HIDE DEF Bad
    <3> QED
      BY <1>1, <2>1, LeastSet
  <2>3. S \in SUBSET Entries /\ S # {} /\ \A d \in S : \E c \in S : Parent[c] = d
    BY FolderIsEntry
  <2>4. PICK e \in S : Parent[e] \notin S
    <3> HIDE DEF Bad
    <3> QED
      BY <2>3, TreeAssumption
  <2>5. Endless(S \ {e})
    <3>1. \A d \in S : \E c \in S \ {e} : Parent[c] = d
      BY <2>3, <2>4
    <3> QED
      BY <2>3, <3>1
  <2>6. S \ {e} \in Bad
    BY <2>5
  <2> QED
    BY <2>2, <2>6
<1> SUFFICES ASSUME \A d \in T : \E c \in T \ {Root} : Parent[c] = d PROVE FALSE
  OBVIOUS
<1>2. T \ {Root} \in Bad
  OBVIOUS
<1> QED
  BY <1>1, <1>2

----------------------------------------------------------------------------
(***************************************************************************)
(* The deletion.                                                           *)
(***************************************************************************)

\* A file of a folder is in its array once, or being loaded, or to come.
FilesOnce(d) ==
  /\ \A i, j \in DOMAIN files[d] : files[d][i].entry = files[d][j].entry => i = j
  /\ FilesIn(d) \subseteq Children(d) \cap Files
  /\ FilesIn(d) \cap todo[d] = {}
  /\ pc \in Loading /\ d = Current =>
       file.entry \in Children(d) /\ file.entry \notin todo[d] \cup FilesIn(d)

\* A folder that something was allocated for is being built, or listed by its parent, once.
FoldersOnce(d) ==
  /\ \A i, j \in DOMAIN folders[d] : folders[d][i] = folders[d][j] => i = j
  /\ room[d].files + room[d].folders > 0 => OnStack(d) \/ InParent(d)

ListsInv == \A d \in Folders : FilesOnce(d) /\ FoldersOnce(d)

EntriesOf(d) == [i \in DOMAIN files[d] |-> files[d][i].entry]

\* g is what recursivelyDeleteFolder() frees, for each folder of D.
Freed(g, d) ==
  <<d>> \o EntriesOf(d) \o FlattenSeq([i \in DOMAIN folders[d] |-> g[folders[d][i]]])
Frees(g, D) == g = [d \in D |-> Freed(g, d)]

LEMMA FreedExists ==
  ASSUME Types, ListedInv
  PROVE  \E g : Frees(g, Folders)
<1> DEFINE Whole(D) == \A d \in D : ToSet(folders[d]) \subseteq D
           Has(D) == Whole(D) /\ \E g : Frees(g, D)
           Bad == {S \in SUBSET Folders : Has(Folders \ S)}
<1>1. Bad # {}
  <2> DEFINE g == [d \in {} |-> d]
  <2>1. Frees(g, {})
    BY DEF Frees
  <2>2. Folders \ Folders = {} /\ Whole({})
    OBVIOUS
  <2> HIDE DEF g
  <2> QED
    BY <2>1, <2>2
<1>2. PICK S \in Bad : \A x \in S : S \ {x} \notin Bad
  <2>1. \A S \in Bad : IsFiniteSet(S)
    <3>1. \A S \in Bad : S \in SUBSET Folders
      OBVIOUS
    <3> HIDE DEF Bad
    <3> QED
      BY <3>1, TreeAssumption, FS_Subset
  <2> HIDE DEF Bad
  <2> QED
    BY <1>1, <2>1, LeastSet
<1>3. CASE S = {}
  BY <1>3
<1>4. CASE S # {}
  <2> DEFINE D == Folders \ S
  <2>1. PICK d \in S : \A c \in S \ {Root} : Parent[c] # d
    <3>1. S \in SUBSET Folders
      OBVIOUS
    <3> HIDE DEF Bad
    <3> QED
      BY <1>4, <3>1, LowestFolder
  <2>2. PICK g : Frees(g, D)
    OBVIOUS
  <2>3. Whole(D) /\ d \notin D /\ d \in Folders
    OBVIOUS
  <2> DEFINE E == D \cup {d}
             h == [x \in E |-> IF x = d THEN Freed(g, d) ELSE g[x]]
  <2>4. E = Folders \ (S \ {d})
    OBVIOUS
  <2>5. \A x \in E : ToSet(folders[x]) \subseteq D
    <3>1. ToSet(folders[d]) \subseteq D
      BY <2>1, <2>3, RangeInFolders DEF ListedInv
    <3> QED
      BY <2>3, <3>1
  <2> HIDE DEF Bad, D
  <2>6. \A c \in D : h[c] = g[c]
    BY <2>3
  <2>7. \A x \in D : g[x] = Freed(g, x)
    BY <2>2 DEF Frees
  <2> HIDE DEF h
  <2>8. ASSUME NEW x \in E PROVE Freed(h, x) = Freed(g, x)
    <3>1. \A i \in DOMAIN folders[x] : h[folders[x][i]] = g[folders[x][i]]
      BY <2>5, <2>6, <2>8 DEF ToSet
    <3>2. [i \in DOMAIN folders[x] |-> h[folders[x][i]]]
            = [i \in DOMAIN folders[x] |-> g[folders[x][i]]]
      BY <3>1
    <3> QED
      BY <3>2 DEF Freed
  <2>9. \A x \in E : h[x] = Freed(h, x)
    BY <2>7, <2>8 DEF h
  <2>10. h = [x \in E |-> h[x]]
    BY DEF h
  <2>11. Frees(h, E)
    BY <2>9, <2>10 DEF Frees
  <2>12. Has(E)
    BY <2>5, <2>11
  <2>13. S \ {d} \in Bad
    <3>1. S \ {d} \in SUBSET Folders
      BY <1>2 DEF Bad
    <3> HIDE DEF E, Has
    <3> QED
      BY <2>4, <2>12, <3>1 DEF Bad
  <2> QED
    BY <1>2, <2>13
<1> QED
  BY <1>3, <1>4

\* The function that recursivelyDeleteFolder() chooses is one.
LEMMA DeletionFrees ==
  ASSUME Types, ListedInv
  PROVE  \E g : Frees(g, Folders) /\ recursivelyDeleteFolder(Root) = g[Root]
<1> DEFINE F(g) == [d \in Folders |-> Freed(g, d)]
           freed == CHOOSE g : g = F(g)
<1>1. \E g : g = F(g)
  BY FreedExists DEF Frees
<1>2. freed = F(freed)
  <2> HIDE DEF F
  <2> QED
    BY <1>1
<1>3. recursivelyDeleteFolder(Root) = freed[Root]
  BY DEF recursivelyDeleteFolder, Freed, EntriesOf
<1> HIDE DEF freed
<1> QED
  BY <1>2, <1>3 DEF Frees

\* What is freed with a folder: all that is under it in the tree, nothing twice.
WellFreed(g, d) ==
  /\ g[d] \in Seq(AllEntries)
  /\ IsInjective(g[d])
  /\ ToSet(g[d]) \subseteq Under(d)
  /\ d \in ToSet(g[d])
  /\ FilesIn(d) \subseteq ToSet(g[d])
  /\ \A c \in ToSet(folders[d]) : ToSet(g[c]) \subseteq ToSet(g[d])

LEMMA FolderWellFreed ==
  ASSUME Types, ListedInv, ListsInv, NEW d \in Folders, NEW g, g[d] = Freed(g, d),
         \A c \in ToSet(folders[d]) : WellFreed(g, c)
  PROVE  WellFreed(g, d)
<1> DEFINE own == <<d>>
           ents == EntriesOf(d)
           subs == [i \in DOMAIN folders[d] |-> g[folders[d][i]]]
           flat == FlattenSeq(subs)
<1>1. d \in AllEntries /\ Entries \subseteq AllEntries /\ Files \subseteq Entries
  BY DEF AllEntries, Entries
<1>2. /\ folders[d] \in Seq(Folders) /\ files[d] \in Seq(FileEntry)
      /\ \A i \in DOMAIN folders[d] :
           /\ folders[d][i] \in Folders \ {Root} /\ folders[d][i] \in Entries
           /\ Parent[folders[d][i]] = d /\ folders[d][i] \in ToSet(folders[d])
  <2>1. folders[d] \in Seq(Folders) /\ files[d] \in Seq(FileEntry)
    BY DEF Types
  <2>2. \A i \in DOMAIN folders[d] :
          folders[d][i] \in Folders /\ folders[d][i] \in ToSet(folders[d])
    BY <2>1 DEF ToSet
  <2>3. \A c \in ToSet(folders[d]) : c # Root /\ Parent[c] = d
    BY DEF ListedInv
  <2> QED
    BY <2>1, <2>2, <2>3, FolderIsEntry
<1>3. own \in Seq(AllEntries) /\ IsInjective(own) /\ ToSet(own) = {d}
  BY <1>1 DEF IsInjective, ToSet
<1>4. /\ ents \in Seq(AllEntries) /\ IsInjective(ents) /\ ToSet(ents) = FilesIn(d)
      /\ \A f \in ToSet(ents) : f \in Files /\ f \in Entries /\ Parent[f] = d
  <2>1. DOMAIN files[d] = 1..Len(files[d]) /\ Len(files[d]) \in Nat
    BY <1>2
  <2>2. \A i \in DOMAIN files[d] : ents[i] = files[d][i].entry /\ ents[i] \in FilesIn(d)
    BY DEF EntriesOf, FilesIn
  <2>3. FilesIn(d) \subseteq Children(d) \cap Files
    BY DEF ListsInv, FilesOnce
  <2>4. DOMAIN ents = DOMAIN files[d]
    BY DEF EntriesOf
  <2>5. \A f \in FilesIn(d) : f \in Files /\ f \in Entries /\ Parent[f] = d
    BY <2>3 DEF Children
  <2>6. ents \in Seq(AllEntries)
    <3>1. \A i \in 1..Len(files[d]) : files[d][i].entry \in AllEntries
      BY <1>1, <2>1, <2>2, <2>5
    <3> QED
      BY <2>1, <3>1 DEF EntriesOf
  <2>7. IsInjective(ents)
    BY <2>2, <2>4 DEF IsInjective, ListsInv, FilesOnce
  <2>8. ToSet(ents) = FilesIn(d)
    BY <2>2, <2>4 DEF ToSet, FilesIn
  <2> QED
    BY <2>5, <2>6, <2>7, <2>8
<1>5. subs \in Seq(Seq(AllEntries)) /\ DOMAIN subs = DOMAIN folders[d]
  <2>1. DOMAIN folders[d] = 1..Len(folders[d]) /\ Len(folders[d]) \in Nat
    BY <1>2
  <2>2. \A i \in 1..Len(folders[d]) : g[folders[d][i]] \in Seq(AllEntries)
    BY <1>2, <2>1 DEF WellFreed
  <2> QED
    BY <2>1, <2>2
<1>6. \A i \in DOMAIN folders[d] : subs[i] = g[folders[d][i]] /\ WellFreed(g, folders[d][i])
  BY <1>2
<1>7. Apart(subs)
  <2> HIDE DEF subs
  <2>1. ASSUME NEW i \in DOMAIN folders[d], NEW j \in DOMAIN folders[d], i # j
        PROVE  ToSet(subs[i]) \cap ToSet(subs[j]) = {}
    <3>1. folders[d][i] # folders[d][j]
      BY <2>1 DEF ListsInv, FoldersOnce
    <3>2. Under(folders[d][i]) \cap Under(folders[d][j]) = {}
      BY <1>2, <3>1, SiblingsAreApart
    <3> QED
      BY <1>6, <3>2 DEF WellFreed
  <2>2. \A i \in DOMAIN folders[d] : IsInjective(subs[i])
    BY <1>6 DEF WellFreed
  <2> QED
    BY <1>5, <2>1, <2>2 DEF Apart
<1> HIDE DEF subs
<1>8. /\ flat \in Seq(AllEntries) /\ IsInjective(flat)
      /\ \A x : x \in ToSet(flat) <=> \E i \in DOMAIN folders[d] : x \in ToSet(g[folders[d][i]])
  BY <1>5, <1>6, <1>7, FlattenFacts
<1>9. g[d] = (own \o ents) \o flat
  BY DEF Freed, subs
<1> HIDE DEF own, ents, flat
<1>10. ToSet(own) \cap ToSet(ents) = {}
  BY <1>3, <1>4, TreeAssumption
<1>11. /\ own \o ents \in Seq(AllEntries) /\ IsInjective(own \o ents)
       /\ ToSet(own \o ents) = {d} \cup FilesIn(d)
  BY <1>3, <1>4, <1>10, ConcatFacts
<1>12. ASSUME NEW x \in ToSet(flat) PROVE x \in Under(d) /\ x \notin {d} \cup FilesIn(d)
  <2>1. PICK i \in DOMAIN folders[d] : x \in ToSet(g[folders[d][i]])
    BY <1>8
  <2> DEFINE c == folders[d][i]
  <2>2. c \in Entries /\ c \in Folders /\ Parent[c] = d
    BY <1>2
  <2>3. x \in Under(c)
    BY <1>6, <2>1 DEF WellFreed
  <2> HIDE DEF c
  <2>4. x \in Under(d) /\ x # d
    BY <2>2, <2>3, ChildIsUnder, ParentIsNotUnder
  <2>5. ASSUME x \in FilesIn(d) PROVE FALSE
    <3>1. x \in Files /\ x \in Entries /\ Parent[x] = d
      BY <1>4, <2>5
    <3>2. x # c /\ x \in Under(x)
      BY <1>1, <2>2, <3>1, TreeAssumption, UnderIsLeast
    <3> QED
      BY <2>2, <2>3, <3>1, <3>2, SiblingsAreApart
  <2> QED
    BY <2>4, <2>5
<1>13. /\ g[d] \in Seq(AllEntries) /\ IsInjective(g[d])
       /\ ToSet(g[d]) = {d} \cup FilesIn(d) \cup ToSet(flat)
  <2>1. ToSet(own \o ents) \cap ToSet(flat) = {}
    BY <1>11, <1>12
  <2> DEFINE head == own \o ents
  <2>2. head \in Seq(AllEntries) /\ IsInjective(head) /\ ToSet(head) = {d} \cup FilesIn(d)
    BY <1>11
  <2>3. ToSet(head) \cap ToSet(flat) = {} /\ g[d] = head \o flat
    BY <1>9, <2>1
  <2> HIDE DEF head
  <2>4. /\ head \o flat \in Seq(AllEntries) /\ IsInjective(head \o flat)
        /\ ToSet(head \o flat) = ToSet(head) \cup ToSet(flat)
    BY <1>8, <2>2, <2>3, ConcatFacts
  <2> QED
    BY <2>2, <2>3, <2>4
<1>14. ToSet(g[d]) \subseteq Under(d)
  <2>1. d \in Under(d)
    BY <1>1, UnderIsLeast
  <2>2. \A f \in FilesIn(d) : f \in Under(d)
    BY <1>4, ChildIsUnder
  <2> QED
    BY <1>12, <1>13, <2>1, <2>2
<1>15. \A c \in ToSet(folders[d]) : ToSet(g[c]) \subseteq ToSet(g[d])
  <2>1. \A i \in DOMAIN folders[d] : ToSet(g[folders[d][i]]) \subseteq ToSet(flat)
    BY <1>8
  <2>2. \A c \in ToSet(folders[d]) : \E i \in DOMAIN folders[d] : c = folders[d][i]
    BY DEF ToSet
  <2> QED
    BY <1>13, <2>1, <2>2
<1> QED
  BY <1>13, <1>14, <1>15 DEF WellFreed

LEMMA EveryFolderWellFreed ==
  ASSUME Types, ListedInv, ListsInv, NEW g, Frees(g, Folders)
  PROVE  \A d \in Folders : WellFreed(g, d)
<1> DEFINE Bad == {d \in Folders : ~ WellFreed(g, d)}
<1>1. ASSUME Bad # {} PROVE FALSE
  <2>1. PICK d \in Bad : \A c \in Bad \ {Root} : Parent[c] # d
    <3>1. Bad \in SUBSET Folders
      OBVIOUS
    <3> HIDE DEF Bad
    <3> QED
      BY <1>1, <3>1, LowestFolder
  <2>2. ASSUME NEW c \in ToSet(folders[d]) PROVE WellFreed(g, c)
    <3>1. c \in Folders /\ c # Root /\ Parent[c] = d
      BY RangeInFolders DEF ListedInv
    <3> QED
      BY <2>1, <3>1
  <2>3. d \in Folders /\ g[d] = Freed(g, d)
    BY DEF Frees
  <2>4. WellFreed(g, d)
    BY <2>2, <2>3, FolderWellFreed
  <2> QED
    BY <2>4
<1> QED
  BY <1>1

LEMMA InitListsInv == Init => ListsInv
<1> SUFFICES ASSUME Init, NEW d \in Folders PROVE FilesOnce(d) /\ FoldersOnce(d)
  BY DEF ListsInv
<1>1. files[d] = <<>> /\ folders[d] = <<>> /\ room[d] = [files |-> 0, folders |-> 0]
  BY DEF Init
<1>2. pc \notin Loading /\ FilesIn(d) = {}
  BY <1>1 DEF Init, Loading, FilesIn
<1> QED
  BY <1>1, <1>2 DEF FilesOnce, FoldersOnce

\* Only the files of the innermost folder change.
LEMMA OthersListed ==
  ASSUME Types, ListsInv, OthersStay, FilesOnce(Current)',
         \A d \in Folders : d # Current => room'[d] = room[d]
  PROVE  ListsInv'
<1>1. /\ Current' = Current /\ Current \in Folders /\ OnStack(Current)
      /\ \A d : OnStack(d)' <=> OnStack(d)
      /\ \A d : InParent(d)' <=> InParent(d)
  BY CurrentIsLast DEF OthersStay, Current, OnStack, InParent, ToSet
<1>2. ASSUME NEW d \in Folders PROVE FilesOnce(d)' /\ FoldersOnce(d)'
  <2>1. FilesOnce(d) /\ FoldersOnce(d)
    BY DEF ListsInv
  <2>2. FoldersOnce(d)'
    BY <1>1, <2>1 DEF FoldersOnce, OthersStay
  <2>3. CASE d = Current
    BY <1>1, <2>2, <2>3
  <2>4. CASE d # Current
    <3>1. files'[d] = files[d] /\ todo'[d] = todo[d]
      BY <2>4 DEF OthersStay
    <3>2. FilesIn(d)' = FilesIn(d) /\ Children(d)' = Children(d)
      BY <3>1 DEF FilesIn, Children
    <3> QED
      BY <1>1, <2>1, <2>2, <2>4, <3>1, <3>2 DEF FilesOnce
  <2> QED
    BY <2>3, <2>4
<1> QED
  BY <1>2 DEF ListsInv

\* No file is added.
LEMMA SameFilesListed ==
  ASSUME Types, ListsInv, UNCHANGED <<stack, folders, files>>,
         \A d \in Folders : d # Current => todo'[d] = todo[d] /\ room'[d] = room[d],
         todo'[Current] \subseteq todo[Current] \/ FilesIn(Current) = {},
         \/ pc' \notin Loading
         \/ pc \in Loading /\ UNCHANGED <<file, todo>>
         \/ /\ file'.entry \in Children(Current) \cap todo[Current]
            /\ file'.entry \notin todo'[Current]
  PROVE  ListsInv'
<1>1. Current' = Current /\ Current \in Folders
  BY CurrentIsLast DEF Current
<1>2. OthersStay
  BY DEF OthersStay
<1>3. FilesOnce(Current)
  BY <1>1 DEF ListsInv
<1>4. FilesIn(Current)' = FilesIn(Current) /\ Children(Current)' = Children(Current)
  BY <1>1 DEF FilesIn, Children
<1>5. FilesOnce(Current)'
  BY <1>1, <1>3, <1>4 DEF FilesOnce
<1> QED
  BY <1>2, <1>5, OthersListed

\* A file is added that was not yet.
LEMMA AddFileListed ==
  ASSUME Types, ListsInv, NEW f \in Files, NEW length, NEW state, NEW whole,
         AddFile(f, length, state, whole), UNCHANGED <<stack, folders, room>>,
         \A d \in Folders : d # Current => todo'[d] = todo[d],
         todo'[Current] \subseteq todo[Current],
         f \in Children(Current), f \notin FilesIn(Current), f \notin todo'[Current]
  PROVE  ListsInv'
<1>1. Current' = Current /\ Current \in Folders
  BY CurrentIsLast DEF Current
<1>2. /\ FilesIn(Current)' = FilesIn(Current) \cup {f}
      /\ \A d \in Folders : d # Current => files'[d] = files[d]
  BY AddFileFills
<1>3. OthersStay
  BY <1>2 DEF OthersStay
<1>4. FilesOnce(Current)
  BY <1>1 DEF ListsInv
<1>5. \A i, j \in DOMAIN files'[Current] :
        files'[Current][i].entry = files'[Current][j].entry => i = j
  <2> DEFINE new == [entry |-> f, size |-> length, state |-> state, whole |-> whole]
             old == files[Current]
             n == Len(old)
  <2>1. files'[Current] = Append(old, new) /\ new.entry = f
    BY <1>1 DEF AddFile, Types
  <2>2. old \in Seq(FileEntry) /\ n \in Nat /\ DOMAIN old = 1..n
    BY <1>1 DEF Types
  <2> HIDE DEF new
  <2>3. \A s \in Seq(FileEntry) :
          /\ DOMAIN Append(s, new) = 1..(Len(s) + 1)
          /\ Append(s, new)[Len(s) + 1] = new
          /\ \A i \in 1..Len(s) : Append(s, new)[i] = s[i]
    OBVIOUS
  <2>4. /\ DOMAIN files'[Current] = 1..(n + 1)
        /\ files'[Current][n + 1].entry = f
        /\ \A i \in 1..n : files'[Current][i] = old[i]
    BY <2>1, <2>2, <2>3
  <2>5. \A i \in 1..(n + 1) : i = n + 1 \/ i \in 1..n
    BY <2>2
  <2>6. \A i \in 1..n : old[i].entry # f
    BY <2>2 DEF FilesIn
  <2>7. \A i, j \in 1..n : old[i].entry = old[j].entry => i = j
    BY <1>4, <2>2 DEF FilesOnce
  <2> HIDE DEF n, old
  <2> QED
    BY <2>4, <2>5, <2>6, <2>7
<1>6. pc' \notin Loading
  BY DEF AddFile, Loading
<1>7. Children(Current)' = Children(Current)
  BY <1>1 DEF Children
<1>8. FilesOnce(Current)'
  BY <1>1, <1>2, <1>4, <1>5, <1>6, <1>7 DEF FilesOnce
<1> QED
  BY <1>3, <1>8, OthersListed

LEMMA EnterFolderKeepsLists ==
  ASSUME CacheInv, ListsInv, NEW e \in Folders, EnterFolder(e)
  PROVE  ListsInv'
<1>1. Visit(e) /\ pc' \notin Loading /\ UNCHANGED <<files, folders, room>>
  BY DEF EnterFolder, Loading
<1>2. LessToDo
  BY <1>1, VisitTakes
<1>3. \A d : OnStack(d) => OnStack(d)'
  BY FolderEntered
<1>4. ASSUME NEW d \in Folders PROVE FilesOnce(d)' /\ FoldersOnce(d)'
  <2>1. FilesOnce(d) /\ FoldersOnce(d)
    BY DEF ListsInv
  <2>2. FilesIn(d)' = FilesIn(d) /\ Children(d)' = Children(d) /\ InParent(d)' = InParent(d)
    BY <1>1 DEF FilesIn, Children, InParent
  <2>3. FilesOnce(d)'
    BY <1>1, <1>2, <2>1, <2>2 DEF FilesOnce, LessToDo
  <2>4. FoldersOnce(d)'
    BY <1>1, <1>3, <2>1, <2>2 DEF FoldersOnce
  <2> QED
    BY <2>3, <2>4
<1> QED
  BY <1>4 DEF ListsInv

LEMMA LeaveSubfolderKeepsLists ==
  ASSUME CacheInv, ListedInv, ListsInv, pc = "fill", Current # Root,
         folders' = AddFolder(Current), stack' = Front(stack),
         UNCHANGED <<pc, todo, files, room>>
  PROVE  ListsInv'
<1> DEFINE c == Current
           up == Parent[Current]
<1>1. Types /\ c \in Folders /\ OnStack(c) /\ c # Root
  BY CurrentIsLast DEF CacheInv
<1>2. /\ up \in Folders
      /\ folders'[up] = Append(folders[up], c)
      /\ \A d \in Folders : d # up => folders'[d] = folders[d]
  BY FolderLeft
<1>3. \A d : OnStack(d) /\ d # c => OnStack(d)'
  BY FolderLeft
<1>4. c \notin ToSet(folders[up])
  BY <1>1, <1>2 DEF ListedInv
<1> HIDE DEF c
<1> DEFINE old == folders[up]
           new == folders'[up]
           n == Len(old)
<1>5. old \in Seq(Folders) /\ n \in Nat /\ DOMAIN old = 1..n
  <2>1. old \in Seq(Folders)
    BY <1>1, <1>2 DEF Types
  <2> HIDE DEF old
  <2> QED
    BY <2>1
<1>6. DOMAIN new = 1..(n + 1) /\ new[n + 1] = c /\ \A i \in 1..n : new[i] = old[i]
  <2>1. \A s \in Seq(Folders) :
          /\ DOMAIN Append(s, c) = 1..(Len(s) + 1)
          /\ Append(s, c)[Len(s) + 1] = c
          /\ \A i \in 1..Len(s) : Append(s, c)[i] = s[i]
    BY <1>1
  <2> QED
    BY <1>2, <1>5, <2>1
<1>7. \A i \in 1..n : old[i] # c
  BY <1>4, <1>5 DEF ToSet
<1>8. /\ n + 1 \in 1..(n + 1) /\ \A i \in 1..n : i \in 1..(n + 1)
      /\ \A i \in 1..(n + 1) : i = n + 1 \/ i \in 1..n
  BY <1>5
<1>9. \A i, j \in DOMAIN old : old[i] = old[j] => i = j
  BY <1>2 DEF ListsInv, FoldersOnce
<1> HIDE DEF n, old, new
<1>10. \A i, j \in DOMAIN new : new[i] = new[j] => i = j
  BY <1>5, <1>6, <1>7, <1>8, <1>9
<1>11. c \in ToSet(new) /\ ToSet(old) \subseteq ToSet(new)
  BY <1>5, <1>6, <1>8 DEF ToSet
<1>12. \A d \in Folders : InParent(d) \/ d = c => InParent(d)'
  <2> SUFFICES ASSUME NEW d \in Folders, InParent(d) \/ d = c
               PROVE  d # Root /\ d \in ToSet(folders'[Parent[d]])
    BY DEF InParent, ToSet
  <2>1. d # Root /\ Parent[d] \in Folders
    BY <1>1, FolderIsEntry DEF InParent
  <2>2. d = c => Parent[d] = up
    BY DEF c, up
  <2>3. CASE Parent[d] = up
    BY <1>11, <2>1, <2>3 DEF InParent, old, new
  <2>4. CASE Parent[d] # up
    BY <1>2, <2>1, <2>2, <2>4 DEF InParent
  <2> QED
    BY <2>3, <2>4
<1>13. ASSUME NEW d \in Folders PROVE FilesOnce(d)' /\ FoldersOnce(d)'
  <2>1. FilesOnce(d) /\ FoldersOnce(d)
    BY DEF ListsInv
  <2>2. FilesIn(d)' = FilesIn(d) /\ Children(d)' = Children(d) /\ pc' \notin Loading
    BY DEF FilesIn, Children, Loading
  <2>3. FilesOnce(d)'
    BY <2>1, <2>2 DEF FilesOnce
  <2>4. \A i, j \in DOMAIN folders'[d] : folders'[d][i] = folders'[d][j] => i = j
    <3>1. CASE d = up
      BY <1>10, <3>1 DEF new
    <3>2. CASE d # up
      BY <1>2, <2>1, <3>2 DEF FoldersOnce
    <3> QED
      BY <3>1, <3>2
  <2>5. OnStack(d) \/ InParent(d) => OnStack(d)' \/ InParent(d)'
    BY <1>3, <1>12
  <2> QED
    BY <2>1, <2>3, <2>4, <2>5 DEF FoldersOnce
<1> QED
  BY <1>13 DEF ListsInv

LEMMA BuildKeepsLists ==
  ASSUME CacheInv, ListedInv, ListsInv, Build
  PROVE  ListsInv'
<1>1. Types /\ Current \in Folders /\ FilesOnce(Current)
  BY CurrentIsLast DEF CacheInv, ListsInv
<1>2. CASE Exit
  <2>1. UNCHANGED <<stack, folders, files, todo, room>> /\ pc' \notin Loading
    BY <1>2 DEF Exit, cache, Loading
  <2> QED
    BY <1>1, <2>1, SameFilesListed
<1>3. CASE CountFolder /\ ~ Exit
  <2>1. /\ UNCHANGED <<stack, folders, files, todo>> /\ pc' \notin Loading
        /\ room' = [room EXCEPT ![Current] = Counted(Current)]
    BY <1>3 DEF CountFolder, Loading
  <2>2. \A d \in Folders : d # Current => room'[d] = room[d]
    BY <1>1, <2>1 DEF Types
  <2> QED
    BY <1>1, <2>1, <2>2, SameFilesListed
<1>4. CASE Rewind
  <2>1. /\ UNCHANGED <<stack, folders, files, room>> /\ pc' \notin Loading
        /\ todo' = [todo EXCEPT ![Current] = Listed(Current)] /\ pc = "rewind"
    BY <1>4 DEF Rewind, Loading
  <2>2. \A d \in Folders : d # Current => todo'[d] = todo[d]
    BY <1>1, <2>1 DEF Types
  <2>3. FilesIn(Current) = {}
    BY <2>1 DEF CacheInv, EnteredOnce, Untouched, FilesIn
  <2> QED
    BY <1>1, <2>1, <2>2, <2>3, SameFilesListed
<1>5. CASE OpenRaw /\ ~ Exit
  <2>1. UNCHANGED <<stack, folders, files, todo, room, file>> /\ pc \in Loading
    BY <1>5 DEF OpenRaw, cache, Loading
  <2> QED
    BY <1>1, <2>1, SameFilesListed
<1>6. ASSUME NEW length, NEW state, NEW whole, AddFile(file.entry, length, state, whole),
             pc \in Loading, UNCHANGED <<stack, folders, room, todo>>
      PROVE  ListsInv'
  <2>1. file.entry \in Files
    BY <1>1, <1>6 DEF Types
  <2>2. /\ file.entry \in Children(Current)
        /\ file.entry \notin FilesIn(Current) /\ file.entry \notin todo'[Current]
    BY <1>1, <1>6 DEF FilesOnce
  <2> QED
    BY <1>1, <1>6, <2>1, <2>2, AddFileListed
<1>7. CASE ReadRaw
  <2> DEFINE whole == got = 0 /\ Min({file.size, Max({size[file.entry], got})}) = file.size
  <2>1. /\ UNCHANGED <<stack, todo, folders, room>> /\ pc \in Loading
        /\ \/ AddFile(file.entry, file.size, "raw", whole)
           \/ UNCHANGED <<pc, files, free, file>>
    BY <1>7 DEF ReadRaw, Loading
  <2> HIDE DEF whole
  <2>2. CASE UNCHANGED <<pc, files, free, file>>
    BY <1>1, <2>1, <2>2, SameFilesListed
  <2> QED
    BY <1>6, <2>1, <2>2
<1>8. CASE Compress
  <2>1. PICK m : AddFile(file.entry, Min({m, BufferLength(file.size)}), "compressed",
                         m <= BufferLength(file.size))
    BY <1>8 DEF Compress
  <2> DEFINE length == Min({m, BufferLength(file.size)})
             whole == m <= BufferLength(file.size)
  <2>2. /\ AddFile(file.entry, length, "compressed", whole)
        /\ UNCHANGED <<stack, todo, folders, room>> /\ pc \in Loading
    BY <1>8, <2>1 DEF Compress, Loading
  <2> HIDE DEF length, whole
  <2> QED
    BY <1>6, <2>2
<1>9. ASSUME NEW e \in Entries, SkipVanished(e) PROVE ListsInv'
  <2>1. Visit(e) /\ UNCHANGED <<pc, stack, folders, files, room>>
    BY <1>9 DEF SkipVanished
  <2>2. /\ \A d \in Folders : d # Current => todo'[d] = todo[d]
        /\ todo'[Current] \subseteq todo[Current] /\ pc' \notin Loading
    BY <2>1, VisitTakes DEF Loading
  <2> QED
    BY <1>1, <2>1, <2>2, SameFilesListed
<1>10. ASSUME NEW f \in Files, LeaveOut(f) PROVE ListsInv'
  <2>1. /\ Visit(f) /\ UNCHANGED <<stack, folders, room>>
        /\ AddFile(f, AsInt(size[f]), "not_loaded", FALSE)
    BY <1>10 DEF LeaveOut
  <2>2. /\ f \in todo[Current] /\ todo'[Current] = todo[Current] \ {f}
        /\ \A d \in Folders : d # Current => todo'[d] = todo[d]
        /\ f \in Entries /\ Parent[f] = Current
    BY <2>1, VisitTakes
  <2>3. f \in Children(Current) /\ f \notin FilesIn(Current) /\ f \notin todo'[Current]
    BY <1>1, <2>2 DEF FilesOnce, Children
  <2> QED
    BY <1>1, <2>1, <2>2, <2>3, AddFileListed
<1>11. ASSUME NEW f \in Files, BeginLoad(f) PROVE ListsInv'
  <2>1. /\ Visit(f) /\ UNCHANGED <<stack, folders, files, room>>
        /\ file' = [entry |-> f, size |-> AsInt(size[f])]
    BY <1>11 DEF BeginLoad
  <2>2. /\ f \in todo[Current] /\ todo'[Current] = todo[Current] \ {f}
        /\ \A d \in Folders : d # Current => todo'[d] = todo[d]
        /\ f \in Entries /\ Parent[f] = Current
    BY <2>1, VisitTakes
  <2>3. /\ file'.entry \in Children(Current) \cap todo[Current]
        /\ file'.entry \notin todo'[Current]
    BY <2>1, <2>2 DEF Children
  <2> QED
    BY <1>1, <2>1, <2>2, <2>3, SameFilesListed
<1>12. CASE LeaveFolder
  <2>1. pc = "fill" /\ UNCHANGED <<todo, room, files, file>>
    BY <1>12 DEF LeaveFolder
  <2>2. CASE Current = Root
    <3>1. UNCHANGED <<stack, folders>> /\ pc' \notin Loading
      BY <1>12, <2>2 DEF LeaveFolder, Loading
    <3> QED
      BY <1>1, <2>1, <3>1, SameFilesListed
  <2>3. CASE Current # Root
    <3>1. folders' = AddFolder(Current) /\ stack' = Front(stack) /\ UNCHANGED pc
      BY <1>12, <2>3 DEF LeaveFolder
    <3> QED
      BY <2>1, <2>3, <3>1, LeaveSubfolderKeepsLists
  <2> QED
    BY <2>2, <2>3
<1>13. CASE \E e \in Entries : SkipVanished(e) \/ StatFails(e)
  BY <1>2, <1>9, <1>13 DEF StatFails
<1>14. CASE \E f \in Files : LeaveOut(f) \/ MallocFails(f) \/ BeginLoad(f)
  BY <1>2, <1>10, <1>11, <1>14 DEF MallocFails
<1>15. CASE \E d \in Folders : EnterFolder(d)
  BY <1>15, EnterFolderKeepsLists
<1>16. CASE ReadFails
  BY <1>2, <1>16 DEF ReadFails
<1> QED
  BY <1>2, <1>3, <1>4, <1>5, <1>7, <1>8, <1>12, <1>13, <1>14, <1>15, <1>16 DEF Build

\* Whatever shrinks, grows or vanishes, no array has an entry twice, and no folder that was
\* entered is lost.
THEOREM ListsInvariant == Spec => []ListsInv
<1>1. CacheInv /\ MirrorInv /\ ListsInv /\ [Next]_vars => ListsInv'
  <2>1. ASSUME CacheInv, ListsInv,
               \/ \E f \in Files : Resize(f)
               \/ \E e \in Entries : Vanish(e)
               \/ UNCHANGED vars
        PROVE  ListsInv'
    <3>1. UNCHANGED <<pc, stack, folders, files, todo, room, file>>
      BY <2>1 DEF Resize, Vanish, vars, cache
    <3>2. Types
      BY <2>1 DEF CacheInv
    <3> QED
      BY <2>1, <3>1, <3>2, SameFilesListed
  <2> QED
    BY <2>1, BuildKeepsLists DEF Next, MirrorInv
<1> QED
  BY <1>1, InitListsInv, CacheInvariant, MirrorInvariant, PTL DEF Spec

\* When the cache is built, a folder that something was allocated for can be reached.
LEMMA ReachableIsFreed ==
  ASSUME CacheInv, ListedInv, ListsInv, Current = Root,
         NEW g, \A d \in Folders : WellFreed(g, d)
  PROVE  \A d \in Folders : d = Root \/ InParent(d) => ToSet(g[d]) \subseteq ToSet(g[Root])
<1> DEFINE Bad == {d \in Folders : /\ d # Root /\ InParent(d)
                                  /\ ~ (ToSet(g[d]) \subseteq ToSet(g[Root]))}
<1>1. ASSUME Bad # {} PROVE FALSE
  <2>1. PICK d \in Bad : Parent[d] \notin Bad
    <3>1. Bad \in SUBSET Entries
      BY FolderIsEntry
    <3> HIDE DEF Bad
    <3> QED
      BY <1>1, <3>1, TreeAssumption
  <2> DEFINE up == Parent[d]
  <2>2. up \in Folders /\ d \in ToSet(folders[up])
    BY FolderIsEntry DEF InParent
  <2>3. ToSet(g[d]) \subseteq ToSet(g[up])
    BY <2>2 DEF WellFreed
  <2>4. up = Root \/ InParent(up)
    <3>1. Len(folders[up]) \in Nat /\ Len(folders[up]) # 0
      <4>1. folders[up] \in Seq(Folders)
        BY <2>2 DEF CacheInv, Types
      <4>2. folders[up] # <<>>
        BY <2>2 DEF ToSet
      <4> QED
        BY <4>1, <4>2
    <3>2. Len(folders[up]) + FoldersDue(up) <= room[up].folders /\ FoldersDue(up) \in Nat
      BY <2>2, FoldersDueIsNat DEF CacheInv, FoldersFit
    <3>3. room[up].files \in Nat /\ room[up].folders \in Nat
      BY <2>2 DEF CacheInv, Types
    <3>4. room[up].files + room[up].folders > 0
      BY <3>1, <3>2, <3>3
    <3>5. OnStack(up) \/ InParent(up)
      BY <2>2, <3>4 DEF ListsInv, FoldersOnce
    <3> QED
      BY <3>5, RootAlone
  <2> QED
    BY <2>1, <2>2, <2>3, <2>4
<1> QED
  BY <1>1

\* For every tree and whatever shrinks, grows or vanishes: deleteFileCache() frees every
\* file and folder that was allocated, and nothing twice.
THEOREM DeletionAlwaysFreesAll == Spec => []DeletionFreesAll
<1>1. ASSUME CacheInv, MirrorInv, ListsInv, pc = "done" PROVE DeletionFreesAll
  <2> DEFINE freed == recursivelyDeleteFolder(Root)
             cached == {files[x[1]][x[2]].entry : x \in Cached}
             entered == {d \in Folders : room[d].files + room[d].folders > 0}
  <2>1. Types /\ ListedInv /\ Current = Root /\ Root \in Folders
    BY <1>1, TreeAssumption DEF CacheInv, MirrorInv
  <2>2. PICK g : Frees(g, Folders) /\ freed = g[Root]
    BY <2>1, DeletionFrees
  <2>3. \A d \in Folders : WellFreed(g, d)
    BY <1>1, <2>1, <2>2, EveryFolderWellFreed
  <2>4. \A d \in Folders : d = Root \/ InParent(d) => ToSet(g[d]) \subseteq ToSet(freed)
    BY <1>1, <2>1, <2>2, <2>3, ReachableIsFreed
  <2>5. ASSUME NEW d \in Folders, room[d].files + room[d].folders > 0
        PROVE  ToSet(g[d]) \subseteq ToSet(freed)
    <3>1. OnStack(d) \/ InParent(d)
      BY <1>1, <2>5 DEF ListsInv, FoldersOnce
    <3> QED
      BY <1>1, <2>1, <2>4, <3>1, RootAlone
  <2>6. entered \subseteq ToSet(freed)
    BY <2>3, <2>5 DEF WellFreed
  <2>7. ASSUME NEW d \in Folders, NEW i \in DOMAIN files[d]
        PROVE  files[d][i].entry \in ToSet(freed)
    <3>1. files[d] \in Seq(FileEntry) /\ Len(files[d]) \in Nat /\ Len(files[d]) # 0
      <4>1. files[d] \in Seq(FileEntry)
        BY <2>1 DEF Types
      <4> QED
        BY <2>7, <4>1
    <3>2. Len(files[d]) + FilesDue(d) <= room[d].files /\ FilesDue(d) \in Nat
      BY <1>1, FilesDueIsNat DEF CacheInv, FilesFit
    <3>3. room[d].files \in Nat /\ room[d].folders \in Nat
      BY <2>1 DEF Types
    <3>4. room[d].files + room[d].folders > 0
      BY <3>1, <3>2, <3>3, SomeNeedRoom
    <3>5. files[d][i].entry \in FilesIn(d)
      BY DEF FilesIn
    <3> QED
      BY <2>3, <2>5, <3>4, <3>5 DEF WellFreed
  <2>8. cached \subseteq ToSet(freed)
    <3>1. \A x \in Cached : x[1] \in Folders /\ x[2] \in DOMAIN files[x[1]]
      BY DEF Cached
    <3> HIDE DEF freed
    <3> QED
      BY <2>7, <3>1
  <2>9. IsInjective(freed)
    BY <2>1, <2>2, <2>3 DEF WellFreed
  <2> QED
    BY <2>6, <2>8, <2>9 DEF DeletionFreesAll
<1>2. CacheInv /\ MirrorInv /\ ListsInv => DeletionFreesAll
  BY <1>1 DEF DeletionFreesAll
<1> QED
  BY <1>2, CacheInvariant, MirrorInvariant, ListsInvariant, PTL

----------------------------------------------------------------------------
(***************************************************************************)
(* What a target means.                                                    *)
(***************************************************************************)

\* One more character of a target.
Add(s, c) == IF c = "/" /\ (s = <<>> \/ Last(s) = "/") THEN s ELSE Append(s, c)

\* g is what FoldLeft() computes of the characters of p at the places in each set of D.
Folds(g, D, p) ==
  \A s \in D : g[s] = IF s = {} THEN <<>> ELSE Add(g[s \ {Max(s)}], p[Max(s)])

LEMMA MaxIsIn ==
  ASSUME NEW n \in Nat, NEW s \in SUBSET (1..n), s # {}
  PROVE  Max(s) \in s /\ \A x \in s : x <= Max(s)
<1> DEFINE T == {n - x : x \in s}
<1>1. T \in SUBSET Nat /\ T # {}
  <2>1. \A x \in 1..n : n - x \in Nat
    OBVIOUS
  <2> QED
    BY <2>1
<1>2. PICK y \in T : \A z \in T : y <= z
  <2> HIDE DEF T
  <2> QED
    BY <1>1, LeastNatural
<1>3. PICK x \in s : y = n - x
  OBVIOUS
<1>4. \A z \in s : z <= x
  <2> SUFFICES ASSUME NEW z \in s PROVE z <= x
    OBVIOUS
  <2>1. n - x <= n - z
    BY <1>2, <1>3
  <2>2. x \in 1..n /\ z \in 1..n
    OBVIOUS
  <2> HIDE DEF T
  <2> QED
    BY <2>1, <2>2
<1> HIDE DEF T
<1>5. \E m \in s : \A z \in s : z <= m
  BY <1>4
<1> QED
  BY <1>5 DEF Max

LEMMA FoldExists ==
  ASSUME NEW n \in Nat, NEW p
  PROVE  \E g : g = [s \in SUBSET (1..n) |->
                       IF s = {} THEN <<>> ELSE Add(g[s \ {Max(s)}], p[Max(s)])]
<1> DEFINE S == 1..n
           Small(k) == {s \in SUBSET S : Cardinality(s) <= k}
           HasFold(k) == \E g : g = [s \in Small(k) |-> g[s]] /\ Folds(g, Small(k), p)
           Bad == {k \in Nat : ~ HasFold(k)}
<1>1. IsFiniteSet(S)
  BY FS_Interval
<1>2. \A s \in SUBSET S : s # {} => Max(s) \in s
  BY MaxIsIn
<1> HIDE DEF S
<1>3. \A s \in SUBSET S : /\ IsFiniteSet(s) /\ Cardinality(s) \in Nat
                          /\ Cardinality(s) = 0 <=> s = {}
                          /\ \A x \in s : Cardinality(s \ {x}) = Cardinality(s) - 1
  BY <1>1, FS_Subset, FS_CardinalityType, FS_EmptySet, FS_RemoveElement
<1>4. HasFold(0)
  <2> DEFINE g == [s \in Small(0) |-> <<>>]
  <2>1. \A s \in Small(0) : s = {}
    BY <1>3
  <2>2. g = [s \in Small(0) |-> g[s]] /\ Folds(g, Small(0), p)
    BY <2>1 DEF Folds
  <2> HIDE DEF g
  <2> QED
    BY <2>2
<1>5. ASSUME NEW k \in Nat, HasFold(k) PROVE HasFold(k + 1)
  <2>1. PICK g : Folds(g, Small(k), p)
    BY <1>5
  <2> DEFINE h == [s \in Small(k + 1) |->
                     IF s = {} THEN <<>> ELSE Add(g[s \ {Max(s)}], p[Max(s)])]
  <2>2. \A s \in Small(k) : s \in Small(k + 1)
    BY <1>3
  <2>3. \A s \in Small(k) : h[s] = g[s]
    BY <2>1, <2>2 DEF Folds
  <2>4. ASSUME NEW s \in Small(k + 1), s # {}
        PROVE  s \ {Max(s)} \in Small(k)
    <3>1. Max(s) \in s
      BY <1>2, <2>4
    <3> QED
      BY <1>3, <3>1
  <2>5. \A s \in Small(k + 1) :
          h[s] = IF s = {} THEN <<>> ELSE Add(g[s \ {Max(s)}], p[Max(s)])
    OBVIOUS
  <2>6. h = [s \in Small(k + 1) |-> h[s]]
    OBVIOUS
  <2> HIDE DEF h, Small
  <2>7. Folds(h, Small(k + 1), p)
    BY <2>3, <2>4, <2>5 DEF Folds
  <2> QED
    BY <2>6, <2>7
<1>6. \A k \in Nat : HasFold(k)
  <2> HIDE DEF HasFold
  <2> SUFFICES ASSUME Bad # {} PROVE FALSE
    OBVIOUS
  <2>1. PICK k \in Bad : \A m \in Bad : k <= m
    <3>1. Bad \in SUBSET Nat
      OBVIOUS
    <3> HIDE DEF Bad
    <3> QED
      BY <3>1, LeastNatural
  <2>2. k # 0
    BY <1>4
  <2>3. k - 1 \in Nat /\ (k - 1) + 1 = k
    BY <2>2
  <2>4. HasFold(k - 1)
    BY <2>1, <2>3
  <2> QED
    BY <1>5, <2>3, <2>4
<1>7. Cardinality(S) \in Nat /\ Small(Cardinality(S)) = SUBSET S
  BY <1>1, <1>3, FS_Subset, FS_CardinalityType
<1>8. PICK g : g = [s \in SUBSET S |-> g[s]] /\ Folds(g, SUBSET S, p)
  <2> HIDE DEF Small
  <2> QED
    BY <1>6, <1>7
<1>9. g = [s \in SUBSET S |-> IF s = {} THEN <<>> ELSE Add(g[s \ {Max(s)}], p[Max(s)])]
  BY <1>8 DEF Folds
<1> QED
  BY <1>9 DEF S

\* g is what the first characters of p mean, for each number of them.
Reads(g, p) ==
  /\ g[0] = <<>>
  /\ \A k \in 1..Len(p) : g[k] = Add(g[k - 1], p[k])

LEMMA MeantReads ==
  ASSUME NEW p \in Seq(Char)
  PROVE  \E g : Reads(g, p) /\ Meant(p) = g[Len(p)]
<1> DEFINE n == Len(p)
           F(g) == [s \in SUBSET (DOMAIN p) |->
                      IF s = {} THEN <<>>
                      ELSE LET x == Max(s) IN
                             IF p[x] = "/" /\ (g[s \ {x}] = <<>> \/ Last(g[s \ {x}]) = "/")
                             THEN g[s \ {x}] ELSE Append(g[s \ {x}], p[x])]
           iter == CHOOSE g : g = F(g)
<1>1. n \in Nat /\ DOMAIN p = 1..n
  OBVIOUS
<1>2. Meant(p) = iter[DOMAIN p]
  BY DEF Meant, FoldLeft, MapThenFoldSet
<1>3. PICK f : f = [s \in SUBSET (1..n) |->
                      IF s = {} THEN <<>> ELSE Add(f[s \ {Max(s)}], p[Max(s)])]
  <2> HIDE DEF n
  <2> QED
    BY <1>1, FoldExists
<1>4. \A g : F(g) = [s \in SUBSET (1..n) |->
                       IF s = {} THEN <<>> ELSE Add(g[s \ {Max(s)}], p[Max(s)])]
  BY <1>1 DEF Add
<1>5. iter = F(iter)
  <2> HIDE DEF F
  <2>1. f = F(f)
    BY <1>3, <1>4
  <2> QED
    BY <2>1
<1>6. iter = [s \in SUBSET (1..n) |->
                IF s = {} THEN <<>> ELSE Add(iter[s \ {Max(s)}], p[Max(s)])]
  <2> HIDE DEF F, iter
  <2> QED
    BY <1>4, <1>5
<1> HIDE DEF iter, n
<1>7. \A s \in SUBSET (1..n) :
        iter[s] = IF s = {} THEN <<>> ELSE Add(iter[s \ {Max(s)}], p[Max(s)])
  BY <1>6
<1> DEFINE g == [k \in 0..n |-> iter[1..k]]
<1>8. g[0] = <<>>
  <2>1. 1..0 = {} /\ 0 \in 0..n /\ {} \in SUBSET (1..n)
    BY <1>1
  <2> QED
    BY <1>7, <2>1
<1>9. ASSUME NEW k \in 1..n PROVE g[k] = Add(g[k - 1], p[k])
  <2>1. k \in 0..n /\ k - 1 \in 0..n /\ k \in Nat /\ k \in 1..k /\ 1..k \in SUBSET (1..n) /\ 1..k # {}
    BY <1>1
  <2>2. Max(1..k) \in 1..k /\ k <= Max(1..k)
    BY <2>1, MaxIsIn
  <2>3. Max(1..k) = k
    BY <2>1, <2>2
  <2>4. (1..k) \ {k} = 1..(k - 1)
    BY <2>1
  <2> QED
    BY <1>7, <2>1, <2>3, <2>4
<1>10. n \in 0..n /\ Meant(p) = g[n]
  BY <1>1, <1>2
<1> HIDE DEF g
<1> QED
  BY <1>8, <1>9, <1>10 DEF Reads, n

\* A property of the numbers up to n that goes from each to the next.
LEMMA FromZero ==
  ASSUME NEW n \in Nat, NEW S, 0 \in S, \A k \in 0..n : k \in S /\ k + 1 \in 0..n => k + 1 \in S
  PROVE  \A k \in 0..n : k \in S
<1> DEFINE Bad == {k \in 0..n : k \notin S}
<1>1. ASSUME Bad # {} PROVE FALSE
  <2>1. PICK k \in Bad : \A j \in Bad : k <= j
    <3>1. Bad \in SUBSET Nat
      OBVIOUS
    <3> HIDE DEF Bad
    <3> QED
      BY <1>1, <3>1, LeastNatural
  <2>2. k \in 0..n /\ k # 0 /\ k \notin S
    OBVIOUS
  <2>3. k - 1 \in 0..n /\ (k - 1) + 1 = k /\ ~ (k <= k - 1)
    BY <2>2
  <2>4. k - 1 \in S
    BY <2>1, <2>3
  <2> QED
    BY <2>2, <2>3, <2>4
<1> QED
  BY <1>1

LEMMA ReadsStrings ==
  ASSUME NEW p \in Seq(Char), NEW g, Reads(g, p)
  PROVE  \A k \in 0..Len(p) : g[k] \in Seq(Char)
<1> DEFINE n == Len(p)
           S == {k \in 0..n : g[k] \in Seq(Char)}
<1>1. n \in Nat /\ 0 \in 0..n
  OBVIOUS
<1>2. 0 \in S
  BY <1>1, EmptySeq DEF Reads
<1>3. ASSUME NEW k \in 0..n, k \in S, k + 1 \in 0..n PROVE k + 1 \in S
  <2>1. k + 1 \in 1..Len(p) /\ (k + 1) - 1 = k
    BY <1>1, <1>3
  <2>2. g[k + 1] = Add(g[k], p[k + 1]) /\ p[k + 1] \in Char
    BY <2>1 DEF Reads
  <2>3. g[k] \in Seq(Char)
    BY <1>3
  <2>4. Add(g[k], p[k + 1]) \in Seq(Char)
    BY <2>2, <2>3, AppendProperties DEF Add
  <2> QED
    BY <1>3, <2>2, <2>4
<1> HIDE DEF n
<1>4. \A k \in 0..n : k \in S
  <2> HIDE DEF S
  <2> QED
    BY <1>1, <1>2, <1>3, FromZero
<1> QED
  BY <1>4 DEF n

\* Characters add up in the same way behind a slash, or at the start.
LEMMA AddAfter ==
  ASSUME NEW base \in Seq(Char), base = <<>> \/ Last(base) = "/",
         NEW s \in Seq(Char), NEW c \in Char
  PROVE  Add(base \o s, c) = base \o Add(s, c)
<1>1. Append(base \o s, c) = base \o Append(s, c)
  <2>1. base \o s \in Seq(Char) /\ <<c>> \in Seq(Char)
    BY ConcatProperties
  <2>2. /\ Append(base \o s, c) = (base \o s) \o <<c>>
        /\ Append(s, c) = s \o <<c>>
    BY <2>1, AppendIsConcat
  <2> QED
    BY <2>1, <2>2, ConcatAssociative
<1>2. CASE s = <<>>
  <2>1. base \o s = base
    BY <1>2, ConcatEmptySeq
  <2> QED
    BY <1>1, <1>2, <2>1, ConcatEmptySeq DEF Add
<1>3. CASE s # <<>>
  <2> DEFINE m == Len(base)
             n == Len(s)
             all == base \o s
  <2>1. m \in Nat /\ n \in Nat /\ n > 0
    BY <1>3, LenProperties, EmptySeq
  <2>2. all \in Seq(Char) /\ Len(all) = m + n /\ all[m + n] = s[(m + n) - m]
    <3>1. m + n \in 1..(m + n) /\ ~ (m + n <= m)
      BY <2>1
    <3> QED
      BY <3>1, ConcatProperties
  <2>3. all # <<>> /\ Last(all) = Last(s)
    <3>1. Len(all) # 0 /\ (m + n) - m = n
      BY <2>1, <2>2
    <3> QED
      BY <2>2, <3>1 DEF Last
  <2> HIDE DEF all, m, n
  <2>4. Add(all, c) = IF c = "/" /\ Last(s) = "/" THEN all ELSE Append(all, c)
    BY <2>3 DEF Add
  <2>5. Add(s, c) = IF c = "/" /\ Last(s) = "/" THEN s ELSE Append(s, c)
    BY <1>3 DEF Add
  <2> QED
    BY <1>1, <2>4, <2>5 DEF all
<1> QED
  BY <1>2, <1>3

\* t is the end of p from the place after j.
Ends(t, p, j) ==
  /\ j \in 0..Len(p) /\ t \in Seq(Char) /\ Len(t) = Len(p) - j
  /\ \A k \in 1..Len(t) : t[k] = p[j + k]

\* What is behind a slash means the same as on its own.
LEMMA MeantAfter ==
  ASSUME NEW p \in Seq(Char), NEW g, Reads(g, p), NEW j, NEW t, Ends(t, p, j),
         g[j] = <<>> \/ Last(g[j]) = "/"
  PROVE  g[Len(p)] = g[j] \o Meant(t)
<1>1. PICK h : Reads(h, t) /\ Meant(t) = h[Len(t)]
  BY MeantReads DEF Ends
<1> DEFINE n == Len(t)
           S == {k \in 0..n : g[j + k] = g[j] \o h[k]}
<1>2. /\ n \in Nat /\ j \in Nat /\ j + n = Len(p) /\ Len(p) \in Nat
      /\ 0 \in 0..n /\ n \in 0..n /\ j \in 0..Len(p)
  BY DEF Ends
<1>3. /\ \A k \in 0..n : h[k] \in Seq(Char)
      /\ \A k \in 0..Len(p) : g[k] \in Seq(Char)
  BY <1>1, ReadsStrings DEF Ends
<1>4. 0 \in S
  <2>1. j + 0 = j /\ h[0] = <<>> /\ g[j] \in Seq(Char)
    BY <1>1, <1>2, <1>3 DEF Reads
  <2> QED
    BY <1>2, <2>1, ConcatEmptySeq
<1>5. ASSUME NEW k \in 0..n, k \in S, k + 1 \in 0..n PROVE k + 1 \in S
  <2>1. /\ k + 1 \in 1..n /\ (k + 1) - 1 = k
        /\ j + (k + 1) \in 1..Len(p) /\ (j + (k + 1)) - 1 = j + k
    BY <1>2, <1>5
  <2>2. /\ h[k + 1] = Add(h[k], t[k + 1]) /\ t[k + 1] = p[j + (k + 1)]
        /\ t[k + 1] \in Char
    BY <1>1, <2>1 DEF Reads, Ends
  <2>3. g[j + (k + 1)] = Add(g[j + k], p[j + (k + 1)])
    BY <2>1 DEF Reads
  <2>4. g[j + k] = g[j] \o h[k]
    BY <1>5
  <2>5. Add(g[j] \o h[k], t[k + 1]) = g[j] \o Add(h[k], t[k + 1])
    BY <1>2, <1>3, <2>2, AddAfter
  <2> QED
    BY <1>5, <2>2, <2>3, <2>4, <2>5
<1> HIDE DEF n
<1>6. \A k \in 0..n : k \in S
  <2> HIDE DEF S
  <2> QED
    BY <1>2, <1>4, <1>5, FromZero
<1>7. g[j + n] = g[j] \o h[n]
  BY <1>2, <1>6
<1> QED
  BY <1>1, <1>2, <1>7 DEF n

\* Up to the first slash, characters stand for themselves.
LEMMA ReadsWord ==
  ASSUME NEW p \in Seq(Char), NEW g, Reads(g, p), NEW n \in 0..Len(p),
         \A k \in 1..n : p[k] # "/"
  PROVE  \A k \in 0..n : g[k] = SubSeq(p, 1, k)
<1> DEFINE S == {k \in 0..n : g[k] = SubSeq(p, 1, k)}
<1>1. n \in Nat /\ 0 \in 0..n /\ Len(p) \in Nat
  OBVIOUS
<1>2. 0 \in S
  <2>1. SubSeq(p, 1, 0) = <<>>
    BY SubSeqEmpty
  <2>2. g[0] = <<>>
    BY DEF Reads
  <2> QED
    BY <1>1, <2>1, <2>2
<1>3. ASSUME NEW k \in 0..n, k \in S, k + 1 \in 0..n PROVE k + 1 \in S
  <2>1. k + 1 \in 1..Len(p) /\ k + 1 \in 1..n /\ (k + 1) - 1 = k /\ 1 \in 1..Len(p)
    BY <1>1, <1>3
  <2>2. g[k + 1] = Append(g[k], p[k + 1]) /\ p[k + 1] \in Char /\ g[k] \in Seq(Char)
    <3>1. g[k + 1] = Add(g[k], p[k + 1]) /\ p[k + 1] # "/" /\ p[k + 1] \in Char
      BY <2>1 DEF Reads
    <3>2. k \in 0..Len(p)
      BY <1>1
    <3>3. g[k] \in Seq(Char)
      BY <3>2, ReadsStrings
    <3> QED
      BY <3>1, <3>3 DEF Add
  <2>3. g[k + 1] = g[k] \o <<p[k + 1]>>
    BY <2>2, AppendIsConcat
  <2>4. SubSeq(p, 1, k + 1) = SubSeq(p, 1, k) \o <<p[k + 1]>>
    <3>1. k + 1 \in 1..Len(p)
      BY <2>1
    <3>2. SubSeq(p, 1, k + 1) = SubSeq(p, 1, (k + 1) - 1) \o <<p[k + 1]>>
      BY <2>1, <3>1, SubSeqRecursiveSecond
    <3> QED
      BY <2>1, <3>2
  <2> QED
    BY <1>3, <2>3, <2>4
<1> HIDE DEF S
<1>4. \A k \in 0..n : k \in S
  BY <1>1, <1>2, <1>3, FromZero
<1> QED
  BY <1>4 DEF S

LEMMA MeantWord ==
  ASSUME NEW p \in Seq(Char), Slashes(p) = {}
  PROVE  Meant(p) = p
<1>1. PICK g : Reads(g, p) /\ Meant(p) = g[Len(p)]
  BY MeantReads
<1>2. Len(p) \in 0..Len(p) /\ \A k \in 1..Len(p) : p[k] # "/"
  BY DEF Slashes
<1>3. g[Len(p)] = SubSeq(p, 1, Len(p))
  BY <1>1, <1>2, ReadsWord
<1> QED
  BY <1>1, <1>3, SubSeqFull

\* Slashes in front mean nothing.
LEMMA LeadingSlashes ==
  ASSUME NEW p \in Seq(Char), NEW j, NEW t, Ends(t, p, j), \A k \in 1..j : p[k] = "/"
  PROVE  Meant(p) = Meant(t) /\ Meant(t) \in Seq(Char)
<1>1. PICK g : Reads(g, p) /\ Meant(p) = g[Len(p)]
  BY MeantReads
<1> DEFINE S == {k \in 0..j : g[k] = <<>>}
<1>2. j \in Nat /\ 0 \in 0..j /\ j \in 0..j /\ Len(p) \in Nat /\ j <= Len(p)
  BY DEF Ends
<1>3. 0 \in S
  BY <1>1, <1>2 DEF Reads
<1>4. ASSUME NEW k \in 0..j, k \in S, k + 1 \in 0..j PROVE k + 1 \in S
  <2>1. k + 1 \in 1..Len(p) /\ k + 1 \in 1..j /\ (k + 1) - 1 = k
    BY <1>2, <1>4
  <2>2. g[k + 1] = Add(g[k], p[k + 1]) /\ p[k + 1] = "/" /\ g[k] = <<>>
    BY <1>1, <1>4, <2>1 DEF Reads
  <2> QED
    BY <1>4, <2>2 DEF Add
<1> HIDE DEF S
<1>5. \A k \in 0..j : k \in S
  BY <1>2, <1>3, <1>4, FromZero
<1>6. g[j] = <<>>
  BY <1>2, <1>5 DEF S
<1>7. Meant(p) = <<>> \o Meant(t)
  <2>1. Reads(g, p) /\ (g[j] = <<>> \/ Last(g[j]) = "/")
    BY <1>1, <1>6
  <2>2. g[Len(p)] = g[j] \o Meant(t)
    BY <2>1, MeantAfter
  <2> QED
    BY <1>1, <1>6, <2>2
<1>8. Meant(t) \in Seq(Char)
  <2>1. PICK h : Reads(h, t) /\ Meant(t) = h[Len(t)]
    BY MeantReads DEF Ends
  <2>2. Len(t) \in 0..Len(t)
    BY DEF Ends
  <2> QED
    BY <2>1, <2>2, ReadsStrings DEF Ends
<1> QED
  BY <1>7, <1>8, ConcatEmptySeq

LEMMA SubSeqEnds ==
  ASSUME NEW p \in Seq(Char), NEW j \in 0..Len(p)
  PROVE  Ends(SubSeq(p, j + 1, Len(p)), p, j)
<1> DEFINE n == Len(p)
           t == SubSeq(p, j + 1, n)
<1>1. n \in Nat /\ j \in Nat /\ j <= n /\ j + 1 \in Int /\ n \in Int
  OBVIOUS
<1>2. \A i \in (j + 1)..n : p[i] \in Char
  BY <1>1
<1>3. /\ t \in Seq(Char)
      /\ Len(t) = IF j + 1 <= n THEN n - (j + 1) + 1 ELSE 0
      /\ \A i \in 1..(n - (j + 1) + 1) : t[i] = p[(j + 1) + i - 1]
  <2> HIDE DEF n
  <2> QED
    BY <1>1, <1>2, SubSeqProperties
<1> HIDE DEF t
<1>4. Len(t) = n - j /\ n - (j + 1) + 1 = n - j
  BY <1>1, <1>3
<1>5. \A k \in 1..(n - j) : (j + 1) + k - 1 = j + k
  BY <1>1
<1> QED
  BY <1>1, <1>3, <1>4, <1>5 DEF Ends, t

LEMMA MinIsIn ==
  ASSUME NEW S \in SUBSET Nat, S # {}
  PROVE  Min(S) \in S /\ \A x \in S : Min(S) <= x
<1>1. \E x \in S : \A y \in S : x <= y
  BY LeastNatural
<1> QED
  BY <1>1 DEF Min

LEMMA SlashesSkipped ==
  ASSUME NEW p \in Seq(Char)
  PROVE  /\ SkipSlashes(p) \in Seq(Char) /\ Meant(SkipSlashes(p)) = Meant(p)
         /\ 1 \notin Slashes(SkipSlashes(p))
<1> DEFINE letters == {i \in DOMAIN p : p[i] # "/"}
           n == Len(p)
<1>1. n \in Nat /\ DOMAIN p = 1..n /\ letters \in SUBSET Nat /\ letters \subseteq 1..n
  OBVIOUS
<1>2. CASE letters = {}
  <2>1. SkipSlashes(p) = <<>>
    BY <1>2 DEF SkipSlashes
  <2>2. Ends(<<>>, p, n) /\ \A k \in 1..n : p[k] = "/"
    BY <1>1, <1>2, EmptySeq DEF Ends
  <2>3. Meant(p) = Meant(<<>>)
    BY <2>2, LeadingSlashes
  <2> QED
    BY <2>1, <2>3, EmptySeq DEF Slashes
<1>3. CASE letters # {}
  <2> DEFINE i == Min(letters)
             r == SubSeq(p, i, n)
  <2>1. i \in letters /\ \A x \in letters : i <= x
    <3> HIDE DEF letters
    <3> QED
      BY <1>1, <1>3, MinIsIn
  <2>2. SkipSlashes(p) = r
    BY <1>3 DEF SkipSlashes
  <2>3. i \in 1..n /\ p[i] # "/" /\ i - 1 \in 0..n /\ (i - 1) + 1 = i
    BY <1>1, <2>1
  <2>4. \A k \in 1..(i - 1) : p[k] = "/"
    <3> SUFFICES ASSUME NEW k \in 1..(i - 1), p[k] # "/" PROVE FALSE
      OBVIOUS
    <3>1. k \in 1..n /\ ~ (i <= k)
      BY <1>1, <2>3
    <3>2. k \in letters
      BY <1>1, <3>1
    <3> HIDE DEF i, letters
    <3> QED
      BY <2>1, <3>1, <3>2
  <2> HIDE DEF i, letters
  <2>5. Ends(r, p, i - 1)
    BY <2>3, SubSeqEnds
  <2>6. Meant(p) = Meant(r) /\ r \in Seq(Char)
    BY <2>4, <2>5, LeadingSlashes DEF Ends
  <2>7. r[1] = p[(i - 1) + 1]
    <3>1. 1 \in 1..Len(r)
      BY <1>1, <2>3, <2>5 DEF Ends
    <3> QED
      BY <2>5, <3>1 DEF Ends
  <2> QED
    BY <2>2, <2>3, <2>6, <2>7 DEF Slashes
<1> QED
  BY <1>2, <1>3

\* The path of v in the directory of path a.
Joined(a, v) == (a \o <<"/">>) \o v

\* A target is the name in front of its first slash, that slash, and what is behind it.
LEMMA MeantSplit ==
  ASSUME NEW r \in Seq(Char), Slashes(r) # {}, 1 \notin Slashes(r)
  PROVE  /\ NextName(r) \in Seq(Char) /\ Slashes(NextName(r)) = {}
         /\ AfterName(r) \in Seq(Char) /\ 1 \notin Slashes(AfterName(r))
         /\ Meant(AfterName(r)) \in Seq(Char)
         /\ Meant(r) = Joined(NextName(r), Meant(AfterName(r)))
<1> DEFINE n == Len(r)
           j == Min(Slashes(r))
           name == SubSeq(r, 1, j - 1)
           s == SubSeq(r, j, n)
           t == SubSeq(r, j + 1, n)
<1>1. n \in Nat /\ DOMAIN r = 1..n /\ Slashes(r) \in SUBSET Nat
  BY DEF Slashes
<1>2. j \in Slashes(r) /\ \A x \in Slashes(r) : j <= x
  BY <1>1, MinIsIn
<1>3. NextName(r) = name /\ AfterName(r) = SkipSlashes(s)
  BY DEF NextName, AfterName
<1> HIDE DEF j
<1>4. /\ j \in 1..n /\ r[j] = "/" /\ j > 1
      /\ j - 1 \in 1..n /\ j - 1 \in 0..n /\ j \in 0..n /\ j - 1 \in Nat /\ (j - 1) + 1 = j
  BY <1>1, <1>2 DEF Slashes
<1>5. \A k \in 1..(j - 1) : r[k] # "/" /\ r[k] \in Char /\ k \in 1..n
  <2> SUFFICES ASSUME NEW k \in 1..(j - 1) PROVE r[k] # "/" /\ r[k] \in Char /\ k \in 1..n
    OBVIOUS
  <2>1. k \in 1..n /\ ~ (j <= k)
    BY <1>1, <1>4
  <2>2. k \notin Slashes(r)
    BY <1>2, <2>1
  <2> QED
    BY <1>1, <2>1, <2>2 DEF Slashes
<1>6. /\ name \in Seq(Char) /\ Len(name) = j - 1
      /\ \A k \in 1..(j - 1) : name[k] = r[k]
  <2>1. 1 \in Int /\ j - 1 \in Int /\ 1 <= j - 1
    BY <1>4
  <2>2. \A k \in 1..((j - 1) - 1 + 1) : SubSeq(r, 1, j - 1)[k] = r[1 + k - 1]
    BY <1>5, <2>1, SubSeqProperties
  <2>3. (j - 1) - 1 + 1 = j - 1 /\ \A k \in 1..(j - 1) : 1 + k - 1 = k
    BY <1>4
  <2>4. SubSeq(r, 1, j - 1) \in Seq(Char) /\ Len(SubSeq(r, 1, j - 1)) = (j - 1) - 1 + 1
    BY <1>5, <2>1, SubSeqProperties
  <2> QED
    BY <2>2, <2>3, <2>4
<1>7. Ends(s, r, j - 1) /\ Ends(t, r, j)
  <2>1. Ends(SubSeq(r, (j - 1) + 1, n), r, j - 1) /\ Ends(SubSeq(r, j + 1, n), r, j)
    BY <1>4, SubSeqEnds
  <2> QED
    BY <1>4, <2>1
<1> HIDE DEF name, s, t
<1>8. Slashes(name) = {}
  <2>1. DOMAIN name = 1..(j - 1)
    BY <1>6
  <2>2. \A k \in 1..(j - 1) : name[k] # "/"
    BY <1>5, <1>6
  <2> QED
    BY <2>1, <2>2 DEF Slashes
<1>9. Ends(t, s, 1) /\ \A k \in 1..1 : s[k] = "/"
  <2>1. Len(s) = n - (j - 1) /\ Len(t) = n - j /\ s \in Seq(Char) /\ t \in Seq(Char)
    BY <1>7 DEF Ends
  <2>2. 1 \in 0..Len(s) /\ 1 \in 1..Len(s) /\ Len(t) = Len(s) - 1 /\ (j - 1) + 1 = j
    BY <1>1, <1>4, <2>1
  <2>3. s[1] = "/"
    <3>1. s[1] = r[(j - 1) + 1]
      BY <1>7, <2>2 DEF Ends
    <3> QED
      BY <1>4, <2>2, <3>1
  <2>4. ASSUME NEW k \in 1..Len(t) PROVE t[k] = s[1 + k]
    <3>1. 1 + k \in 1..Len(s) /\ (j - 1) + (1 + k) = j + k
      BY <1>1, <1>4, <2>1, <2>2
    <3>2. t[k] = r[j + k] /\ s[1 + k] = r[(j - 1) + (1 + k)]
      BY <1>7, <3>1 DEF Ends
    <3> QED
      BY <3>1, <3>2
  <2>5. \A k \in 1..1 : k = 1
    OBVIOUS
  <2> QED
    BY <2>1, <2>2, <2>3, <2>4, <2>5 DEF Ends
<1>10. s \in Seq(Char) /\ Meant(s) = Meant(t) /\ Meant(t) \in Seq(Char)
  <2>1. s \in Seq(Char)
    BY <1>7 DEF Ends
  <2> QED
    BY <1>9, <2>1, LeadingSlashes
<1>11. PICK g : Reads(g, r) /\ Meant(r) = g[n]
  BY MeantReads
<1>12. g[j - 1] = name
  <2>1. \A k \in 1..(j - 1) : r[k] # "/"
    BY <1>5
  <2>2. g[j - 1] = SubSeq(r, 1, j - 1)
    BY <1>4, <1>11, <2>1, ReadsWord
  <2> QED
    BY <2>2 DEF name
<1>13. g[j] = Append(name, "/")
  <2>1. name # <<>> /\ Last(name) # "/"
    <3>1. j - 1 \in 1..(j - 1)
      BY <1>4
    <3>2. Last(name) = r[j - 1] /\ r[j - 1] # "/" /\ Len(name) # 0
      BY <1>4, <1>5, <1>6, <3>1 DEF Last
    <3> QED
      BY <3>2
  <2>2. g[j] = Add(name, "/")
    BY <1>4, <1>11, <1>12 DEF Reads
  <2> QED
    BY <2>1, <2>2 DEF Add
<1>14. Last(g[j]) = "/" /\ g[j] = name \o <<"/">>
  <2>1. "/" \in Char
    BY NamesAssumption
  <2>2. g[j] = name \o <<"/">>
    BY <1>6, <1>13, <2>1, AppendIsConcat
  <2>3. Len(g[j]) = Len(name) + 1 /\ g[j][Len(name) + 1] = "/"
    BY <1>6, <1>13, <2>1, AppendProperties
  <2>4. Last(g[j]) = "/"
    BY <2>3 DEF Last
  <2> QED
    BY <2>2, <2>4
<1>15. g[n] = g[j] \o Meant(t)
  <2>1. Reads(g, r) /\ Ends(t, r, j) /\ (g[j] = <<>> \/ Last(g[j]) = "/")
    BY <1>7, <1>11, <1>14
  <2> QED
    BY <2>1, MeantAfter
<1>16. /\ AfterName(r) \in Seq(Char) /\ Meant(AfterName(r)) = Meant(s)
       /\ 1 \notin Slashes(AfterName(r))
  BY <1>3, <1>10, SlashesSkipped
<1> QED
  BY <1>3, <1>6, <1>8, <1>10, <1>11, <1>14, <1>15, <1>16 DEF Joined

LEMMA OneSlash == <<"/">> \in Seq(Char) /\ Len(<<"/">>) = 1 /\ <<"/">>[1] = "/"
<1>1. "/" \in Char
  BY NamesAssumption
<1> QED
  BY <1>1

\* The first slash of a path is behind its first name.
LEMMA FirstSlash ==
  ASSUME NEW a \in Seq(Char), Slashes(a) = {}, NEW v \in Seq(Char)
  PROVE  /\ Joined(a, v) \in Seq(Char)
         /\ Len(a) + 1 \in 1..Len(Joined(a, v)) /\ Joined(a, v)[Len(a) + 1] = "/"
         /\ \A k \in 1..Len(a) : Joined(a, v)[k] = a[k] /\ a[k] # "/"
<1> DEFINE m == Len(a)
           y == a \o <<"/">>
           x == Joined(a, v)
<1>1. m \in Nat /\ Len(v) \in Nat /\ <<"/">> \in Seq(Char) /\ Len(<<"/">>) = 1
  BY OneSlash
<1>2. /\ y \in Seq(Char) /\ Len(y) = m + 1
      /\ \A k \in 1..(m + 1) : y[k] = IF k <= m THEN a[k] ELSE <<"/">>[k - m]
  BY <1>1, ConcatProperties
<1>3. y[m + 1] = "/"
  <2>1. m + 1 \in 1..(m + 1) /\ ~ (m + 1 <= m) /\ (m + 1) - m = 1
    BY <1>1
  <2> HIDE DEF y
  <2> QED
    BY <1>2, <2>1
<1>4. \A k \in 1..m : y[k] = a[k] /\ a[k] # "/"
  <2>1. \A k \in 1..m : k \in 1..(m + 1) /\ k <= m /\ a[k] # "/"
    BY <1>1 DEF Slashes
  <2> HIDE DEF y
  <2> QED
    BY <1>2, <2>1
<1> HIDE DEF y
<1>5. /\ x \in Seq(Char) /\ Len(x) = (m + 1) + Len(v)
      /\ \A k \in 1..((m + 1) + Len(v)) : x[k] = IF k <= m + 1 THEN y[k] ELSE v[k - (m + 1)]
  BY <1>2, ConcatProperties DEF y, Joined
<1> HIDE DEF x
<1>6. /\ m + 1 \in 1..Len(x) /\ m + 1 <= m + 1
      /\ \A k \in 1..m : k \in 1..Len(x) /\ k <= m + 1
  BY <1>1, <1>5
<1> QED
  BY <1>3, <1>4, <1>5, <1>6 DEF x

\* There is one way to split a path at its first slash.
LEMMA SplitOnce ==
  \A a, v, b, w \in Seq(Char) :
    Slashes(a) = {} /\ Slashes(b) = {} /\ Joined(a, v) = Joined(b, w) => a = b /\ v = w
<1> SUFFICES ASSUME NEW a \in Seq(Char), Slashes(a) = {}, NEW v \in Seq(Char),
                    NEW b \in Seq(Char), Slashes(b) = {}, NEW w \in Seq(Char),
                    Joined(a, v) = Joined(b, w)
             PROVE  a = b /\ v = w
  OBVIOUS
<1>1. /\ Len(a) + 1 \in 1..Len(Joined(a, v)) /\ Joined(a, v)[Len(a) + 1] = "/"
      /\ \A k \in 1..Len(a) : Joined(a, v)[k] = a[k] /\ a[k] # "/"
  BY FirstSlash
<1>2. /\ Len(b) + 1 \in 1..Len(Joined(b, w)) /\ Joined(b, w)[Len(b) + 1] = "/"
      /\ \A k \in 1..Len(b) : Joined(b, w)[k] = b[k] /\ b[k] # "/"
  BY FirstSlash
<1>3. Len(a) \in Nat /\ Len(b) \in Nat
  OBVIOUS
<1>4. Len(a) = Len(b)
  <2>1. Len(a) + 1 \notin 1..Len(b) /\ Len(b) + 1 \notin 1..Len(a)
    BY <1>1, <1>2
  <2> QED
    BY <1>3, <2>1
<1>5. a = b
  BY <1>1, <1>2, <1>4, SeqEqual
<1>6. a \o <<"/">> \in Seq(Char)
  BY OneSlash, ConcatProperties
<1> DEFINE y == a \o <<"/">>
<1>7. y \o v = y \o w /\ y \in Seq(Char)
  BY <1>5, <1>6 DEF Joined
<1> HIDE DEF y
<1> QED
  BY <1>5, <1>7, ConcatSimplifications

LEMMA WordIsNotSplit ==
  ASSUME NEW x, Slashes(x) = {}, NEW a \in Seq(Char), Slashes(a) = {}, NEW v \in Seq(Char)
  PROVE  x # Joined(a, v)
<1> SUFFICES ASSUME x = Joined(a, v) PROVE FALSE
  OBVIOUS
<1>1. x \in Seq(Char) /\ Len(a) + 1 \in 1..Len(x) /\ x[Len(a) + 1] = "/"
  BY FirstSlash
<1>2. Len(a) + 1 \in Slashes(x)
  BY <1>1 DEF Slashes
<1> QED
  BY <1>2

----------------------------------------------------------------------------
(***************************************************************************)
(* The paths of the entries.                                               *)
(***************************************************************************)

\* What the paths of the entries of a folder begin with.
BeginsWith(g, D) ==
  g = [x \in D \cup {Root} |-> IF x = Root THEN <<>> ELSE (g[Parent[x]] \o Names[x]) \o <<"/">>]

LEMMA BeginningsExist == \E g : BeginsWith(g, Entries)
<1> DEFINE Whole(D) == \A x \in D : Parent[x] \in D \cup {Root}
           Has(D) == Whole(D) /\ \E g : BeginsWith(g, D)
           Bad == {S \in SUBSET Entries : Has(Entries \ S)}
<1>1. Bad # {}
  <2> DEFINE g == [x \in {Root} |-> <<>>]
  <2>1. BeginsWith(g, {})
    BY DEF BeginsWith
  <2>2. Entries \ Entries = {} /\ Whole({})
    OBVIOUS
  <2> HIDE DEF g
  <2> QED
    BY <2>1, <2>2
<1>2. PICK S \in Bad : \A x \in S : S \ {x} \notin Bad
  <2>1. \A S \in Bad : IsFiniteSet(S)
    <3>1. \A S \in Bad : S \in SUBSET Entries
      OBVIOUS
    <3>2. IsFiniteSet(Entries)
      BY TreeAssumption, FS_Subset, FS_Union DEF Entries
    <3> HIDE DEF Bad
    <3> QED
      BY <3>1, <3>2, FS_Subset
  <2> HIDE DEF Bad
  <2> QED
    BY <1>1, <2>1, LeastSet
<1>3. CASE S = {}
  BY <1>3
<1>4. CASE S # {}
  <2> DEFINE D == Entries \ S
  <2>1. PICK e \in S : Parent[e] \notin S
    <3>1. S \in SUBSET Entries
      OBVIOUS
    <3> HIDE DEF Bad
    <3> QED
      BY <1>4, <3>1, TreeAssumption
  <2>2. PICK g : BeginsWith(g, D)
    OBVIOUS
  <2>3. Whole(D) /\ e \notin D /\ e \in Entries /\ e # Root /\ Parent[e] \in D \cup {Root}
    BY <2>1, ParentIsFolder
  <2> DEFINE E == D \cup {e}
             Below(f, x) == (f[Parent[x]] \o Names[x]) \o <<"/">>
             h == [x \in E \cup {Root} |-> IF x = e THEN Below(g, e) ELSE g[x]]
  <2>4. E = Entries \ (S \ {e})
    OBVIOUS
  <2> HIDE DEF Bad, D
  <2>5. \A x \in D \cup {Root} : g[x] = IF x = Root THEN <<>> ELSE Below(g, x)
    BY <2>2 DEF BeginsWith
  <2>6. \A x \in D \cup {Root} : h[x] = g[x]
    <3> HIDE DEF Below
    <3> QED
      BY <2>3
  <2>7. h[e] = Below(g, e)
    <3> HIDE DEF Below
    <3> QED
      OBVIOUS
  <2>8. \A x \in D : Parent[x] \in D \cup {Root}
    BY <2>3
  <2>9. h = [x \in E \cup {Root} |-> h[x]]
    OBVIOUS
  <2> HIDE DEF h
  <2>10. \A x \in D \cup {e} : Below(h, x) = Below(g, x)
    BY <2>3, <2>6, <2>8
  <2>11. \A x \in E \cup {Root} : h[x] = IF x = Root THEN <<>> ELSE Below(h, x)
    <3> HIDE DEF Below
    <3> QED
      BY <2>3, <2>5, <2>6, <2>7, <2>10
  <2> HIDE DEF E
  <2>12. BeginsWith(h, E)
    BY <2>9, <2>11 DEF BeginsWith
  <2>13. Whole(E)
    BY <2>3 DEF E
  <2>14. Has(E)
    BY <2>12, <2>13
  <2>15. S \ {e} \in SUBSET Entries /\ S \ {e} \in Bad
    <3> HIDE DEF Has
    <3> QED
      BY <2>4, <2>14 DEF Bad, E
  <2> QED
    BY <1>2, <2>1, <2>15
<1> QED
  BY <1>3, <1>4

\* g holds what the paths of the entries of each folder begin with.
Beginnings(g) ==
  /\ g[Root] = <<>>
  /\ \A e \in Entries : g[e] = (g[Parent[e]] \o Names[e]) \o <<"/">>
  /\ \A d \in Folders : g[d] \in Seq(Char)
  /\ \A e \in Entries : PathOf[e] = g[Parent[e]] \o Names[e]

LEMMA PathsAre == \E g : Beginnings(g)
<1> DEFINE F(p) == [e \in Entries |-> IF Parent[e] = Root THEN Names[e]
                                      ELSE (p[Parent[e]] \o <<"/">>) \o Names[e]]
           In(g) == [e \in Entries |-> g[Parent[e]] \o Names[e]]
<1>1. PICK g : BeginsWith(g, Entries)
  BY BeginningsExist
<1>2. /\ g[Root] = <<>>
      /\ \A e \in Entries : g[e] = (g[Parent[e]] \o Names[e]) \o <<"/">>
  <2>1. \A e \in Entries : e # Root
    BY ParentIsFolder
  <2> QED
    BY <1>1, <2>1 DEF BeginsWith
<1>3. ASSUME NEW e \in Entries PROVE g[e] \in Seq(Char)
  <2> DEFINE Bad == {x \in Entries : g[x] \notin Seq(Char)}
  <2>1. ASSUME Bad # {} PROVE FALSE
    <3>1. PICK x \in Bad : Parent[x] \notin Bad
      <4>1. Bad \in SUBSET Entries
        OBVIOUS
      <4> HIDE DEF Bad
      <4> QED
        BY <2>1, <4>1, TreeAssumption
    <3>2. g[Parent[x]] \in Seq(Char)
      BY <1>2, <3>1, ParentIsFolder, EmptySeq
    <3>3. Names[x] \in Seq(Char) /\ <<"/">> \in Seq(Char)
      BY <3>1, NamesAssumption, OneSlash
    <3>4. (g[Parent[x]] \o Names[x]) \o <<"/">> \in Seq(Char)
      BY <3>2, <3>3, ConcatProperties
    <3> QED
      BY <1>2, <3>1, <3>4
  <2> QED
    BY <2>1
<1>4. \A d \in Folders : g[d] \in Seq(Char)
  BY <1>2, <1>3, FolderIsEntry, EmptySeq
<1>5. \A e \in Entries : In(g)[e] = g[Parent[e]] \o Names[e]
  OBVIOUS
<1>6. ASSUME NEW p, \A e \in Entries : Parent[e] \in Entries => p[Parent[e]] = In(g)[Parent[e]],
             NEW e \in Entries
      PROVE  F(p)[e] = g[Parent[e]] \o Names[e]
  <2>1. CASE Parent[e] = Root
    <3>1. Names[e] \in Seq(Char)
      BY NamesAssumption
    <3>2. g[Parent[e]] \o Names[e] = Names[e]
      BY <1>2, <2>1, <3>1, ConcatEmptySeq
    <3> QED
      BY <2>1, <3>2
  <2>2. CASE Parent[e] # Root
    <3>1. Parent[e] \in Entries
      BY <2>2, ParentIsFolder
    <3>2. p[Parent[e]] \o <<"/">> = g[Parent[e]]
      BY <1>2, <1>5, <1>6, <3>1
    <3> QED
      BY <2>2, <3>2
  <2> QED
    BY <2>1, <2>2
<1>7. In(g) = F(In(g))
  <2>1. \A e \in Entries : F(In(g))[e] = In(g)[e]
    <3> HIDE DEF F, In
    <3> QED
      BY <1>5, <1>6
  <2>2. In(g) = [e \in Entries |-> In(g)[e]]
    OBVIOUS
  <2> HIDE DEF In
  <2>3. F(In(g)) = [e \in Entries |-> F(In(g))[e]]
    OBVIOUS
  <2> HIDE DEF F
  <2> QED
    BY <2>1, <2>2, <2>3
<1>8. PathOf = F(PathOf)
  <2>1. PathOf = CHOOSE p : p = F(p)
    BY DEF PathOf
  <2> HIDE DEF F
  <2> QED
    BY <1>7, <2>1
<1> DEFINE Bad == {e \in Entries : PathOf[e] # In(g)[e]}
<1>9. ASSUME Bad # {} PROVE FALSE
  <2>1. PICK e \in Bad : Parent[e] \notin Bad
    <3>1. Bad \in SUBSET Entries
      OBVIOUS
    <3> HIDE DEF Bad
    <3> QED
      BY <1>9, <3>1, TreeAssumption
  <2>2. e \in Entries /\ PathOf[e] # In(g)[e]
    BY <2>1
  <2>3. Parent[e] \in Entries => PathOf[Parent[e]] = In(g)[Parent[e]]
    BY <2>1
  <2>4. F(PathOf)[e] = F(In(g))[e]
    <3>1. CASE Parent[e] = Root
      BY <2>2, <3>1
    <3>2. CASE Parent[e] # Root
      <4> HIDE DEF In
      <4> QED
        BY <2>2, <2>3, <3>2, ParentIsFolder
    <3> QED
      BY <3>1, <3>2
  <2> HIDE DEF F, In
  <2> QED
    BY <1>7, <1>8, <2>2, <2>4
<1>10. \A e \in Entries : PathOf[e] = g[Parent[e]] \o Names[e]
  <2>1. \A e \in Entries : PathOf[e] = In(g)[e]
    BY <1>9
  <2> HIDE DEF In
  <2> QED
    BY <1>5, <2>1
<1> QED
  BY <1>2, <1>4, <1>10 DEF Beginnings

----------------------------------------------------------------------------
(***************************************************************************)
(* The lookup.                                                             *)
(***************************************************************************)

LEMMA FileFound ==
  ASSUME Types, NEW d \in Folders, NEW name
  PROVE  LET f == findFileInFolder(d, name) IN
           /\ f # NOT_FOUND => f \in FilesIn(d) /\ f \in Files /\ Names[f] = name
           /\ (\E e \in FilesIn(d) : Names[e] = name) => f # NOT_FOUND
<1> DEFINE found == {i \in DOMAIN files[d] : Names[files[d][i].entry] = name}
           f == findFileInFolder(d, name)
<1>1. files[d] \in Seq(FileEntry) /\ DOMAIN files[d] \in SUBSET Nat
  <2>1. files[d] \in Seq(FileEntry)
    BY DEF Types
  <2> QED
    BY <2>1
<1>2. f = IF found = {} THEN NOT_FOUND ELSE files[d][Min(found)].entry
  BY DEF findFileInFolder
<1>3. CASE found = {}
  <2>1. f = NOT_FOUND
    BY <1>2, <1>3
  <2>2. \A e \in FilesIn(d) : Names[e] # name
    BY <1>3 DEF FilesIn
  <2> HIDE DEF found, f
  <2> QED
    BY <2>1, <2>2 DEF f
<1>4. CASE found # {}
  <2>1. found \in SUBSET Nat
    BY <1>1
  <2>2. Min(found) \in found
    <3> HIDE DEF found
    <3> QED
      BY <1>4, <2>1, MinIsIn
  <2>3. f = files[d][Min(found)].entry
    BY <1>2, <1>4
  <2> DEFINE i == Min(found)
  <2> HIDE DEF i, f
  <2>4. i \in DOMAIN files[d] /\ Names[files[d][i].entry] = name
    BY <2>2 DEF i
  <2>5. f = files[d][i].entry
    BY <2>3 DEF i
  <2>6. f \in Files /\ f \in FilesIn(d)
    <3>1. files[d][i] \in FileEntry
      BY <1>1, <2>4
    <3> QED
      BY <2>4, <2>5, <3>1 DEF FileEntry, FilesIn
  <2>7. f # NOT_FOUND
    BY <2>6, TreeAssumption
  <2> QED
    BY <2>4, <2>5, <2>6, <2>7 DEF f
<1> QED
  BY <1>3, <1>4

LEMMA SubfolderFound ==
  ASSUME Types, NEW d \in Folders, NEW name
  PROVE  LET c == findSubfolderInFolder(d, name) IN
           /\ c # NOT_FOUND => c \in ToSet(folders[d]) /\ Names[c] = name
           /\ (\E e \in ToSet(folders[d]) : Names[e] = name) => c # NOT_FOUND
<1> DEFINE found == {i \in DOMAIN folders[d] : Names[folders[d][i]] = name}
           c == findSubfolderInFolder(d, name)
<1>1. folders[d] \in Seq(Folders) /\ DOMAIN folders[d] \in SUBSET Nat
  <2>1. folders[d] \in Seq(Folders)
    BY DEF Types
  <2> QED
    BY <2>1
<1>2. c = IF found = {} THEN NOT_FOUND ELSE folders[d][Min(found)]
  BY DEF findSubfolderInFolder
<1>3. CASE found = {}
  <2>1. c = NOT_FOUND
    BY <1>2, <1>3
  <2>2. \A e \in ToSet(folders[d]) : Names[e] # name
    BY <1>3 DEF ToSet
  <2> HIDE DEF found, c
  <2> QED
    BY <2>1, <2>2 DEF c
<1>4. CASE found # {}
  <2>1. found \in SUBSET Nat
    BY <1>1
  <2>2. Min(found) \in found
    <3> HIDE DEF found
    <3> QED
      BY <1>4, <2>1, MinIsIn
  <2>3. c = folders[d][Min(found)]
    BY <1>2, <1>4
  <2> DEFINE i == Min(found)
  <2> HIDE DEF i, c
  <2>4. i \in DOMAIN folders[d] /\ Names[folders[d][i]] = name
    BY <2>2 DEF i
  <2>5. c = folders[d][i]
    BY <2>3 DEF i
  <2>6. c \in Folders /\ c \in ToSet(folders[d])
    BY <1>1, <2>4, <2>5 DEF ToSet
  <2>7. c # NOT_FOUND
    BY <2>6, TreeAssumption
  <2> QED
    BY <2>4, <2>5, <2>6, <2>7 DEF c
<1> QED
  BY <1>3, <1>4

\* g is what findFileInCache() finds from each folder of D.
Looked(g, d) ==
  [rest \in Seq(Char) |->
     LET next == findSubfolderInFolder(d, NextName(rest))
     IN  IF Slashes(rest) = {} THEN findFileInFolder(d, rest)
         ELSE IF next = NOT_FOUND THEN NOT_FOUND
         ELSE g[next][AfterName(rest)]]
Finds(g, D) == g = [d \in D |-> Looked(g, d)]

LEMMA SameLooked ==
  ASSUME Types, NEW d \in Folders, NEW g, NEW h, \A c \in ToSet(folders[d]) : g[c] = h[c]
  PROVE  Looked(g, d) = Looked(h, d)
<1> SUFFICES ASSUME NEW rest \in Seq(Char)
             PROVE  Looked(g, d)[rest] = Looked(h, d)[rest]
  BY DEF Looked
<1> DEFINE next == findSubfolderInFolder(d, NextName(rest))
<1>1. next # NOT_FOUND => next \in ToSet(folders[d])
  BY SubfolderFound
<1>2. \A f : Looked(f, d)[rest] = IF Slashes(rest) = {} THEN findFileInFolder(d, rest)
                                  ELSE IF next = NOT_FOUND THEN NOT_FOUND
                                  ELSE f[next][AfterName(rest)]
  BY DEF Looked
<1> HIDE DEF next
<1> QED
  BY <1>1, <1>2

LEMMA FindExists ==
  ASSUME Types, ListedInv
  PROVE  \E g : Finds(g, Folders)
<1> DEFINE Whole(D) == \A d \in D : ToSet(folders[d]) \subseteq D
           Has(D) == Whole(D) /\ \E g : Finds(g, D)
           Bad == {S \in SUBSET Folders : Has(Folders \ S)}
<1>1. Bad # {}
  <2> DEFINE g == [d \in {} |-> d]
  <2>1. Finds(g, {})
    BY DEF Finds
  <2>2. Folders \ Folders = {} /\ Whole({})
    OBVIOUS
  <2> HIDE DEF g
  <2> QED
    BY <2>1, <2>2
<1>2. PICK S \in Bad : \A x \in S : S \ {x} \notin Bad
  <2>1. \A S \in Bad : IsFiniteSet(S)
    <3>1. \A S \in Bad : S \in SUBSET Folders
      OBVIOUS
    <3> HIDE DEF Bad
    <3> QED
      BY <3>1, TreeAssumption, FS_Subset
  <2> HIDE DEF Bad
  <2> QED
    BY <1>1, <2>1, LeastSet
<1>3. CASE S = {}
  BY <1>3
<1>4. CASE S # {}
  <2> DEFINE D == Folders \ S
  <2>1. PICK d \in S : \A c \in S \ {Root} : Parent[c] # d
    <3>1. S \in SUBSET Folders
      OBVIOUS
    <3> HIDE DEF Bad
    <3> QED
      BY <1>4, <3>1, LowestFolder
  <2>2. PICK g : Finds(g, D)
    OBVIOUS
  <2>3. Whole(D) /\ d \notin D /\ d \in Folders
    OBVIOUS
  <2> DEFINE E == D \cup {d}
             h == [x \in E |-> IF x = d THEN Looked(g, d) ELSE g[x]]
  <2>4. E = Folders \ (S \ {d})
    OBVIOUS
  <2>5. \A x \in E : ToSet(folders[x]) \subseteq D /\ x \in Folders
    <3>1. ToSet(folders[d]) \subseteq D
      BY <2>1, <2>3, RangeInFolders DEF ListedInv
    <3> QED
      BY <2>3, <3>1
  <2> HIDE DEF Bad, D
  <2>6. \A c \in D : h[c] = g[c]
    BY <2>3
  <2>7. \A x \in D : g[x] = Looked(g, x)
    BY <2>2 DEF Finds
  <2> HIDE DEF h
  <2>8. ASSUME NEW x \in E PROVE Looked(h, x) = Looked(g, x)
    <3>1. \A c \in ToSet(folders[x]) : h[c] = g[c]
      BY <2>5, <2>6
    <3> QED
      BY <2>5, <3>1, SameLooked
  <2>9. \A x \in E : h[x] = Looked(h, x)
    BY <2>7, <2>8 DEF h
  <2>10. h = [x \in E |-> h[x]]
    BY DEF h
  <2>11. Finds(h, E)
    BY <2>9, <2>10 DEF Finds
  <2>12. Has(E)
    BY <2>5, <2>11
  <2>13. S \ {d} \in Bad
    <3>1. S \ {d} \in SUBSET Folders
      BY <1>2 DEF Bad
    <3> HIDE DEF E, Has
    <3> QED
      BY <2>4, <2>12, <3>1 DEF Bad
  <2> QED
    BY <1>2, <2>1, <2>13
<1> QED
  BY <1>3, <1>4

LEMMA CacheFinds ==
  ASSUME Types, ListedInv
  PROVE  \E g : /\ Finds(g, Folders)
                /\ \A path : findFileInCache(path) = g[Root][SkipSlashes(path)]
<1> DEFINE F(g) == [d \in Folders |-> Looked(g, d)]
           find == CHOOSE g : g = F(g)
<1>1. \E g : g = F(g)
  BY FindExists DEF Finds
<1>2. find = F(find)
  <2> HIDE DEF F
  <2> QED
    BY <1>1
<1>3. \A path : findFileInCache(path) = find[Root][SkipSlashes(path)]
  BY DEF findFileInCache, Looked
<1> HIDE DEF find
<1> QED
  BY <1>2, <1>3 DEF Finds

\* What is behind the name of a folder on a path is on the path of that folder.
LEMMA OneFolderDown ==
  ASSUME NEW b, Beginnings(b), NEW e \in Entries, e \in Folders, NEW v \in Seq(Char)
  PROVE  b[e] \o v = b[Parent[e]] \o Joined(Names[e], v)
<1> DEFINE up == b[Parent[e]]
           name == Names[e]
<1>1. up \in Seq(Char) /\ name \in Seq(Char) /\ <<"/">> \in Seq(Char)
  BY NamesAssumption, ParentIsFolder, OneSlash DEF Beginnings
<1>2. b[e] = (up \o name) \o <<"/">>
  BY DEF Beginnings
<1> HIDE DEF up, name
<1>3. name \o <<"/">> \in Seq(Char)
  BY <1>1, ConcatProperties
<1>4. (up \o name) \o <<"/">> = up \o (name \o <<"/">>)
  <2> DEFINE slash == <<"/">>
  <2>1. slash \in Seq(Char)
    BY <1>1
  <2> HIDE DEF slash
  <2>2. (up \o name) \o slash = up \o (name \o slash)
    BY <1>1, <2>1, ConcatAssociative
  <2> QED
    BY <2>2 DEF slash
<1> DEFINE below == name \o <<"/">>
<1>5. (up \o below) \o v = up \o (below \o v)
  <2>1. below \in Seq(Char)
    BY <1>3
  <2> HIDE DEF below
  <2> QED
    BY <1>1, <2>1, ConcatAssociative
<1> HIDE DEF below
<1>6. Joined(name, v) = below \o v
  BY DEF Joined, below
<1>7. b[e] \o v = (up \o below) \o v
  BY <1>2, <1>4 DEF below
<1> QED
  BY <1>5, <1>6, <1>7 DEF up, name

LEMMA NamesAreWords == \A e \in Entries : Names[e] \in Seq(Char) /\ Slashes(Names[e]) = {}
BY NamesAssumption DEF Slashes

LEMMA LookedUp ==
  ASSUME NEW g, Finds(g, Folders), NEW d \in Folders, NEW r \in Seq(Char)
  PROVE  g[d][r] = LET next == findSubfolderInFolder(d, NextName(r))
                   IN  IF Slashes(r) = {} THEN findFileInFolder(d, r)
                       ELSE IF next = NOT_FOUND THEN NOT_FOUND
                       ELSE g[next][AfterName(r)]
<1>1. g[d] = Looked(g, d)
  BY DEF Finds
<1>2. Looked(g, d)[r] = LET next == findSubfolderInFolder(d, NextName(r))
                        IN  IF Slashes(r) = {} THEN findFileInFolder(d, r)
                            ELSE IF next = NOT_FOUND THEN NOT_FOUND
                            ELSE g[next][AfterName(r)]
  BY DEF Looked
<1> QED
  BY <1>1, <1>2

\* What is found from d has the path that was looked for.
Sound(g, b, d) ==
  \A r \in Seq(Char) :
    1 \notin Slashes(r) /\ g[d][r] # NOT_FOUND =>
      g[d][r] \in Files /\ PathOf[g[d][r]] = b[d] \o Meant(r)

LEMMA FolderSound ==
  ASSUME Types, ListedInv, ListsInv, NEW g, Finds(g, Folders), NEW b, Beginnings(b),
         NEW d \in Folders, \A c \in ToSet(folders[d]) : Sound(g, b, c)
  PROVE  Sound(g, b, d)
<1> SUFFICES ASSUME NEW r \in Seq(Char), 1 \notin Slashes(r), g[d][r] # NOT_FOUND
             PROVE  g[d][r] \in Files /\ PathOf[g[d][r]] = b[d] \o Meant(r)
  BY DEF Sound
<1> DEFINE next == findSubfolderInFolder(d, NextName(r))
<1>1. g[d][r] = IF Slashes(r) = {} THEN findFileInFolder(d, r)
                ELSE IF next = NOT_FOUND THEN NOT_FOUND
                ELSE g[next][AfterName(r)]
  BY LookedUp
<1>2. CASE Slashes(r) = {}
  <2> DEFINE f == findFileInFolder(d, r)
  <2>1. g[d][r] = f
    BY <1>1, <1>2
  <2>2. f \in FilesIn(d) /\ f \in Files /\ Names[f] = r
    BY <2>1, FileFound
  <2> HIDE DEF f
  <2>3. f \in Entries /\ Parent[f] = d
    BY <2>2 DEF ListsInv, FilesOnce, Children
  <2>4. PathOf[f] = b[d] \o r
    BY <2>2, <2>3 DEF Beginnings
  <2>5. Meant(r) = r
    BY <1>2, MeantWord
  <2> QED
    BY <2>1, <2>2, <2>4, <2>5
<1>3. CASE Slashes(r) # {}
  <2>1. next # NOT_FOUND /\ g[d][r] = g[next][AfterName(r)]
    BY <1>1, <1>3
  <2>2. next \in ToSet(folders[d]) /\ Names[next] = NextName(r)
    BY <2>1, SubfolderFound
  <2> HIDE DEF next
  <2>3. next \in Folders /\ next # Root /\ Parent[next] = d /\ next \in Entries
    BY <2>2, RangeInFolders, FolderIsEntry DEF ListedInv
  <2> DEFINE rest == AfterName(r)
  <2>4. /\ rest \in Seq(Char) /\ 1 \notin Slashes(rest) /\ Meant(rest) \in Seq(Char)
        /\ Meant(r) = Joined(NextName(r), Meant(rest))
    BY <1>3, MeantSplit
  <2> HIDE DEF rest
  <2>5. g[d][r] = g[next][rest] /\ g[next][rest] # NOT_FOUND
    BY <2>1 DEF rest
  <2>6. g[d][r] \in Files /\ PathOf[g[d][r]] = b[next] \o Meant(rest)
    BY <2>2, <2>4, <2>5 DEF Sound
  <2>7. b[next] \o Meant(rest) = b[Parent[next]] \o Joined(Names[next], Meant(rest))
    BY <2>3, <2>4, OneFolderDown
  <2> QED
    BY <2>2, <2>3, <2>4, <2>6, <2>7
<1> QED
  BY <1>2, <1>3

LEMMA EveryFolderSound ==
  ASSUME Types, ListedInv, ListsInv, NEW g, Finds(g, Folders), NEW b, Beginnings(b)
  PROVE  \A d \in Folders : Sound(g, b, d)
<1> DEFINE Bad == {d \in Folders : ~ Sound(g, b, d)}
<1>1. ASSUME Bad # {} PROVE FALSE
  <2>1. PICK d \in Bad : \A c \in Bad \ {Root} : Parent[c] # d
    <3>1. Bad \in SUBSET Folders
      OBVIOUS
    <3> HIDE DEF Bad
    <3> QED
      BY <1>1, <3>1, LowestFolder
  <2>2. ASSUME NEW c \in ToSet(folders[d]) PROVE Sound(g, b, c)
    <3>1. c \in Folders /\ c # Root /\ Parent[c] = d
      BY RangeInFolders DEF ListedInv
    <3> QED
      BY <2>1, <3>1
  <2>3. Sound(g, b, d)
    BY <2>2, FolderSound
  <2> QED
    BY <2>3
<1> QED
  BY <1>1

\* A target that means a path through a directory has the name of that directory in front.
LEMMA NameInFront ==
  ASSUME NEW r \in Seq(Char), 1 \notin Slashes(r), Slashes(r) # {},
         NEW name \in Seq(Char), Slashes(name) = {}, NEW w \in Seq(Char),
         Meant(r) = Joined(name, w)
  PROVE  NextName(r) = name /\ Meant(AfterName(r)) = w
<1>1. /\ NextName(r) \in Seq(Char) /\ Slashes(NextName(r)) = {}
      /\ Meant(AfterName(r)) \in Seq(Char)
      /\ Meant(r) = Joined(NextName(r), Meant(AfterName(r)))
  BY MeantSplit
<1>2. PICK front \in Seq(Char), behind \in Seq(Char) :
        front = NextName(r) /\ behind = Meant(AfterName(r))
  BY <1>1
<1>3. Slashes(front) = {} /\ Joined(front, behind) = Joined(name, w)
  BY <1>1, <1>2
<1>4. front = name /\ behind = w
  BY <1>3, SplitOnce
<1> QED
  BY <1>2, <1>4

\* A target that means w leads from d to f.
Leads(g, d, w, f) == \A r \in Seq(Char) : 1 \notin Slashes(r) /\ Meant(r) = w => g[d][r] = f

LEMMA NameLeads ==
  ASSUME CacheInv, MirrorInv, ListsInv, pc = "done", NEW g, Finds(g, Folders),
         NEW f \in Files, Exists(f)
  PROVE  Leads(g, Parent[f], Names[f], f) /\ Exists(Parent[f])
<1> DEFINE d == Parent[f]
<1>1. f \in Entries /\ d \in Folders /\ Types /\ f \in Children(d) /\ f \notin Folders
  BY ParentIsFolder, TreeAssumption DEF CacheInv, Entries, Children
<1>2. Exists(d)
  BY <1>1, ExistsAre, ExistsUp
<1>3. f \in FilesIn(d)
  <2>1. Begun(d) /\ FilesSeen(d) = FilesIn(d)
    BY <1>1, <1>2, EveryFolderBegun
  <2>2. AllSeen
    BY DEF MirrorInv
  <2> QED
    BY <1>1, <2>1, <2>2 DEF AllSeen, Seen
<1> HIDE DEF d
<1>4. ASSUME NEW r \in Seq(Char), 1 \notin Slashes(r), Meant(r) = Names[f]
      PROVE  g[d][r] = f
  <2>1. Names[f] \in Seq(Char) /\ Slashes(Names[f]) = {}
    BY <1>1, NamesAreWords
  <2>2. Slashes(r) = {}
    <3>1. ASSUME Slashes(r) # {} PROVE FALSE
      <4>1. /\ NextName(r) \in Seq(Char) /\ Slashes(NextName(r)) = {}
            /\ Meant(AfterName(r)) \in Seq(Char)
            /\ Meant(r) = Joined(NextName(r), Meant(AfterName(r)))
        BY <1>4, <3>1, MeantSplit
      <4> QED
        BY <1>4, <2>1, <4>1, WordIsNotSplit
    <3> QED
      BY <3>1
  <2>3. r = Names[f]
    BY <1>4, <2>2, MeantWord
  <2>4. g[d][r] = findFileInFolder(d, r)
    BY <1>1, <2>2, LookedUp
  <2> DEFINE e == findFileInFolder(d, r)
  <2>5. e \in FilesIn(d) /\ Names[e] = Names[f]
    BY <1>1, <1>3, <2>3, FileFound
  <2> HIDE DEF e
  <2>6. e \in Entries /\ Parent[e] = d
    BY <1>1, <2>5 DEF ListsInv, FilesOnce, Children
  <2>7. e = f
    BY <1>1, <2>5, <2>6, NamesAssumption DEF d
  <2> QED
    BY <2>4, <2>7 DEF e
<1> QED
  BY <1>2, <1>4 DEF Leads, d

LEMMA FolderLeads ==
  ASSUME CacheInv, MirrorInv, pc = "done", NEW g, Finds(g, Folders),
         NEW d \in Folders, d # Root, Exists(d), NEW w \in Seq(Char), NEW f, Leads(g, d, w, f)
  PROVE  Leads(g, Parent[d], Joined(Names[d], w), f) /\ Exists(Parent[d])
<1> DEFINE up == Parent[d]
<1>1. d \in Entries /\ up \in Folders /\ Types /\ d \in Children(up) /\ d \notin Files
  BY FolderIsEntry, ParentIsFolder, TreeAssumption DEF CacheInv, Children
<1>2. Exists(up)
  BY <1>1, ExistsAre, ExistsUp
<1>3. d \in ToSet(folders[up])
  <2>1. Begun(up) /\ FoldersSeen(up) = ToSet(folders[up])
    BY <1>1, <1>2, EveryFolderBegun
  <2>2. AllSeen
    BY DEF MirrorInv
  <2> QED
    BY <1>1, <2>1, <2>2 DEF AllSeen, Seen
<1> HIDE DEF up
<1>4. ASSUME NEW r \in Seq(Char), 1 \notin Slashes(r), Meant(r) = Joined(Names[d], w)
      PROVE  g[up][r] = f
  <2>1. Names[d] \in Seq(Char) /\ Slashes(Names[d]) = {}
    BY <1>1, NamesAreWords
  <2>2. Slashes(r) # {}
    <3>1. ASSUME Slashes(r) = {} PROVE FALSE
      <4>1. Meant(r) = r
        BY <3>1, MeantWord
      <4> QED
        BY <1>4, <2>1, <3>1, <4>1, WordIsNotSplit
    <3> QED
      BY <3>1
  <2> DEFINE rest == AfterName(r)
  <2>3. /\ rest \in Seq(Char) /\ 1 \notin Slashes(rest)
        /\ NextName(r) = Names[d] /\ Meant(rest) = w
    BY <1>4, <2>1, <2>2, MeantSplit, NameInFront
  <2> HIDE DEF rest
  <2> DEFINE c == findSubfolderInFolder(up, NextName(r))
  <2>4. c # NOT_FOUND /\ c \in ToSet(folders[up]) /\ Names[c] = Names[d]
    BY <1>1, <1>3, <2>3, SubfolderFound
  <2>5. g[up][r] = g[c][rest]
    BY <1>1, <2>2, <2>4, LookedUp DEF rest
  <2> HIDE DEF c
  <2>6. c \in Entries /\ Parent[c] = up
    BY <1>1, <2>4, RangeInFolders, FolderIsEntry DEF MirrorInv, ListedInv
  <2>7. c = d
    BY <1>1, <2>4, <2>6, NamesAssumption DEF up
  <2> QED
    BY <2>3, <2>5, <2>7 DEF Leads
<1> QED
  BY <1>2, <1>4 DEF Leads, up

\* From the root, the path of a file that is still there leads to it.
LEMMA PathLeads ==
  ASSUME CacheInv, MirrorInv, ListsInv, pc = "done", NEW g, Finds(g, Folders),
         NEW b, Beginnings(b), NEW f \in Files, Exists(f)
  PROVE  Leads(g, Root, PathOf[f], f)
<1> DEFINE Astray(d, w) == Leads(g, d, w, f) /\ ~ Leads(g, Root, b[d] \o w, f)
           Bad == {d \in Folders \ {Root} : Exists(d) /\ \E w \in Seq(Char) : Astray(d, w)}
<1>1. Root \in Folders /\ \A w \in Seq(Char) : b[Root] \o w = w
  BY TreeAssumption, ConcatEmptySeq DEF Beginnings
<1>2. ASSUME Bad # {} PROVE FALSE
  <2>1. PICK d \in Bad : Parent[d] \notin Bad
    <3>1. Bad \in SUBSET Entries
      BY FolderIsEntry
    <3> HIDE DEF Bad
    <3> QED
      BY <1>2, <3>1, TreeAssumption
  <2>2. d \in Folders /\ d # Root /\ Exists(d) /\ d \in Entries
    BY <2>1, FolderIsEntry
  <2>3. PICK w \in Seq(Char) : Astray(d, w)
    BY <2>1
  <2> DEFINE up == Parent[d]
             v == Joined(Names[d], w)
  <2>4. up \in Folders /\ v \in Seq(Char)
    BY <2>2, ParentIsFolder, NamesAreWords, FirstSlash
  <2>5. Leads(g, up, v, f) /\ Exists(up)
    BY <2>2, <2>3, FolderLeads
  <2>6. b[d] \o w = b[up] \o v
    BY <2>2, OneFolderDown
  <2> HIDE DEF v
  <2>7. Leads(g, Root, b[up] \o v, f)
    BY <1>1, <2>1, <2>4, <2>5
  <2> QED
    BY <2>3, <2>6, <2>7
<1>3. f \in Entries /\ Parent[f] \in Folders /\ Names[f] \in Seq(Char)
  BY ParentIsFolder, NamesAreWords DEF Entries
<1>4. Leads(g, Parent[f], Names[f], f) /\ Exists(Parent[f])
  BY NameLeads
<1>5. Leads(g, Root, b[Parent[f]] \o Names[f], f)
  BY <1>1, <1>2, <1>3, <1>4
<1> QED
  BY <1>3, <1>5 DEF Beginnings

\* For every tree, whatever the names and the targets, and whatever shrinks, grows or
\* vanishes: a target finds the file whose path it means, if that was still there, and
\* no other (findFileInCache()).
THEOREM LookupIsAlwaysExact == Spec => []LookupIsExact
<1>1. ASSUME CacheInv, MirrorInv, ListsInv, pc = "done" PROVE LookupIsExact
  <2>1. Types /\ ListedInv
    BY <1>1 DEF CacheInv, MirrorInv
  <2>2. PICK g : /\ Finds(g, Folders)
                 /\ \A path : findFileInCache(path) = g[Root][SkipSlashes(path)]
    BY <2>1, CacheFinds
  <2>3. PICK b : Beginnings(b)
    BY PathsAre
  <2>4. SUFFICES ASSUME NEW path \in Targets
                 PROVE  LET found == findFileInCache(path)
                        IN  /\ found # NOT_FOUND => found \in FilesMeant[path]
                            /\ \A f \in FilesMeant[path] : Exists(f) => found = f
    BY DEF LookupIsExact
  <2> DEFINE rest == SkipSlashes(path)
             found == findFileInCache(path)
  <2>5. path \in Seq(Char)
    BY NamesAssumption
  <2>6. rest \in Seq(Char) /\ Meant(rest) = Meant(path) /\ 1 \notin Slashes(rest)
    BY <2>5, SlashesSkipped
  <2>7. found = g[Root][rest]
    BY <2>2
  <2>8. FilesMeant[path] = {f \in Files : PathOf[f] = Meant(path)}
    BY DEF FilesMeant
  <2>9. \A r \in Seq(Char) : Meant(r) = b[Root] \o Meant(r)
    <3>1. ASSUME NEW r \in Seq(Char) PROVE Meant(r) \in Seq(Char)
      <4>1. PICK k : Reads(k, r) /\ Meant(r) = k[Len(r)]
        BY MeantReads
      <4>2. Len(r) \in 0..Len(r)
        OBVIOUS
      <4> QED
        BY <4>1, <4>2, ReadsStrings
    <3> QED
      BY <2>3, <3>1, ConcatEmptySeq DEF Beginnings
  <2> HIDE DEF rest, found
  <2>10. found # NOT_FOUND => found \in FilesMeant[path]
    <3>1. Sound(g, b, Root)
      BY <1>1, <2>1, <2>2, <2>3, EveryFolderSound, TreeAssumption
    <3> QED
      BY <2>6, <2>7, <2>8, <2>9, <3>1 DEF Sound
  <2>11. ASSUME NEW f \in FilesMeant[path], Exists(f) PROVE found = f
    <3>1. f \in Files /\ Meant(rest) = PathOf[f]
      BY <2>6, <2>8
    <3>2. Leads(g, Root, PathOf[f], f)
      BY <1>1, <2>2, <2>3, <2>11, <3>1, PathLeads
    <3> QED
      BY <2>6, <2>7, <3>1, <3>2 DEF Leads
  <2> QED
    BY <2>10, <2>11 DEF found
<1>2. CacheInv /\ MirrorInv /\ ListsInv => LookupIsExact
  BY <1>1 DEF LookupIsExact
<1> QED
  BY <1>2, CacheInvariant, MirrorInvariant, ListsInvariant, PTL

=============================================================================
