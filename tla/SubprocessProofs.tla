-------------------------- MODULE SubprocessProofs --------------------------
(***************************************************************************)
(* What runReadableProcess() returns and leaves behind, for every length   *)
(* of buffer, pipe and output, and every interleaving of the two processes.*)
(***************************************************************************)
EXTENDS Lifecycle, TLAPS

\* The ends of the pipe follow from where the two processes are; what has been
\* printed is read or still in the pipe; reading stops for one of two reasons.
PipeInv ==
  /\ TypeOK
  /\ "parent" \in readers <=> parent \in {"forked", "read", "close"}
  /\ "parent" \in writers <=> parent = "forked"
  /\ "child" \in readers <=> child = "forked"
  /\ "child" \in writers <=> child \in {"forked", "closed", "dup", "command", "messages"}
  /\ child = "reaped" <=> parent = "returned"
  /\ parent = "start" => child = "none"
  /\ printed = pipe + nb_bytes_read
  /\ parent \in {"start", "forked", "read"} => nb_bytes_read < BufferLen
  /\ parent \in {"close", "wait", "returned"} =>
        nb_bytes_read = BufferLen \/ (pipe = 0 /\ writers = {})

LEMMA InitPipeInv == Init => PipeInv
BY LengthsAssumption DEF Init, PipeInv, TypeOK

LEMMA ReadPipeInv == PipeInv /\ ReadPipe => PipeInv'
<1> SUFFICES ASSUME PipeInv, ReadPipe PROVE PipeInv'
  OBVIOUS
<1> DEFINE room == BufferLen - nb_bytes_read
           n    == IF pipe < room THEN pipe ELSE room
<1>1. /\ pipe' = pipe - n /\ nb_bytes_read' = nb_bytes_read + n
      /\ parent' = (IF IsLastRead(n) THEN "close" ELSE "read")
      /\ parent = "read" /\ (pipe > 0 \/ writers = {})
      /\ UNCHANGED <<child, readers, writers, unprinted, printed>>
  BY DEF ReadPipe
<1>2. /\ BufferLen \in Nat /\ PipeMax \in Nat /\ pipe \in 0..PipeMax
      /\ nb_bytes_read \in 0..BufferLen /\ nb_bytes_read < BufferLen
      /\ printed = pipe + nb_bytes_read
  BY <1>1, LengthsAssumption DEF PipeInv, TypeOK
<1>3. n \in Nat /\ n <= pipe /\ n <= room /\ (n = pipe \/ n = room)
  BY <1>2
<1>4. n = 0 => pipe = 0
  BY <1>2
<1> HIDE DEF n
<1>5. /\ pipe' \in 0..PipeMax /\ nb_bytes_read' \in 0..BufferLen
      /\ printed' = pipe' + nb_bytes_read'
  BY <1>1, <1>2, <1>3
<1>6. CASE IsLastRead(n)
  <2>1. nb_bytes_read' = BufferLen \/ (pipe' = 0 /\ writers' = {})
    BY <1>1, <1>2, <1>3, <1>4, <1>6 DEF IsLastRead
  <2> QED
    BY <2>1, <1>1, <1>5, <1>6 DEF PipeInv, TypeOK
<1>7. CASE ~ IsLastRead(n)
  <2>1. nb_bytes_read' < BufferLen
    BY <1>1, <1>2, <1>3, <1>7 DEF IsLastRead
  <2> QED
    BY <2>1, <1>1, <1>5, <1>7 DEF PipeInv, TypeOK
<1> QED
  BY <1>6, <1>7

LEMMA ParentPipeInv == PipeInv /\ (ParentStep \/ CallAgain \/ InterruptParent) => PipeInv'
<1> SUFFICES ASSUME PipeInv, ParentStep \/ CallAgain \/ InterruptParent PROVE PipeInv'
  OBVIOUS
<1>1. CASE Fork
  BY <1>1 DEF Fork, PipeInv, TypeOK
<1>2. CASE CloseInput
  BY <1>2 DEF CloseInput, WritersAfterClose, PipeInv, TypeOK
<1>3. CASE ReadPipe
  BY <1>3, ReadPipeInv
<1>4. CASE CloseOutput
  BY <1>4 DEF CloseOutput, ReadersAfterClose, PipeInv, TypeOK
<1>5. CASE Wait
  BY <1>5 DEF Wait, HasEnded, PipeInv, TypeOK
<1>6. CASE CallAgain
  <2>1. 0 < BufferLen /\ 0 \in 0..PipeMax /\ 0 \in 0..BufferLen
    BY LengthsAssumption
  <2> QED
    BY <2>1, <1>6 DEF CallAgain, PipeInv, TypeOK
<1>7. CASE InterruptParent
  BY <1>7 DEF InterruptParent, PipeInv, TypeOK
<1> QED
  BY <1>1, <1>2, <1>3, <1>4, <1>5, <1>6, <1>7 DEF ParentStep

LEMMA ChildPipeInv == PipeInv /\ (ChildStep \/ InterruptChild) => PipeInv'
<1> SUFFICES ASSUME PipeInv, ChildStep \/ InterruptChild PROVE PipeInv'
  OBVIOUS
<1>1. CASE ChildCloseOutput
  BY <1>1 DEF ChildCloseOutput, PipeInv, TypeOK
<1>2. CASE ChildDup
  BY <1>2 DEF ChildDup, PipeInv, TypeOK
<1>3. CASE ChildExec
  <2>1. unprinted' \in Nat
    BY <1>3, LengthsAssumption DEF ChildExec, ChildExits
  <2> QED
    BY <2>1, <1>3 DEF ChildExec, ChildExits, PipeInv, TypeOK
<1>4. CASE ChildPrint
  <2>1. CASE /\ readers # {} /\ pipe < PipeMax
             /\ pipe' = pipe + 1
             /\ unprinted' = unprinted - 1 /\ printed' = printed + 1
             /\ UNCHANGED <<child, readers, writers>>
    <3>1. /\ pipe' \in 0..PipeMax /\ unprinted' \in Nat /\ printed' \in Nat
          /\ printed' = pipe' + nb_bytes_read
      BY <2>1, <1>4, LengthsAssumption DEF ChildPrint, PipeInv, TypeOK
    <3>2. writers # {}
      BY <1>4 DEF ChildPrint, PipeInv
    <3> QED
      BY <3>1, <3>2, <2>1, <1>4 DEF ChildPrint, PipeInv, TypeOK
  <2>2. CASE readers = {} /\ ChildIsOver /\ UNCHANGED <<pipe, unprinted, printed>>
    BY <2>2, <1>4 DEF ChildPrint, ChildIsOver, PipeInv, TypeOK
  <2> QED
    BY <2>1, <2>2, <1>4 DEF ChildPrint
<1>5. CASE ChildEnd
  BY <1>5 DEF ChildEnd, ChildIsOver, PipeInv, TypeOK
<1>6. CASE InterruptChild
  <2>1. unprinted' \in Nat
    BY <1>6, LengthsAssumption DEF InterruptChild, ChildExits, PipeInv, TypeOK
  <2> QED
    BY <2>1, <1>6 DEF InterruptChild, ChildIsOver, ChildExits, PipeInv, TypeOK
<1> QED
  BY <1>1, <1>2, <1>3, <1>4, <1>5, <1>6 DEF ChildStep

LEMMA StepPipeInv == PipeInv /\ [Next]_vars => PipeInv'
<1>1. PipeInv /\ UNCHANGED vars => PipeInv'
  BY DEF vars, PipeInv, TypeOK
<1> QED
  BY <1>1, ParentPipeInv, ChildPipeInv DEF Next

\* Where the processes, the ends of the pipe and the bytes are, at every moment.
THEOREM PipeInvariant == Spec => []PipeInv
BY InitPipeInv, StepPipeInv, PTL DEF Spec

\* For every length of output, what is returned is all that was printed, or as
\* much of it as the buffer holds, whoever is interrupted and whatever is cut.
THEOREM NothingIsEverLost == Spec => []NothingIsLost
<1>1. PipeInv => NothingIsLost
  <2> SUFFICES ASSUME PipeInv, parent = "returned"
               PROVE  nb_bytes_read = IF printed < BufferLen THEN printed ELSE BufferLen
    BY DEF NothingIsLost
  <2>1. /\ BufferLen \in Nat /\ PipeMax \in Nat /\ pipe \in 0..PipeMax
        /\ nb_bytes_read \in 0..BufferLen /\ printed = pipe + nb_bytes_read
        /\ nb_bytes_read = BufferLen \/ pipe = 0
    BY LengthsAssumption DEF PipeInv, TypeOK
  <2> QED
    BY <2>1
<1> QED
  BY <1>1, PipeInvariant, PTL

\* A call that has returned has left neither a process nor an open end.
THEOREM NothingIsEverLeft == Spec => []NothingIsLeft
<1>1. PipeInv => NothingIsLeft
  BY DEF PipeInv, TypeOK, NothingIsLeft
<1> QED
  BY <1>1, PipeInvariant, PTL

\* The start and the end of the server, SIGINT included, run the commands as
\* Subprocess says: the theorems above hold of the whole process.
THEOREM LifecycleRunsCommands == LifeSpec => Spec
<1>1. LifeInit => Init
  BY DEF LifeInit
<1>2. [LifeNext]_allVars => [Next]_vars
  <2> SUFFICES ASSUME [LifeNext]_allVars PROVE [Next]_vars
    OBVIOUS
  <2>1. CASE StartStep
    BY <2>1 DEF StartStep, LoadNext, Next
  <2>2. CASE LoadStep
    BY <2>2 DEF LoadStep, Next
  <2>3. CASE ListStep \/ HandleSIGINT \/ ExitOnError \/ DeleteStep
    BY <2>3 DEF ListStep, HandleSIGINT, ExitOnError, DeleteStep
  <2>4. CASE EndOfProcess \/ ChildLives
    BY <2>4 DEF EndOfProcess, ChildLives, Next
  <2>5. CASE FileChanges \/ UNCHANGED allVars
    BY <2>5 DEF FileChanges, allVars
  <2> QED
    BY <2>1, <2>2, <2>3, <2>4, <2>5 DEF LifeNext
<1> QED
  BY <1>1, <1>2, PTL DEF LifeSpec, Spec
=============================================================================
