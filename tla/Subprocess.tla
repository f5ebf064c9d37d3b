---------------------------- MODULE Subprocess ----------------------------
(***************************************************************************)
(* The calls of runReadableProcess() in src/system.c: the server forks a   *)
(* child that runs a command, reads what it prints through a pipe, as far  *)
(* as the buffer goes, then waits for it.  The child fails to run the      *)
(* command when it is not installed: it then ends by exit(), whose handler *)
(* prints the server's closing messages, in the pipe.                      *)
(***************************************************************************)
EXTENDS Naturals, FiniteSets

CONSTANTS
  BufferLen,   \* output_buffer_length
  PipeMax,     \* bytes a pipe can hold
  Outputs,     \* how many bytes a command may print
  MessagesLen  \* bytes printed by cleanClosing() and the buffers it flushes

ASSUME LengthsAssumption ==
  /\ BufferLen \in Nat \ {0}
  /\ PipeMax \in Nat \ {0}
  /\ Outputs \subseteq Nat
  /\ MessagesLen \in Nat

VARIABLES
  parent,         \* where the server is in runReadableProcess()
  child,          \* where the child is
  readers,        \* the processes that hold the read end of the pipe, PIPE_OUT
  writers,        \* the processes that hold its write end, PIPE_IN
  pipe,           \* bytes in the pipe
  unprinted,      \* bytes the child has still to print
  printed,        \* bytes the child has put in the pipe
  nb_bytes_read   \* nb_bytes_read

vars == <<parent, child, readers, writers, pipe, unprinted, printed, nb_bytes_read>>

TypeOK ==
  /\ parent \in {"start", "forked", "read", "close", "wait", "returned", "exited"}
  /\ child \in {"none", "forked", "closed", "dup", "command", "messages", "ended", "reaped"}
  /\ readers \subseteq {"parent", "child"}
  /\ writers \subseteq {"parent", "child"}
  /\ pipe \in 0..PipeMax
  /\ unprinted \in Nat
  /\ printed \in Nat
  /\ nb_bytes_read \in 0..BufferLen

Init ==
  /\ parent = "start" /\ child = "none"
  /\ readers = {} /\ writers = {}
  /\ pipe = 0 /\ unprinted = 0 /\ printed = 0 /\ nb_bytes_read = 0

----------------------------------------------------------------------------
(***************************************************************************)
(* The server.                                                             *)
(***************************************************************************)

Fork ==
  /\ parent = "start"
  /\ \/ /\ parent' = "forked" /\ child' = "forked"
        /\ readers' = {"parent", "child"} /\ writers' = {"parent", "child"}
     \/ /\ parent' = "exited"           \* pipe() or fork() failed
        /\ UNCHANGED <<child, readers, writers>>
  /\ UNCHANGED <<pipe, unprinted, printed, nb_bytes_read>>

\* A mutant of WritersAfterClose: the server keeps its write end.
WriteEndKept == writers

WritersAfterClose == writers \ {"parent"}

CloseInput ==
  /\ parent = "forked"
  /\ writers' = WritersAfterClose
  /\ parent' = "read"
  /\ UNCHANGED <<child, readers, pipe, unprinted, printed, nb_bytes_read>>

\* A mutant of IsLastRead: a read() that returns less than asked is the last one.
ShortReadIsLast(n) == n < BufferLen - nb_bytes_read \/ nb_bytes_read + n >= BufferLen

\* read() returned n: it was the end of the output, or the buffer is full.
IsLastRead(n) == n = 0 \/ nb_bytes_read + n >= BufferLen

ReadPipe ==
  /\ parent = "read"
  /\ pipe > 0 \/ writers = {}           \* read() blocks otherwise
  /\ LET room == BufferLen - nb_bytes_read
         n    == IF pipe < room THEN pipe ELSE room
     IN  /\ pipe' = pipe - n
         /\ nb_bytes_read' = nb_bytes_read + n
         /\ parent' = IF IsLastRead(n) THEN "close" ELSE "read"
  /\ UNCHANGED <<child, readers, writers, unprinted, printed>>

\* A mutant of ReadersAfterClose: the server keeps its read end.
ReadEndKept == readers

ReadersAfterClose == readers \ {"parent"}

CloseOutput ==
  /\ parent = "close"
  /\ readers' = ReadersAfterClose
  /\ parent' = "wait"
  /\ UNCHANGED <<child, writers, pipe, unprinted, printed, nb_bytes_read>>

\* A mutant of HasEnded: waitpid() does not block.
EndIsNotAwaited == TRUE

HasEnded == child = "ended"

Wait ==
  /\ parent = "wait" /\ HasEnded
  /\ child' = IF child = "ended" THEN "reaped" ELSE child
  /\ parent' = "returned"
  /\ UNCHANGED <<readers, writers, pipe, unprinted, printed, nb_bytes_read>>

\* The next call: the buffer, the pipe and the child are new ones.
CallAgain ==
  /\ parent = "returned"
  /\ parent' = "start" /\ child' = "none"
  /\ pipe' = 0 /\ unprinted' = 0 /\ printed' = 0 /\ nb_bytes_read' = 0
  /\ UNCHANGED <<readers, writers>>

\* SIGINT: handleSIGINT() exits; the kernel closes both ends.
InterruptParent ==
  /\ parent \in {"start", "forked", "read", "close", "wait"}
  /\ parent' = "exited"
  /\ readers' = readers \ {"parent"} /\ writers' = writers \ {"parent"}
  /\ UNCHANGED <<child, pipe, unprinted, printed, nb_bytes_read>>

ParentStep == Fork \/ CloseInput \/ ReadPipe \/ CloseOutput \/ Wait

----------------------------------------------------------------------------
(***************************************************************************)
(* The child.                                                              *)
(***************************************************************************)

ChildCloseOutput ==
  /\ child = "forked"
  /\ readers' = readers \ {"child"}
  /\ child' = "closed"
  /\ UNCHANGED <<parent, writers, pipe, unprinted, printed, nb_bytes_read>>

\* dup2(): what the child prints goes to the pipe from now on.
ChildDup ==
  /\ child = "closed"
  /\ child' = "dup"
  /\ UNCHANGED <<parent, readers, writers, pipe, unprinted, printed, nb_bytes_read>>

\* exit() of a child that is not the command: cleanClosing() prints.
ChildExits ==
  /\ child' = "messages"
  /\ unprinted' = MessagesLen

\* execvp(), which returns only if it fails.
ChildExec ==
  /\ child = "dup"
  /\ \/ child' = "command" /\ unprinted' \in Outputs
     \/ ChildExits
  /\ UNCHANGED <<parent, readers, writers, pipe, printed, nb_bytes_read>>

ChildIsOver == child' = "ended" /\ readers' = readers \ {"child"} /\ writers' = writers \ {"child"}

\* A byte is written, if the pipe has room and somebody may still read it;
\* SIGPIPE kills the child when nobody can.
ChildPrint ==
  /\ child \in {"command", "messages"} /\ unprinted > 0
  /\ \/ /\ readers # {} /\ pipe < PipeMax
        /\ pipe' = pipe + 1
        /\ unprinted' = unprinted - 1 /\ printed' = printed + 1
        /\ UNCHANGED <<child, readers, writers>>
     \/ /\ readers = {}
        /\ ChildIsOver
        /\ UNCHANGED <<pipe, unprinted, printed>>
  /\ UNCHANGED <<parent, nb_bytes_read>>

\* The child has nothing more to print.
ChildEnd ==
  /\ child \in {"command", "messages"} /\ unprinted = 0
  /\ ChildIsOver
  /\ UNCHANGED <<parent, pipe, unprinted, printed, nb_bytes_read>>

\* SIGINT reaches the child too: it exits as the server would before execvp(),
\* and the command is killed.
InterruptChild ==
  /\ \/ /\ child \in {"forked", "closed", "command"}    \* messages go elsewhere, or none
        /\ ChildIsOver
        /\ UNCHANGED unprinted
     \/ /\ child = "dup"
        /\ ChildExits
        /\ UNCHANGED <<readers, writers>>
  /\ UNCHANGED <<parent, pipe, printed, nb_bytes_read>>

ChildStep == ChildCloseOutput \/ ChildDup \/ ChildExec \/ ChildPrint \/ ChildEnd

Next == ParentStep \/ CallAgain \/ ChildStep \/ InterruptParent \/ InterruptChild

Spec == Init /\ [][Next]_vars

\* Both processes are scheduled, and the command ends once it can print all.
FairSpec == Spec /\ WF_vars(ParentStep) /\ WF_vars(ChildStep)

----------------------------------------------------------------------------
(***************************************************************************)
(* Properties.                                                             *)
(***************************************************************************)

\* What runReadableProcess() returns is all that the child printed before it
\* ended, however the pipe cut it, or as much of it as the buffer holds.
NothingIsLost ==
  parent = "returned" =>
    nb_bytes_read = IF printed < BufferLen THEN printed ELSE BufferLen

\* A call that has returned leaves no process and no open end behind: the
\* server makes two calls per cached file.
NothingIsLeft ==
  parent = "returned" => child = "reaped" /\ readers = {} /\ writers = {}

\* The call returns: read() meets the end of the output, for the server has
\* closed its own write end, and waitpid() comes after the read end is closed.
CallReturns == parent = "forked" ~> parent \in {"returned", "exited"}

\* The child ends too, even if it has more to print than the buffer holds or the
\* server is interrupted.
ChildEnds == child = "forked" ~> child \in {"ended", "reaped"}
=============================================================================
