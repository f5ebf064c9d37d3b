------------------------------ MODULE Lifecycle ------------------------------
(***************************************************************************)
(* The server's process from main() to its end: its structure is created   *)
(* and initialised field by field, its cache loaded by reading files and   *)
(* by calls of runReadableProcess(), its socket bound, clients added and   *)
(* removed one store of a pointer at a time; and SIGINT, whose handler     *)
(* calls exit(), hence cleanClosing() and deleteServer(), may come between *)
(* any two of these steps.  src/main.c; createServer(),                    *)
(* defaultInitServer(), startServer(), addClientToServer(),                *)
(* removeClientFromServer() and deleteServer() of src/server.c; and        *)
(* setFileContent() of src/file_cache.c, as far as it may never end.       *)
(*                                                                         *)
(* The handler runs with all signals masked; a cleaning that an error has  *)
(* begun may be interrupted, and exit() then ends it there.                *)
(***************************************************************************)
EXTENDS Subprocess, Sequences

CONSTANTS
  Client,     \* the Client structures, by address
  NULL,
  NbCalls     \* how often loading calls runReadableProcess()

ASSUME LifecycleAssumption == NbCalls \in Nat \ {0} /\ NULL \notin Client

VARIABLES
  stage,      \* how far main() is
  fields,     \* the fields of the Server that initServer() has set, in order
  listener,   \* the listening socket
  cache,      \* server->cache, if its field is set
  calls,      \* calls of runReadableProcess() still to make
  content,    \* the raw content to read before the next one: "due", "reading",
              \* "short" (the file has become shorter than it was), "over"
  mem,        \* server->clients, nb_clients and the fields of the clients
  pending,    \* the stores left of the operation on the list in progress
  cleaning,   \* where deleteServer() is
  masked,     \* the cleaning was begun by the handler
  current,    \* current_client in deleteServer()
  faults      \* what deleteServer() read that it should not

serverVars == <<stage, fields, listener, cache, calls, content>>
listVars == <<mem, pending>>
cleanVars == <<cleaning, masked, current, faults>>
lifeVars == <<serverVars, listVars, cleanVars>>
allVars == <<vars, lifeVars>>

\* What initServer() sets that deleteServer() reads, in order.
FieldOrder == <<"sockfd", "parameters", "clients", "cache">>

IsSet(f) == \E i \in DOMAIN fields : fields[i] = f

Cell == ({"head", "nb_clients"} \X {NULL}) \cup ({"next", "previous", "open", "alive"} \X Client)

At(kind, c) == mem[<<kind, c>>]

LifeInit ==
  /\ Init
  /\ stage = "main" /\ fields = << >> /\ listener = "none" /\ cache = "NULL"
  /\ calls = NbCalls /\ content = "due"
  /\ mem = [x \in Cell |-> IF x[1] = "nb_clients" THEN 0
                           ELSE IF x[1] \in {"open", "alive"} THEN FALSE ELSE NULL]
  /\ pending = << >>
  /\ cleaning = "no" /\ masked = FALSE /\ current = NULL /\ faults = {}

----------------------------------------------------------------------------
(***************************************************************************)
(* main() until the server is started.                                     *)
(***************************************************************************)

Running == cleaning = "no"

\* createServer() returns memory that malloc() left as it was.
CreateServer ==
  /\ stage = "main"
  /\ stage' = "created"
  /\ UNCHANGED <<fields, listener, cache, calls, content>>

CreateSocket ==
  /\ stage = "created" /\ listener = "none"
  /\ listener' = "open"
  /\ UNCHANGED <<stage, fields, cache, calls, content>>

\* initServer(), one field after the other.
InitField ==
  /\ stage = "created" /\ listener = "open"
  /\ fields' = Append(fields, FieldOrder[Len(fields) + 1])
  /\ stage' = IF Len(fields') = Len(FieldOrder) THEN "loading" ELSE "created"
  /\ UNCHANGED <<listener, cache, calls, content>>

\* A mutant of CallsAfter: the same file is loaded again.
CallsKept == calls

CallsAfter == calls - 1

\* setFileContent(): the content of a small file is read here, any other is left to
\* the command or left out.
BeginContent ==
  /\ stage = "loading" /\ content = "due"
  /\ content' \in {"reading", "over"}
  /\ UNCHANGED <<stage, fields, listener, cache, calls>>

\* The loop of setRawFileContent() ends once it has read the size that stat() gave;
\* in a file that has become shorter read() returns 0, and nothing changes.
ReadContent ==
  /\ content = "reading"
  /\ content' = "over"
  /\ UNCHANGED <<stage, fields, listener, cache, calls>>

\* buildCacheFromDisk() calls runReadableProcess() for one file after another.
LoadNext ==
  /\ stage = "loading" /\ calls > 1
  /\ CallAgain
  /\ calls' = CallsAfter
  /\ content' = "due"
  /\ UNCHANGED <<stage, fields, listener, cache>>

SetCache ==
  /\ stage = "loading" /\ calls = 1 /\ parent = "returned"
  /\ stage' = "loaded" /\ cache' = "built"
  /\ UNCHANGED <<fields, listener, calls, content>>

BindAndListen ==
  /\ \/ stage = "loaded" /\ listener = "open" /\ listener' = "bound" /\ stage' = stage
     \/ listener = "bound" /\ listener' = "listening" /\ stage' = "serving"
  /\ UNCHANGED <<fields, cache, calls, content>>

StartStep ==
  /\ Running
  /\ \/ /\ \/ CreateServer \/ CreateSocket \/ InitField
           \/ BeginContent \/ ReadContent \/ SetCache \/ BindAndListen
        /\ UNCHANGED vars
     \/ LoadNext
  /\ UNCHANGED <<listVars, cleanVars>>

\* The memory that deleteServer() finds at its start: it does nothing when
\* _main_server is still NULL.
FirstCleaning == IF stage = "main" THEN "done" ELSE "listener"

\* The file that is being read becomes shorter, or long enough again.
FileChanges ==
  /\ Running
  /\ \/ content = "reading" /\ content' = "short"
     \/ content = "short" /\ content' = "reading"
  /\ UNCHANGED <<vars, stage, fields, listener, cache, calls, listVars, cleanVars>>

\* A step of runReadableProcess(); pipe() or fork() may fail.
LoadStep ==
  /\ Running /\ stage = "loading" /\ content = "over"
  /\ ParentStep
  /\ cleaning' = IF parent' = "exited" THEN FirstCleaning ELSE cleaning
  /\ UNCHANGED <<serverVars, listVars, masked, current, faults>>

----------------------------------------------------------------------------
(***************************************************************************)
(* The list of clients, one store at a time.                               *)
(***************************************************************************)

Put(kind, c, value) == [cell |-> <<kind, c>>, value |-> value]

\* A mutant of the next definition: next is left to addClientToServer().
InitStoresButNext(c) == <<Put("previous", c, NULL)>>

\* initClient(), on the memory that malloc() returned.
InitStores(c) == <<Put("previous", c, NULL), Put("next", c, NULL)>>

Counted(n) == Put("nb_clients", NULL, At("nb_clients", NULL) + n)

\* A mutant of the next definition: the head is moved before next is set.
AddHeadFirst(c) ==
  InitStores(c) \o
  <<Put("head", NULL, c), Put("previous", c, NULL), Put("next", c, At("head", NULL)), Counted(1)>>

\* addClientToServer()
AddStores(c) ==
  InitStores(c) \o
  IF At("nb_clients", NULL) = 0
  THEN <<Put("head", NULL, c), Put("previous", c, NULL), Put("next", c, NULL), Counted(1)>>
  ELSE <<Put("previous", c, NULL), Put("next", c, At("head", NULL)),
         Put("previous", At("head", NULL), c), Put("head", NULL, c), Counted(1)>>

UnlinkStores(c) ==
     (IF At("next", c) = NULL THEN << >>
      ELSE <<Put("previous", At("next", c), At("previous", c))>>)
  \o (IF At("previous", c) = NULL THEN << >>
      ELSE <<Put("next", At("previous", c), At("next", c))>>)
  \o (IF At("head", NULL) = c THEN <<Put("head", NULL, At("next", c))>> ELSE << >>)
  \o <<Counted(0 - 1)>>

\* deleteClient()
DeleteStores(c) == <<Put("open", c, FALSE), Put("alive", c, FALSE)>>

\* A mutant of the next definition: the client is deleted before it is unlinked.
DeleteFirst(c) == DeleteStores(c) \o UnlinkStores(c)

\* removeClientFromServer()
RemoveStores(c) == UnlinkStores(c) \o DeleteStores(c)

\* acceptNewClient(): malloc() returns memory that holds anything.
AcceptNewClient(c) ==
  /\ ~ At("alive", c)
  /\ mem' = [mem EXCEPT ![<<"alive", c>>] = TRUE, ![<<"open", c>>] = TRUE,
                        ![<<"next", c>>] = "garbage", ![<<"previous", c>>] = "garbage"]
  /\ pending' = AddStores(c)

RemoveClient(c) ==
  /\ At("alive", c)
  /\ pending' = RemoveStores(c)
  /\ UNCHANGED mem

Store ==
  /\ pending # << >>
  /\ mem' = [mem EXCEPT ![Head(pending).cell] = Head(pending).value]
  /\ pending' = Tail(pending)

ListStep ==
  /\ Running /\ stage = "serving"
  /\ \/ pending = << >> /\ \E c \in Client : AcceptNewClient(c) \/ RemoveClient(c)
     \/ Store
  /\ UNCHANGED <<vars, serverVars, cleanVars>>

----------------------------------------------------------------------------
(***************************************************************************)
(* The end: exit() from the handler or after an error, and deleteServer(). *)
(***************************************************************************)

\* SIGINT, once in a process unless the cleaning is that of an error.
HandleSIGINT ==
  /\ \/ Running /\ cleaning' = FirstCleaning /\ masked' = TRUE
     \/ ~ Running /\ ~ masked /\ cleaning' = "cut" /\ cleaning \notin {"cut", "done"}
        /\ UNCHANGED masked
  /\ UNCHANGED <<vars, serverVars, listVars, current, faults>>

\* handleErrorAndExit() between two operations on the list.
ExitOnError ==
  /\ Running /\ pending = << >>
  /\ cleaning' = FirstCleaning
  /\ UNCHANGED <<vars, serverVars, listVars, masked, current, faults>>

\* deleteServer() goes on to the next part, or has met an uninitialised field:
\* it goes on by luck or it ends there.
GoOn(field, next) ==
  IF IsSet(field) THEN cleaning' = next /\ UNCHANGED faults
  ELSE cleaning' \in {next, "cut"} /\ faults' = faults \cup {"uninitialised"}

DisconnectServer ==
  /\ cleaning = "listener"
  /\ GoOn("sockfd", "clients")
  /\ listener' = IF IsSet("sockfd") THEN "closed" ELSE listener
  /\ UNCHANGED <<stage, fields, cache, calls, content, mem, current>>

BeginWalk ==
  /\ cleaning = "clients"
  /\ GoOn("clients", "walk")
  /\ current' = IF IsSet("clients") THEN At("head", NULL) ELSE NULL
  /\ UNCHANGED <<serverVars, mem>>

\* close() fails on a client that is deleted already.
DeleteCurrent ==
  /\ cleaning = "walk" /\ current \in Client
  /\ IF At("alive", current) /\ At("open", current)
     THEN /\ mem' = [mem EXCEPT ![<<"open", current>>] = FALSE,
                                ![<<"alive", current>>] = FALSE]
          /\ current' = At("next", current)
          /\ UNCHANGED <<cleaning, faults>>
     ELSE /\ faults' = faults \cup {"freed"}
          /\ cleaning' = "cut"
          /\ UNCHANGED <<mem, current>>
  /\ UNCHANGED serverVars

\* The walk ends at NULL, or by following what was never written.
EndWalk ==
  /\ cleaning = "walk" /\ current \notin Client
  /\ IF current = NULL THEN cleaning' = "parameters" /\ UNCHANGED faults
     ELSE cleaning' = "cut" /\ faults' = faults \cup {"uninitialised"}
  /\ UNCHANGED <<serverVars, mem, current>>

FreeParameters ==
  /\ cleaning = "parameters"
  /\ GoOn("parameters", "cache")
  /\ UNCHANGED <<serverVars, mem, current>>

DeleteFileCache ==
  /\ cleaning = "cache"
  /\ GoOn("cache", "server")
  /\ cache' = IF IsSet("cache") /\ cache = "built" THEN "freed" ELSE cache
  /\ UNCHANGED <<stage, fields, listener, calls, content, mem, current>>

FreeServer ==
  /\ cleaning = "server"
  /\ cleaning' = "done"
  /\ UNCHANGED <<serverVars, mem, current, faults>>

DeleteStep ==
  /\ \/ DisconnectServer \/ BeginWalk \/ DeleteCurrent \/ EndWalk
     \/ FreeParameters \/ DeleteFileCache \/ FreeServer
  /\ UNCHANGED <<vars, pending, masked>>

Ended == cleaning \in {"cut", "done"}

\* The kernel closes the ends of the pipe that the process had open.
EndOfProcess == Ended /\ InterruptParent /\ UNCHANGED lifeVars

----------------------------------------------------------------------------

ChildLives == (ChildStep \/ InterruptChild) /\ UNCHANGED lifeVars

LifeNext ==
  \/ StartStep \/ LoadStep \/ FileChanges \/ ListStep \/ HandleSIGINT \/ ExitOnError
  \/ DeleteStep \/ EndOfProcess \/ ChildLives

LifeSpec ==
  /\ LifeInit /\ [][LifeNext]_allVars
  /\ WF_allVars(StartStep \/ LoadStep)
  /\ WF_allVars(DeleteStep \/ EndOfProcess)
  /\ WF_allVars(ChildStep /\ UNCHANGED lifeVars)

----------------------------------------------------------------------------
(***************************************************************************)
(* Properties.                                                             *)
(***************************************************************************)

\* Between whichever two stores SIGINT falls, deleteServer() walks clients that
\* are allocated and connected, and deletes none twice (main.c 33).
CleaningIsSafe == "freed" \notin faults

\* Once initServer() has set its last field, no exit reads memory that was never
\* written, the fields of a client that is being added included (main.c 63).
UninitialisedOnlyEarly == faults # {} => Len(fields) < Len(FieldOrder)

\* A deleteServer() that reaches its end has closed the socket and freed the
\* cache and every client, save one that was between allocation and insertion, or
\* unlinked and not yet deleted.
CleaningIsComplete ==
  cleaning = "done" /\ Len(fields) = Len(FieldOrder) =>
    /\ listener = "closed" /\ cache # "built"
    /\ \A c, d \in Client : At("alive", c) /\ At("alive", d) => c = d /\ pending # << >>

\* The server starts, whatever its commands print, if nothing ends it; or a file whose
\* raw content is being read is, now and always again, shorter than stat() said
\* (file_cache.c 297: the loop then reads no byte for ever).
StartEnds ==
  \/ stage = "main" ~> stage = "serving" \/ ~ Running
  \/ []<>(content = "short")
=============================================================================
