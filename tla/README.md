# Verification of the minimalist HTTP server

TLA+ models of the web server in `src/` (C, one process, one thread, `poll()`),
the TLC runs that check them on small instances and the TLAPS proofs that hold
for every instance. `PROJECT.json` ties each definition to the lines it models,
each property to a mutation of the code that breaks it, and each hazard of the
code to the properties that watch over it. Paths below are relative to the
repository; `server.c` means `src/server.c`.

## The system

| component | state | operations | talks to |
|---|---|---|---|
| serving loop, `server.c` 590-716 | the `pollfd` array of the round, counters, current and saved client | poll, visit each client, accept, next round | everything below |
| client table, `server.c` 81-142, 196-230, 318-394 | doubly-linked `Client` structures, `nb_clients` | create, insert at the head, unlink and free, free all | serving loop, exit handler |
| reading, `server.c` 400-459; `parse_header.c` 89-118 | `request_buffer`, its length and offset | `read()`, look for the blank line, parse, answer | loop, parser, cache |
| writing, `server.c` 463-584 | header buffer, body offset, `state` | write the header, then the body or `sendfile()` | loop, table |
| HTTP parsing, `parse_header.c` 124-213 | the request message of a client, reused for each request | find three words and what they mean | reading, answers |
| HTTP answers, `http.c` 232-426 | the answer message of a client, reused too; the header buffer | choose code and body, print the header | parsing, cache, writing |
| file cache, `file_cache.c` | a tree of folders and files, the space left | build from disk, find a file, delete | subprocess runner, answers |
| subprocess runner, `system.c` | a pipe, a child | fork, exec, read the output, wait | file cache |
| start and end, `main.c` | the global `_main_server` | `atexit` handler, SIGINT | everything |

What is hard in it: the peers act between any two system calls of the server; a
removal happens in the middle of a walk over the list and of a `pollfd` array
that was built before it; a request comes in pieces; connections end in three
ways (end of stream, reset, silence) that `read()`, `write()`, `poll()` and
`accept()` report differently; the cache is built while files change, with two
child processes for each file. There is one thread, nothing is persisted, and
no message can be duplicated or reordered, TCP being in between.

What makes each part correct, and where it is stated:

* table: pointers, head, count and allocated structures describe one list
  (`Represents`); nothing freed is read (`ReadsAreLive`, `NoDanglingClient`); a
  socket is open exactly while its client is listed (`TableAgrees`).
* loop: slot and client stay aligned (`SlotMatchesClient`), no ready socket is
  left out of a round (`NoReadySocketSkipped`), nobody starves (the five
  liveness properties).
* reading: what a `read()` brings and what is parsed of it stay inside the buffer, on
  every history of the connection (`BufferIsSafe`, `ReadFitsBuffer`), a full request is
  recognised, and nothing else is (`WholeRequestIsRecognised`,
  `LeftoverIsNoRequest`).
* parsing and answers: whatever the connection carried before, a request that is
  recognised and has three words or more gets the answer its own text asks for
  (`AnswerIsForTheRequest`), with a header that tells the body (`HeaderTellsBody`) and fits its buffer
  (`HeaderIsWhole`); the parser does not walk out of the buffer
  (`ParserStaysInside`).
* start and end: whichever two stores SIGINT falls between, the cleaning walks
  clients that exist (`CleaningIsSafe`), leaves none but one in passage
  (`CleaningIsComplete`), reads memory that was never written only before
  `initServer()` is done (`UninitialisedOnlyEarly`); the server starts or exits, or
  reads a file that has become shorter for ever (`StartEnds`).
* subprocess: the whole output, no zombie, no leaked descriptor, no deadlock
  (`NothingIsLost`, `NothingIsLeft`, `CallReturns`, `ChildEnds`).
* cache: within its size and its arrays (`CacheNeverOverfull`, `ArraysHold`), a
  target finds its file (`LookupIsExact`), a quiet disk is mirrored
  (`DiskIsMirrored`), a raw content is of one version of its file (`RawIsWhole`),
  each file and folder is freed once (`DeletionFreesAll`), and loading
  ends unless a file has become shorter while it is read (`LoadingEnds`).

## The modules

* `ClientChain` - a list of clients as a sequence without repetition, with the
  list operations of `server.c` stripped of their pointers.
* `ClientRounds` - the abstract specification: rounds over such a sequence, each
  client visited at most once, a visit dropping at most the visited client. The
  clients are closed one by one, or all at once where nobody looks in between.
* `ClientList` - the pointers themselves: `next`, `previous`, the head and the
  count, assigned as in `addClientToServer()` and `removeClientFromServer()`, the
  walk with its saved pointer, and `deleteServer()`. Implements `ClientRounds`
  (`ImplementsRounds`): `todo` maps to the part of the list from the current
  client on.
* `ServerLoop` - `handleClientRequests()` and all it calls. One action per
  system call: `Poll`, then one of `RemoveHungUp`, `SkipClient`, `ReadFromClient`,
  `WriteHttpHeader` for the current client, `WriteNoContent`, `WriteBody` or
  `SendFile` after a header, and `NoNewClient`, `AcceptWhenFull` or
  `AcceptNewClient` at the end of the round. What follows a visit in the code
  (count it, break or advance slot and client) is part of each visit (`GoOn`).
  The peers (`PeerStep`) connect, send, end, reset, vanish and acknowledge
  between any two of them; `link` records how a connection ended and what the
  next call on it reports. `Interrupt` is SIGINT. The list is a sequence, as in
  `ClientRounds`, which it implements (`ImplementsRounds`) as `ClientList` does: the
  same `todo`, and a loop that breaks before the last slot has "stopped".
* `RequestBuffer` - one client's buffer, byte by byte. Its offset is always 0, its
  length only grows, save for a `read()` that fails (`ReadFails`): `server.c` 408 then
  takes 1 from the length, and the old bytes are searched for a header once more. The
  connection is broken, so that `poll()` reports a hang-up and this was its last read.
  The scan goes backwards two bytes at a time.
* `HttpRequest` - `parseHttpHeaderFirstLine()` as operators over the buffer. A
  byte is a white space, a null or a letter; `Word` is `sscanf("%ms")`, which skips
  line ends too, and the pointer moves from where `sscanf()` started, as in the code.
* `HttpAnswer` - `produceHttpAnswerFromRequest()` and the functions under it, on an
  answer message that is given, not new; and how many bytes each `snprintf()` of the
  header returns. A body or a path is the name of its file, a type is its length.
* `HttpConnection` - `RequestBuffer` composed with both: each step that completes a
  header, a failed `read()` included, parses the buffer and prepares the answer, as in
  `processClientRequest()`.
  What a request asks is defined a second time, from its text alone (`Answers`).
* `Subprocess` - `runReadableProcess()`, call after call: the server and the child
  as two processes, the pipe with a capacity, who holds which end, SIGPIPE, a failed
  `execvp()`, SIGINT in either.
* `Lifecycle` - the process from `main()` on, composed with `Subprocess` for the
  commands of the start. In front of each command a raw file may be read
  (`BeginContent`, `ReadContent`), which never ends while that file is shorter than
  `stat()` said (`FileChanges`). An operation on the client list is a sequence of stores
  (`AddStores`, `RemoveStores`), and SIGINT, whose handler calls `exit()`, may come
  between any two; errors exit too. `deleteServer()` then runs on the memory as it
  is. A client's pointers start as `"garbage"`, as `malloc()` leaves them, and a
  field of the server that was never set makes it go on by luck or end (`GoOn`).
* `FileCache` - `buildCacheFromDisk()` with the recursion as a stack of folders,
  the reading loop, a `read()` that fails, the compression buffer, sizes that wrap as an `int` does, and
  files that shrink, grow or vanish meanwhile; then `findFileInCache()`, character
  by character, compared with a definition by paths, and what
  `recursivelyDeleteFolder()` frees.
* `MC*` - constants for TLC. `*Proofs` - theorems.

## The runs

| run | configuration | asks | bounds, and why they are enough |
|---|---|---|---|
| `client_list` | `MCClientList.cfg` | `TypeOK` `Represents` `ReadsAreLive` `NothingLeaked` `ImplementsRounds` | 4 clients: a first, a last and two inner ones, so that every branch of insertion and removal meets every kind of neighbour |
| `connection` | `MCServerLoop.cfg` | `TypeOK` `TableAgrees` `ReadFitsBuffer` | 2 connections and 1 slot, so the table fills; buffer of 5, requests from 2, 3 bytes in flight, so that requests are split and the buffer fills; a body in memory, empty, on disk; any initial state |
| `server_rounds` | `MCServerRounds.cfg` | `NoDanglingClient` `SlotMatchesClient` `NoReadySocketSkipped` `TableAgrees` | 3 clients: a removal before, at and after another client's visit; the shortest requests and answers, no bodies |
| `server_liveness` | `MCServerLive.cfg` | `HangupIsNoticed` `EndOfStreamIsNoticed` `InputIsRead` `HeaderIsSent` `ConnectionIsAccepted` `ImplementsRounds` | 2 clients, one of which may keep the server busy for ever, every kind of body; no symmetry. A round of two has a first client to lose and a next one to go on with |
| `http_connection` | `MCHttpConnection.cfg` | `BufferIsSafe` `WholeRequestIsRecognised` `LeftoverIsNoRequest` `AnswerIsForTheRequest` `HeaderTellsBody` `ParserStaysInside` `HeaderIsWhole` | buffer of 22, requests of 9 to 22 bytes with words of one to four: two whole requests, or one that fills the buffer to its last byte or is one byte too long, and a piece of a third, cut everywhere; every method, version, code and kind of file, every malformed line (a word missing, one too many, a leading space, runs of spaces, a line end instead of a space), two of which find a file of the site, one by the name of a method; a `read()` may fail at any time; two kinds of old memory |
| `lifecycle` | `MCLifecycle.cfg` | `NothingIsLost` `NothingIsLeft` `CallReturns` `ChildEnds` `CleaningIsSafe` `UninitialisedOnlyEarly` `CleaningIsComplete` `StartEnds` | 2 commands: a first and a next call; a pipe of 2, a buffer of 4, outputs of 0, 3, 4 and 8: none, below, at and above the buffer, and above buffer and pipe together; a file in front of each command, which may become shorter and long enough again for ever; 3 clients: a first, an inner and a last one |
| `file_cache` | `MCFileCache.cfg` | `CacheNeverOverfull` `ArraysHold` `LookupIsExact` `DeletionFreesAll` `DiskIsMirrored` `RawIsWhole` `LoadingEnds` | three levels with a file in each, all orders of `readdir()`; sizes 0 and 1 (raw), 5 (compressed), 9 and 17 (in an `int` of 4 bits, -7 and 1); two changes of the disk (one file can shrink and grow); all targets of a slash and up to 4 characters, and the two longer paths with or without a slash too many at any place |

`QueueMax`, `MaxInbox`, `SndBuf`, `MaxChanges`, `Targets`, `Requests`, `Leftovers` and
`NbCalls` bound the model only, the others are parameters of the code, most of them
smaller. In `ServerLoop` amounts of bytes are units: an answer header is 1 or 2. In
`HttpAnswer` they are the code's own: 410 bytes is the longest header there is,
that of a 200 with a type of 254 bytes and a length of ten digits, so that
`AnswerBufferSize` = 411 is the least buffer that `HeaderIsWhole` holds for (the
default is 2048). `split_request` keeps its own smaller instance (`MCSplitRequest.cfg`).
Every run leaves deadlock out (`CHECK_DEADLOCK FALSE`) because the program stops:
SIGINT, a fatal error, the end of a call; that it does not stop otherwise is what
the liveness properties say.

Five runs are expected to find a violation, each of one sentence of the sources
that the code does not keep:

| run | says | the code |
|---|---|---|
| `answer_sent_once` | after the whole answer the client waits again (`server.c` 580) | the body's offset is compared (529) and never moved: the body is sent again and again |
| `full_table` | without a free slot, fail and return NULL (371) | the caller reads the `fd` of NULL (711) |
| `fresh_client_state` | returns an initialized client (367) | `state` is never set: a client may be answered unasked, or never polled |
| `split_request` | an incomplete header: "reading more" (438) | the next read overwrites the first piece |
| `compressed_buffer` | the buffer is larger than the file (`file_cache.c` 325) | `(int) 1.2 * size` is `size`: the end of a longer output is lost |

The property of `split_request` is about every split; a request in one piece after an
even number of bytes is safe, which is `WholeRequestIsRecognised`, and then answered
right, which is `AnswerIsForTheRequest`, if it has three words or more. After an odd
number it may not be seen.

`BufferIsSafe` speaks of reads that bring bytes and of what is parsed, after a failed
`read()` too. The null byte of a failed `read()` itself is not in it: `server.c` 408
writes it at `request_buffer[-1]`, where the comment at 402 has the buffer terminated.
That is wrong by inspection, for every state in which `read()` fails, and no run is
spent on it; what it overwrites is the allocator's, and is not modelled.

`AnswerIsForTheRequest` leaves out the requests with white space in front or with fewer
than three words, because the code does not answer them by their text: the instance has
a file with the name of a method, so that a leading space followed by that method and a
version is answered with that file.

`compressed_buffer` has a converse. `CacheNeverOverfull` holds because of that cast:
the space left is compared with the size on the disk, so that a buffer really
larger than the file could exceed it, which is the mutant of that property.

`LoadingEnds` says that building ends or is stuck on a file that became shorter
than `stat()` said while it was read; that second case is real (`read()` returns
0 for ever), and the property shows that it is the only one. `StartEnds` says the same
of the whole start, with the commands: no order of the pipe, the child and the signals
adds another way to hang.

## Fairness

* `WF(ServerStep)`, `WF(Build)`, and in `LifeSpec` `WF(StartStep \/ LoadStep)` and
  `WF(DeleteStep \/ EndOfProcess)`: the process is scheduled. The code has one
  thread and no lock, so this is all there is to assume of it.
* `WF(Drain(c))` in `ServerLoop`: a peer whose connection lives acknowledges what
  it was sent. The sockets are blocking: without it, one peer that stops reading
  stops the server, which is a hazard of the code and not a property.
* `WF(ChildStep)` in `Lifecycle`: the command is scheduled, and ends once it has
  printed. The code has no timeout for it.

Nothing else is fair: no peer has to send, connect or leave, no signal has to come.

## The proofs

All theorems hold for every value of the constants under the assumptions named in the
modules (`NullAssumption`, `MaxClientsAssumption`, `ParametersAssumption`,
`SizeAssumption`, `MaxPathAssumption`, `SiteAssumption`, `AnswerBufferAssumption`,
`LengthsAssumption`, `LifecycleAssumption`, `TreeAssumption`, `NamesAssumption`,
`SizesAssumption`); TLC evaluates these assumptions in the runs.

`ClientChainProofs` has the lemmas about sequences without repetition: dropping,
prepending, and what follows a client.

`ClientListProofs`. `Represents` alone is not inductive: while `deleteServer()`
runs it says nothing, and the walk's place is not in it. The invariant `IInv`
adds the types, the part of the list that deletion has not reached yet with its
`next` pointers (`NextDescribes`), the head, count and `previous` pointers while the
server runs (`ServerDescribes`), and that the current client of a walk is listed
(`WalksAreInside`). Each action keeps it (one lemma per
action), and each action implements one of `ClientRounds` or stutters
(`WalksImplementRounds`), which is where `From` and `DropAt` meet.

`ServerLoopProofs`. `NoReadySocketSkipped` and `SlotMatchesClient` need a fact of
the whole round, not of a step: the handled sockets are at most as many as the
ready slots already passed (`HandledWereReady`), whatever was removed. If the
count of handled sockets reaches what `poll()` returned, every ready slot has been
passed and the listening socket was not ready; hang-ups, which are never counted,
only make the loop break later. The invariant has the parts `DataInv` (types, the
table, "a length of -1 implies a dead connection"), `RoundInv` (one visit, its
slot, its saved client, the count), `NobodyIsLeft` and `BacklogWaits`. From it
follow `TypeOK`, `TableAgrees`, `NoDanglingClient`, `SlotMatchesClient`,
`NoReadySocketSkipped` and `ReadFitsBuffer`. The end of a visit is a visit of
`ClientRounds`, whatever the visit did (`GoOnImplementsVisit`); with the other steps,
the loop implements the rounds (`LoopImplementsRounds`).

`RequestBufferProofs`. The invariant bounds the length, gives a recognised request
its null byte, and says that before the first read what is on the wire is a whole
request and nothing has been recognised; the three properties follow, two of them
action properties and `BufferIsSafe` one in part. `TextEnds` adds where the text that is
parsed ends: before the last byte, with a null or with a line end that only nulls follow
(`TextAlwaysEnds`). A failed `read()` writes no such null inside the buffer, so that
the invariant has to keep it from the reads before: with a length above 0, the bytes
read so far end in this way (`EndsInside`) or have no blank line to recognise
(`TextInv`).

`HttpConnectionProofs`. The invariant says of the answer message what a step of
`processClientRequest()` leaves in it: a header whose fields are bounded, and a
content that is empty or belongs to that header (`HeaderTellsBody`). It is
inductive because `prepareGeneralHttpAnswer()` empties the content first; from the
bounds of the fields follows the length of the header (`HeaderIsWhole`). A
connection is also a behaviour of `RequestBuffer` (`ConnectionHasBuffer`), so that the
theorems about the buffer hold of it. For the parser, each word and each run of
spaces is shown to end inside the text (`WordEndsInText`, `SpacesEndInText`), so that
every pointer stays within it, and the text ends in the buffer by `TextAlwaysEnds`:
`ParserStaysInside` holds for every buffer size and content.

`RequestsAreAnswered` is `AnswerIsForTheRequest` for every site, every table of methods
and versions and every buffer: a request that arrives in one piece, whose first line
begins with a word and has two more (`HasThreeWords`), gets the answer that a reading of its text asks for. The argument follows the pointer.
A line that begins with a word has its first three words at `FirstWords`; in front of
each the pointer stands in spaces only, so that `sscanf()` finds that word whole, and
its length brings the pointer exactly to the word's end (`PointerMeetsWords`). Behind
the third word the last check meets the line's end when there are three words and a
letter in front of no line feed when there are more (`PointerMeetsEnd`). What remains
is the order of the tests: every code that is not 200 is a fault of one of the words
(`WordsAreAnswered`). The other requests do not satisfy it, and the property excludes
them; TLC's instance contains them, one of which is answered with a file. With spaces in
front, the pointer falls behind by as many, and reads ends of words as words: " GET
HTTP/1.1" is a GET of the file "T" where a site has one. With fewer than three words,
`sscanf()` takes the next from the lines behind.

`SubprocessProofs`. `PipeInv` adds up the bytes (printed = in the pipe + read, while
nothing is thrown away) and ties the holders of both ends to where the processes are:
a read that returns 0 can then only be the end of the output. `NothingIsLost` and
`NothingIsLeft` follow, and the whole process implements the runner
(`LifecycleRunsCommands`).

`FileCacheProofs`. All of it is about a disk on which files shrink, grow and vanish, and
nothing appears. `ArraysHold` alone is not inductive: an array may be within its
count now and get one entry too many later. `CacheInv` counts for each folder what is in
its arrays together with what is still due (the entries left to visit, the file
that is being read, the subfolder that is being filled): that sum never exceeds
what was counted. It needs that a folder is entered once, hence that the stack is a
path of the tree and that what is due in a folder was not entered yet.

`RawInv` says how far the file being read can still be cut: what has been read is the
size it was opened with, or less because the disk has changed since (`NotCutYet`,
`CutForEver`). A second read needs a file that shrank and grew again, two changes
(`RawIsWhole`).

`SpaceInv` is an equation: `cache_free_space` is `max_cache_size` minus the sizes of the
contents, and a file being loaded fits in it. `CacheNeverOverfull` follows. The sum of
the sizes is defined by taking the elements of a set in an order chosen by `CHOOSE`;
that the order does not matter, and that one more element adds its size, is proved
for finite sets of any size (`SumWithout`, `SumOfMore`).

`MirrorInv` follows each entry of a folder whose second reading has begun: while its path
still leads somewhere (`Exists`), it is to come, being added, on the stack, or in an
array, whatever else vanished. When the building ends nothing is to come and the stack
holds the root; a folder that exists and is not listed would have a parent that exists
and is not listed, and so on up to the root (`EveryFolderBegun`). On a disk that does
not change everything exists (`DiskIsMirrored`).

`ListsInv` says that no array has an entry twice, and that a folder that something was
allocated for is on the stack or listed by its parent. A folder's deletion then frees
only what is under it in the tree (`Under`), and siblings have nothing under them in
common, so that nothing is freed twice; what was allocated is reached from the root
(`DeletionFreesAll`).

`LookupIsExact` compares two readings of a target: `findFileInCache()` walks down the
tree name by name, and `Meant` folds over the characters. The lemmas on `Meant` say that
a target is its first name, a slash, and what the rest means (`MeantSplit`), and that a
path splits in one way at its first slash, because names have none (`SplitOnce`,
`NamesAssumption`). What is found from a folder has the path that was looked for, which
goes up from folders without subfolders (`EveryFolderSound`). Conversely the name of a file
that exists leads to it from its folder, and a path that leads to it from a folder
leads to it from the parent with the folder's name in front, since `MirrorInv` has the
folder listed there and siblings' names differ, up to the root (`PathLeads`). This holds
for any names and targets, not only the ones TLC enumerates.

`LifecycleProofs`. `LifeInv` describes the memory between any two stores of the client
list by the list and the number of stores still owed: none, or those of an insertion
or a removal. Each of these states can be walked from the head through clients that
are allocated (`ListIsWalkable`); this is what SIGINT finds. A second part orders the
fields set so far, and a third what `deleteServer()` has freed. The three properties of
the cleaning follow for any number of clients.

Three principles replace induction, whose theorems take an operator that the provers
cannot instantiate: the least number (`LeastNatural`, `MinOfNaturals`) and the smallest set
(`LeastSet`) of a claim's counterexamples, and, for the tree, an entry of a set whose
parent is outside it (`TreeAssumption`: going up from any entry ends at the root, so
that links that lead back up are excluded) or a folder without subfolder in it
(`LowestFolder`). A function that the code defines by recursion is first shown to exist
(`SumExists`, `FlattenExists`, `FreedExists`, `ExistsExists`, `FoldExists`, `FindExists`): its equation then holds of it.

Only model-checked: everything about liveness, that is the five liveness properties of
the serving loop, `CallReturns`, `ChildEnds`, `StartEnds` and `LoadingEnds`.

## What is not modelled

* The values of header fields after the first line, which the code never parses. In
  `ServerLoop` a buffer long enough for a header may or may not hold one, and an
  answer may have any body: `HttpConnection` says which.
* Letter by letter, the words of the option tables: a method or version is a word of one
  byte in the runs, and a parameter (`accepted_methods`, `accepted_versions`) in the
  modules.
* How many bytes of a body a dying peer took; a header is cut short there, and a
  body cut short leaves the same state as one that was taken.
* SIGINT inside `malloc()`, `free()` or `printf()`, which the handler then calls again;
  between two stores of the list it is in `Lifecycle`. Failures of `malloc()` except
  where a negative size causes one; all end in `exit()`.
* What the null byte of a failed `read()` overwrites, in front of a client's buffer.
* A peer connects once: a new connection is a new element of `Client`.
* Errors of `read()`, `close()` and `dup2()` on the server's own pipe, and, in
  `setRawFileContent()`, a `read()` that fails after another one has brought bytes: that
  lowers the count by one and goes on. One that fails at first ends the server.
* In `FileCache` nothing new appears on the disk while the cache is built: between
  the counting and the filling of a folder, a new entry overruns its array, as the
  comments at `file_cache.c` 175 and 190 say; `ArraysHold` is about everything else. The
  path of a file, which `deleteFile()` does not free, is not in the model:
  `DeletionFreesAll` is about the `File` and `Folder` structures. The length limits that
  the comment at 618 announces for lookups are not checked there but by the only caller,
  which refuses long targets (`parse_header.c` 178); `Targets` are of any length. A symbolic
  link that leads back up the tree is excluded (`TreeAssumption`): the code follows it
  until `stat()` refuses the path or `appendNameToPath()` finds it too long, and
  exits. Names longer than the
  code's buffers are left out, and so are `removeFileContent()`, which
  nothing calls, and the printing functions. Loading and the commands it runs are not
  composed: a command's output is any length of `GzipSizes`, and `Lifecycle` makes
  `NbCalls` calls without a tree.
* The string helpers of `toolbox.c` but `consumeLeadingStringWhiteSpace()`:
  `appendNameToPath()` is one comparison, which lets a path be longer than its
  buffer by up to two bytes.
* The memory of `sscanf("%ms")`: a target is never freed, and neither are a method
  or version that is not known.

## Plan

1. (done) client list and its refinement, serving loop, request buffer,
   subprocess runner, file cache; proofs of the first three.
2. (done) parsing and answers, composed with the request buffer; the whole
   process with its commands, SIGINT and cleaning; deletion of the cache; proofs of
   answers, subprocess and cache arrays.
3. `ConnectionLife`: an abstract client (waiting, answering, gone) that `ServerLoop`
   implements except for the findings; `FileCache` composed with `Subprocess`.
4. (done) proofs of the cleaning of `Lifecycle`, of the parser's bounds, of the contents,
   the space, the mirror, the deletion and the lookups of the cache.
5. Proofs: the refinement of `ConnectionLife`.
