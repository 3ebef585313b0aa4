# A specification of TrisDB

TrisDB is an in-memory triple store. A server keeps triples (subject, predicate,
object) in three hash multimaps, executes statements that clients send over TCP
or a Unix socket, and writes the multimaps to disk on SAVE and at shutdown. This
directory holds TLA+ models of it, TLC configurations that check them on small
instances, and proofs for every instance that TLAPS checks. Paths below are
relative to `src/src/` unless they start with `utils/`.

1. [The system](#1-the-system)
2. [Modules](#2-modules)
3. [Runs](#3-runs)
4. [Fairness](#4-fairness)
5. [Proofs](#5-proofs)
6. [Where the code and its comments disagree](#6-where-the-code-and-its-comments-disagree)
7. [What is not modelled](#7-what-is-not-modelled)
8. [Plan](#8-plan)

## 1. The system

| Component | Source | State | Operations |
|---|---|---|---|
| Triple map | `TripleMap.h` | three multimaps, one per position of the triple | `add`, `remove` (with wildcards), `getA/B/C`, `getAll`, `getCount`, `clearAll` |
| Query planner | `QueryPlanner.cpp`, methods of `TrisDb.cpp` | none | `execute`: one statement to calls of the database, and a result |
| Query parser | `QueryParser.cpp` | the `Query` it is given | `parse`, `findLimit` |
| Storage engine | `StorageEngine.cpp` | a Manifest and three data files; three threads during a save | `syncSave`, `syncLoad`, `checkManifest` |
| Database process | `TrisDb.cpp`, `main.cpp` | `_mutex`, `_dataChanged`, `_terminateLoop`, the servers | load, start servers, wait for SIGTERM, stop, last save, exit |
| Servers | `TcpServer.cpp`, `UnixSocketServer.cpp` | an io_service, an acceptor, sessions, `cnx` | accept, read header, read body, execute, write; stop |
| Framing | `PackedMessage.h` | a message | header, `pack`, `unpack` |
| Protobuf messages | `message.pb.h`, `message.pb.cc` | the fields of three message classes | accessors, `Clear`, `MergeFrom`, `Swap`, parse, serialise |
| Archives | `cereal/` as `StorageEngine.cpp` uses it | none | multimaps to bytes and back |
| Configuration | `Config.cpp`, `ConfigReader.h` | settings by key, the line number | read the file, defaults |
| Command line | `main.cpp`, `cxxopts.hpp` | the options that were found | declare, parse, choose the mode |
| Shell and clients | `Shell.cpp`, `TcpClient.cpp`, `UnixSocketClient.cpp` | a connection | prompt, send, read the reply, print |
| Table printer | `table_printer.cpp` and its headers | columns, the next cell | headers, cells, footers |
| Benchmark | `TrisDb::benchmark` | a database of its own | write, look up, delete |

How they interact:

- `main` parses the command line and becomes a shell, a benchmark or a server. A
  server reads its configuration, constructs `TrisDb`, which constructs a
  server per configured socket, and runs the main thread's loop.
- Each server runs one detached IO thread; all sessions of a server are handlers
  on that thread. A handler parses the statements of a request into **one**
  `Query` and executes them through the planner, which takes `_mutex` for each
  statement.
- A session parses all of its requests into **one** `QueryRequest`, and answers each
  with a new `QueryResponse`; a client parses what it read of the answer, in a
  buffer that was filled with zeros, and the shell prints it as a table.
- SAVE holds `_mutex` exclusively while three threads serialise one multimap
  each. The main thread's save at shutdown takes no mutex: it sleeps one second
  after stopping the io_services and relies on the IO threads having ended.
- `_dataChanged` is set by CREATE, DELETE and CLEAR, cleared after a save, and decides
  whether shutdown saves. `_terminateLoop` is set by the signal handler.
- The only thing that survives a process is the directory: `Manifest`, and one
  data file per multimap, overwritten in place.

Hard to test, and what the properties are for (`PROJECT.json`, "hazards", has
each at its line): the main thread saving while an IO thread still works; three
threads that must see one state; a process that dies between two steps of a
save; a file that cannot be written while others can; a dirty flag cleared after
the fact; SIGTERM at any moment; stored terms that equal the wildcard string;
negative limits; clients that send ahead or leave at any time; an acceptor out
of sockets; streams cut anywhere; the `Query` that statements share and the
`QueryRequest` that requests share; a reply or a data file that ends early; sizes
that two traversals of a message compute; a setting file with an error behind
settings that were read already; option letters that are values of other options.

What makes each component correct:

- *Triple map and planner*: the three multimaps hold the same triples; a pattern
  means the same through each of them; LIMIT cuts and never changes.
- *Storage engine and process*: a returned save is one state; a clean flag means
  the directory holds the data; a process that leaves by the end of `main` lost
  nothing; SIGTERM leads to that end.
- *Servers*: answers to a client's requests in order, one buffer pair never used
  for two operations, no session that outlives its client, an exact count.
- *Framing, messages, archives*: messages and multimaps come out as they went in,
  whatever an object held before, and a part of one is no other one.
- *Parser, configuration, command line, shell, tables*: a well-formed statement is
  understood; a file counts whole or not at all; the options mean what they say,
  in whatever way they are spelled; a result belongs to its statement, and its
  cells stand under their headers.

## 2. Modules

```
Triples                 terms, triples, patterns, bags
  TripleMap             the three multimaps as pure operators
    QueryPlanner        statements, one at a time ------> TripleStore (abstract)
      Snapshot          the store through the Archive: bytes of cereal
    Benchmark           writes and lookups of the benchmark
    StorageEngine       files and saving threads
      TrisDb            main, IO threads, mutex, SIGTERM -> Durability (abstract)
Server                  acceptor and sessions ----------> Conversation (abstract)
PackedMessage           the framing, as pure operators
  Shell                 one connection: shell, clients, streams, a session
WireFormat              fields of protobuf messages, as bytes
  StringField           one string field of a generated class
    QueryRequest, QueryResponse_Record, QueryResponse   the three classes
      Wire              the messages of one exchange, and the next request
        Display         the printed result, with TablePrinter
QueryParser             statements to Query
Reader                  what the configuration reader makes of texts
  Config                configuration file to servers
    Main                command line to mode, with Options (cxxopts)
```

`MC<module>` instantiates a module for TLC (`MCQueryPlanner` has `Snapshot` and
`Benchmark` too, `MCWire` has `Display`, `MCMain` has `Main`); `<module>_proofs`
holds its theorems (`QueryPlanner_proofs` those of `Snapshot` too, and `Shell_proofs`
those of `PackedMessage`), on the lemmas of `Recursion`. An arrow is a refinement that
is checked and also proved, for the process under the assumptions of section 5.

**Triples, TripleMap.** `std::unordered_multimap` is a bag of triples: an equal
range is the bag restricted to a key. `removeFromA/B/C` erase every entry of the
range that `isEqual` accepts, as the code's `while` loops do, with the wildcard
standing for anything in the pattern. The stored term may itself be the wildcard
string, which the code does not exclude. `remove` is declared to return a `bool` and
flows off its end, which is undefined: `QueryPlanner`, which has no process to lose,
lets it do its work, and `TrisDb` also lets the process end there (`RemoveEnds`).

**QueryPlanner, TripleStore.** An action per statement, each the whole of
`QueryPlanner::execute` and the `TrisDb` methods it calls. `PlanHead` is the
choice of the index. A reply is a bag of rows, because the order within a
multimap is unspecified: with a LIMIT, the choice of the rows is nondeterministic.
`TripleStore` knows one bag and patterns; it promises what DELETE removes and
what GET returns, with and without LIMIT.

**StorageEngine.** A save has the stages of `syncSave`: Manifest truncated and
three threads started, Manifest closed, threads joined. Each thread serialises
its multimap, opens (and truncates) its file, and writes and closes it. A file is
missing, empty, whole with the rows it holds, or garbled. A file that was written
in part, because the disk failed or the process ended in between (`CutSaves`), is
`Damaged`: `loadDataFromFile` ignores the result of `snappy::Uncompress`, so that it
throws in the archive or is taken for some multimap. With the fault `disk` any open
or write may fail, and as in the code nobody looks. `syncLoad` throws where a file
is missing or garbled.

**Archive, Snapshot.** `Archive` has the bytes that cereal's binary archive writes for
a multimap of strings to tuples of strings, and the reader that asks for the sizes
it finds and throws where bytes are missing. `Snapshot` puts the store of `QueryPlanner`
through it, in every order in which a hash table may be iterated, and through what
of snappy decides about a damaged file: in front of the data stands its length,
`Uncompress` makes a string of that length and fills it as far as the file goes
(a part of compressed data is the beginning of what was compressed), and
`loadDataFromFile` does not look at its result. What was saved is loaded
(`SavedIsLoaded`). A file that was cut behind its length reaches the archive with
its full length, and with whatever the memory held for an end (`Unwritten`): it may throw,
or load with other rows in place of the lost ones, but the rows in front of the
cut are as they were saved, and there are as many as were saved; only a file without
its length is always refused (`CutKeepsBeginning`). That a size and the
length of a string fit a `size_type` is assumed (`TextAssumption`,
`MaxRecordsAssumption`): memory ends before it does.

**Benchmark.** `TrisDb::benchmark` as operators: what it writes, and that each of its
lookups finds the one triple (`BenchmarkFindsAll`, which TLC evaluates).

**TrisDb.** `main` is where the main thread is, `io[s]` where the IO thread of a
server is and how many statements of its request are left. Each statement of the
code that takes or releases the mutex, touches the flag, or calls the storage
engine is an action, so that threads interleave where the code lets them.
`Die(end)` ends the process and keeps the directory. Faults are named in the
constant `Faults`:

| Fault | Means |
|---|---|
| `crash` | the process may be killed at any step |
| `bind` | the acceptor's constructor may throw |
| `slow` | a request may outlast `sleep(1)` |
| `disk` | opens and writes may fail |

Without `slow` the grace period ends only when the IO threads have ended.
A saving thread that serialises a multimap while another thread changes it
(possible with `slow`) may read anything or crash the process: a data race.

**Durability.** What `TrisDb` promises about its directory, without files and threads:
only a save changes what the next start finds, a save that returned has made it the
store in memory, and so has a clean exit; a save that is cut promises nothing.
`KeepsPromises` is the refinement: the directory is seen as the set of the stores it
restores, none when it does not load.

**Server, Conversation.** A session lives as long as a handler holds its shared
pointer: `pending[c]` is the set of its outstanding operations, and a handler
that starts none destroys it (`Continue`). `AcceptFails` is an accept without a
free socket (`MaxOpen`). Clients are arbitrary: they send ahead, leave replies unread,
send headers and bodies of garbage, and leave at any time. `async_write` completes
when the whole reply has found room: `Window[c]` replies fit between a session and a
client that does not read (`handle_write`), and one that has read everything before it
takes the reply while it is written (`TakeWrite`); until then the session is in
the write and reads no further request. `execute_ends` is a handler that ends the
process (a statement that throws, or QUIT), and so is `header_ends`: the length of
a body is what the client says, a buffer of that size may not be there, which
throws, and near 2^32 adding `HEADER_SIZE` wraps, so that the read writes behind the
buffer, which is undefined. `Conversation` promises that the
answers of a connection are those to its requests, in their order, each at most
once, until the conversation is over.

**PackedMessage.** The shifts and masks of the header are `\div Base` and `% Base`,
with `Base = 256` in the code. A body is a sequence of bytes that protobuf parses
(it is in `Messages`) or does not.

**QueryParser.** A statement is a sequence of atoms: space, quote, and words.
`parse` follows the code: LIMIT is searched first, in the whole text, quotes
included, the last in capitals before the last in small letters; the piece it
erases ends at the second space; the regex pairs quotes from the left. The one
`Query` of a request is the variable `q`. A word is neither a space nor a quote
(`AtomsAssumption`).

**WireFormat, StringField, the messages.** The generated classes with all their
accessors, over bytes: a tag or a length is one element of a sequence, as it is one
byte below 128. That the number of bytes a longer length takes is computed alike by
the two traversals is therefore not shown. A string field has a has-bit and
a pointer that is shared until the field is first written; `Clear` looks at the one
and empties the other. `ByteSize` and `SerializeWithCachedSizes` are two traversals, as
in the code. Parsing keeps fields it does not know, and merges a field that comes
again.

**Wire.** A client fills a request, in any order of accessors, and serialises it;
other clients append what they like (`Strange`). The session parses it into the
message it keeps, answers, and the client parses a buffer of zeros in which any
number of bytes of the reply arrived. `RequestArrives`: the session reads exactly what
was sent, and nothing of an earlier request. `RowsArrive`: of a reply that
was cut after any byte the client takes all rows or refuses it. `SizeIsRight`: the two
traversals agree. `ConcatenationMerges`: parsing two messages one behind the other is
parsing one and merging the other, which is what protobuf's format promises.

**TablePrinter, Display.** The printer counts columns by itself, cell after cell;
`Display` calls it as `printQueryResult` does for each command. `TablesAreWhole`:
whatever rows the response holds and whichever command it answers, no row is left
unfinished, rows that are left out are announced, and every line is as wide as the
rules unless one of its texts is wider than its column. That each heading is a text
is assumed (`HeadingAssumption`), as is a width that `AddColumn` does not throw at
(`ColumnWidthAssumption`).

**Reader, Config.** `Reader` has what the reader makes of texts: comments, blanks, the
split at `=`, lower case. A text is a sequence of characters and of words that
nothing looks into. Its vectors, numbers and wildcards of keys are
never called by the program; they are operators that TLC compares with reference
definitions (`LinesAreRead`, `VectorsAreRead`, `NumbersAreRead`, `WildcardsMatch`).
`Config` goes line by line and throws at a malformed line or a repeated key; only then
are the six keys applied, and one whose value has a space throws between two of
them. A file may be unreadable although it opens (`Unreadable`), and then the loop
never ends. Servers follow from the settings as in the constructor of `TrisDb`; the
port is `atoi` cut to 16 bits.

**Options, Main.** `Options` is cxxopts as far as options without defaults need it:
every argument is plain, long or a group of letters, may be consumed as the value of
the one before, or throws. `Main` starts from a command line that somebody means
(`meant`, spelled in any of the ways the help names) or from loose arguments; `init`
looks for the options in its own order, and a server goes on with `Config`.
The port that the shell is given is read as an int and written again (`to_string`): as
`1205` for `01205`, which is the port that is meant all the same.
`DeclarationsAreValid` and `HelpIsComplete` are evaluated by TLC.

**Shell.** One connection, byte by byte. At one end is the shell with either of its
clients, or another client that sends its requests without waiting; at the other
a session, which may die at any time (`Break`). Bytes arrive in arbitrary pieces,
and both ends ask for exactly a header and then exactly a body. A reply goes on its
way only as far as there is room (`Window`, in bytes), so that the session
stays in the write until its client has read enough (`SessionWrites`, `handle_write`); the
other client may read (`Discards`) or not. The client
checks the error of its write, which throws, and of no read: what was not read
stays zero. Where `connect` runs off its end without returning, which is
undefined, the model has a crash, or whatever the memory holds (`Garbage`). The
socket of a client outlives its io_service, which is undefined too: `connect`
works all the same, because it uses the descriptor alone, and the end of the
shell may be a crash (`Destructor`). So may completion, which reads on behind the end
of its table (`my_completion`). `Server` and `Shell` divide the work: `Server` has many
sessions and requests as units, `Shell` has one session and requests as bytes, and `Wire` the contents of
those bytes.

## 3. Runs

| Run | Instance | Properties | Shows |
|---|---|---|---|
| `planner` | 3 terms, one the wildcard; 3 triples; 2 copies; limits -1, 0, 1; sizes of 2 bytes | `TypeOK`, `IndexesAgree`, `RefinesStore`, `SavedIsLoaded`, `CutKeepsBeginning` | every sequence of statements keeps the multimaps equal and implements the bag; its file is read back, and what is made of a part of it begins as it did |
| `crash` | 2 servers, 1 triple, 2 statements per request, all statements, `crash` and `bind` | `TypeOK`, `CleanMeansSaved`, `ExitKeepsData`, `SaveIsSnapshot`, `KeepsPromises`, `ShutdownSaves` | a kill at any step does not make a clean flag or a clean exit lie; SIGTERM ends with the data on disk |
| `chaos` | 1 server, 1 statement per request and no SAVE, every fault | `ShutdownCompletes` | no failing file, no kill and no late request keeps a stopping process alive |
| `sessions` | 3 clients with 2, 1 and no requests, room for 1, 0 and 0 replies, 2 sockets | `TypeOK`, `CountIsOpen`, `OneOperation`, `AtMostOneUnanswered`, `KeepsConversation`, `RequestsEnd`, `SessionsEnd`, `BacklogEnds` | sessions count, buffer and answer rightly, and end, however they end; the acceptor recovers |
| `shell` | 2 byte values, 3 bodies of 0 and 2 bytes, 3 requests, room for 4 bytes of replies, three kinds of client | `TypeOK`, `MessagesKept`, `ResultBelongs`, `MessagesArrive`, `PromptReturns` | cuts of the stream do not matter; no stale answer and no endless wait |
| `wire` | 2 statements, 2 timestamps, rows of 2 terms, 9 strange endings | `TypeOK`, `RequestArrives`, `RowsArrive`, `SizeIsRight`, `ConcatenationMerges`, `TablesAreWhole` | a message that is reused or cut shows nothing of another; its rows print in their columns |
| `parser` | 4 first words, up to 2 of 7 pieces, or 3 values around one | `TypeOK`, `WellFormedIsUnderstood` | well-formed statements mean what they say |
| `configuration` | every file of up to 3 of 13 lines; every line of up to 3 options in all spellings, or 3 of 10 loose arguments | `TypeOK`, `WholeFileOrDefaults`, `ErrorNamesItsLine`, `CommandLineObeyed`, `StartEnds` | the command line is obeyed; all of a file or none of it; an error names its line |

Four further runs, `slow_nochanges`, `crash_manifest`, `disk_saved` and
`parser_limit`, each find a counterexample to what a comment or message says
(section 6).

Bounds, and why they are enough:

- *One triple* in the process runs: two saves differ when it is stored and when
  it is not, which is all it takes for files of two saves to disagree. *One copy*
  (`MaxCopies`) likewise.
- *Two statements* per request (`MaxStatements`) let one handler change and then
  save, or save and then change; the planner has no bound on the number of
  statements.
- *Two servers* are all that the code can run. `chaos` has one, the default
  configuration, and an empty `Universe`: what the multimaps hold decides nothing
  about whether the process ends, and DELETE and CLEAR lock and dirty an empty store
  all the same. The main thread is its only saver; main and an IO thread that save
  at once are in `slow_nochanges`.
- *Three triples*, two of them with stored wildcards, in `planner`: a pattern
  with a wildcard, one with a literal that some triple stores as a wildcard, and
  keys shared in every index.
- *Two requests* of one client (`MaxRequests`) let one be sent while the other is
  answered, next to the session of another client; *three clients and two
  sockets* (`MaxOpen`) let each of them wait while the others are served. *Room* (`Window`)
  for one reply of the first client lets one wait in the stream while the next is
  written; the replies of the second never fit, so that its write ends only when it reads.
- *Base 2* in `shell` makes bodies of two bytes cross a byte boundary of the
  header; the bodies `<<1, 0>>`, `<<1, 1>>` and `<<>>` can be taken for parts of a
  header and for each other's beginnings. *Three requests* (`MaxStatements`) put
  one between two others. *Room for four bytes* (`Window`) is a header: a reply with a body is
  never written at once, and one without a body fills the stream. Larger bases, other messages and longer connections are
  covered by the theorems of `Shell_proofs`.
- *Three lines* (`MaxLines`): a line, its repetition in other letters, and a
  malformed, a blank or another one in any position. Files of any lines and any
  length are covered by the theorems of `Config_proofs`.
- *Three options* (`MaxOptions`) of seven, or *three loose arguments* (`MaxLoose`): an
  option, the value it may take, and one that it may take for its value. Paths that
  look like options are among them.
- *Sizes of two bytes* (`SizeBytes`, 8 in the program) can be taken for text and the
  reverse; the texts are of 0, 1 and 2 bytes, each the beginning of the next. What nobody
  wrote (`Unwritten`) is zeros, or ones and zeros behind them, which make sizes that are
  too large and sizes that fit. The theorem has any memory.
- *Two rows* (`MaxRows`) with a printing limit of 1 (`printRowLimit`, 100 in the program)
  are one below and one beyond it; columns of 4 (`COLUMN_WIDTH`, 20 in the program)
  are narrower than one header and one term. *Two accesses* (`MaxAccesses`) set a
  field and take it back, or set it twice.
- `Texts` in `parser` has statements in which every piece precedes and follows
  every other, and requests of any length over them. Statements of any length are
  covered by the theorems of `QueryParser_proofs`, messages of any size by those of
  `Wire_proofs`, and stores of any size by those of `QueryPlanner_proofs`.

The runs that check deadlock are those of `TrisDb`, where a terminated process may
restart. In the others the system may really stop: the process ends on QUIT or an
exception, files are read to their end, or clients have sent what they will.

## 4. Fairness

- *TrisDb*: weak fairness of the main thread, of each IO thread's own steps, of
  each saving thread, and of closing the Manifest. These are operating-system
  threads that nothing but the mutex blocks, and a step that waits for the mutex
  is enabled when it is free. `Client` (a request comes, or its next statement is
  QUIT or does not parse), `Sigterm`, `Kill`, `BindFails` and `Restart` come or do
  not come. The mutex needs no strong fairness: after
  SIGTERM no handler starts once the servers are stopped, so its holders run out.
- *Server*: weak fairness of the handlers of each connection: one thread runs
  ready handlers in turn, and epoll starves no descriptor. Clients and the main
  thread are under no obligation. A write waits for its client when there is no room, and
  no fairness ends that: `RequestsEnd` promises the answers to a client that goes on
  reading (`WF_vars(Reads(c))` stands in front of the property), whatever the
  others do, and `SessionsEnd` the end of the session of any client that left.
- *Shell*: bytes on the wire arrive, and a read or write that is complete or has failed
  returns, on both ends. The user need not type, and the server need not die. Our clients
  read the reply they wait for; `MessagesArrive` supposes of the other that it goes on
  reading (`WF_vars(Discards)`).
- *Main*: weak fairness of the one thread there is. `StartEnds` excepts a file that
  opens and cannot be read: the loop of the reader ends at the end of the file only.
- *QueryPlanner, QueryParser, Wire* have no liveness: each of their steps is a call that
  somebody else makes.

## 5. Proofs

All are checked by TLAPS from the named assumptions on the constants, and hold
for every value of them.

**Recursion.** Induction and recursion over data, in a form the provers can use: what is
proved by induction is the membership of every number up to `n` in a set
(`Induction`, from the library's theorem that the natural numbers are well-founded),
and a recursive definition is met by any function that satisfies its equations on
`0..n`, which is then shown to be the one that was chosen.

**QueryPlanner_proofs.** `TypeCorrect`, `IndexesAlwaysAgree`, `PlannerRefinesStore`.
The invariant is that the three multimaps are the same bag; it is inductive
because `removeBy`, through whichever index it goes, removes exactly the triples
the pattern matches (lemmas on `removeFrom` and `EqualRange`), and it makes the
choice of `PlanHead` irrelevant, which is the refinement. `StoresAreLoaded` and
`CutStoresKeepBeginnings` are about the files of `Snapshot`, for any width of a size, any texts
and any iteration order: a number is read back from its digits, so the reader stands
behind record `n` after `n` records and has what the first `n` hold, whatever
follows them; so a file that was cut and filled up with any bytes reads as before up
to the cut, and as many records are read as its size says, unless one of them throws.

**QueryParser_proofs.** `TypeCorrect`, `StatementsAreUnderstood`: every well-formed statement, of
any words and any length, with its parameters quoted or not and its LIMIT in either
case, becomes the `Query` that it says. The proof follows a statement through `parse`: which LIMIT is
found last, what is left when the piece from it to the second space is erased, and
which quotes the regex pairs.

**TrisDb_proofs.** `TypeCorrect`: the ranges of all variables. The strengthening
is that a thread in a statement has one left, without which the count of
statements would not stay in its range.

`CleanAlwaysSaved`, `ExitsKeepData`, `SavesAreSnapshots`, for
`Mild` faults: kills and failing binds at any step, but no failing disk and no
request that outlasts the grace period, for which the runs `disk_saved`
and `slow_nochanges` show what goes wrong. None of the three is
inductive. `SaveInv` adds who may do what (`ControlInv`: the mutex belongs to the
thread that changes or saves, saves belong to their stages, the IO threads have
ended before main saves, a change is preceded by the flag) and what saving threads
hold (`DataInv`: a thread that serialised holds the multimap *as it is now*, its
file is empty until written and whole after). The second needs the first: the
multimap has not changed since because its only writer would hold the mutex.

`ProcessIsDurable`: under the same assumptions the process
implements `Durability`. `SaveInv` is what the refinement needs: between saves the
directory is not written, while one runs it may hold anything, and at its end it
restores the multimaps.

**Server_proofs.** `TypeCorrect`, `ConnectionsAreCounted`, `NeverTwoOperations`,
`OneAnswerMissing` and `ServerConverses`, for any number of connections, requests and
sockets. The count cannot be proved from itself: that a session is destroyed once
needs that it has one operation (`Lifetime`), and that an answer is the next one needs
where the session stands in the stream (`Position`: headers, bodies and requests
executed add up to what was sent; `Rest`: what is left of the stream alternates) and
that what was executed and not answered is being written (`Answered`). `ClientInv` is
all of that of one connection, `Counted` relates the connections by cardinality.

**Config_proofs.** `TypeCorrect`, `FilesCountAsAWhole`, `ErrorsNameTheirLine`, for files of
any lines and any length, of the server part of `Main` (`Config`'s `Spec`). The invariant
`IInv` says what the reader has of the first `n` lines: the pairs of its database are
those that the lines define, each key once, with its line (`Taken`), and the number it
keeps by hand is `n`. It rests on lemmas about texts: what was cleaned and lowered is
trimmed, so that reading a pair again changes nothing, and a value without a space
is the one its line defines.

**Shell_proofs.** `TypeCorrect`, `SessionUnpacksWhatWasSent`, `ResultsBelong`, for every
base of a byte, all messages and any number of requests, of a connection that
delivers in any pieces and ends anywhere. `Requests` says where each message ends on the
stream (`at`): what is in the session's buffer and on its way is the rest of the stream
from the last request that was unpacked, perhaps cut. `Results` is the same for the one
reply that a shell can wait for: nothing of it was written (`Silent`), what was read and
what is on its way are its beginning (`Arriving`), or the connection ended in its header
and the body is sized by what was left of it (`Blind`). It rests on `HeaderNamesSize`
(`NextMessage`: a buffer of the size that its header names is the next message) and
on `BodyOfPart`: what unpacks from a cut message is the beginning of its body, and zeros.

`HeaderNamesSize` itself, for every base and every size that four bytes can express, is
three divisions with bounds on the quotients; there is no bound on the base.

**Wire_proofs.** `TypeCorrect`, `RequestsArrive`, `RepliesArrive`, `SizesAreRight`, `BuffersMerge`, for
all texts and rows, any number of statements, rows and accesses, and any bytes behind a request. The
proof turns on `JoinedReading`: what is read of a stream that begins with a whole message is
what is read of the message, and then what is read of the rest. From it follow what
is read of a serialised message (`RequestIsRead`, `RecordIsRead`, `ReplyIsRead`), that two
messages in one buffer are their merge (`TakingMerges`), and what is read of a cut one: zeros end a
message before its end (`ZeroEnds`), so a cut among the rows is refused (`StringsTorn`) and one in
the timestamp, whose length came, changes nothing but the time (`TornString`, `ReplyTorn`).
`IInv` adds to the types what ties bytes to messages: what was sent parses, if at all, as
a message that reads as what was asked, which holds before the session has seen it
(`RequestInv`), and a reply that parses has the rows, cut or not (`ReplyInv`). That the
session's old message plays no part is `ParsedAlike`: a cleared message reads as a new one,
though it need not equal one, since its strings stay allocated.

`TablesStayWhole` is about what is printed of such a reply, for any number of rows and any
column width from 4. A table of `n` columns is always `n * (width + 1)` wide; a row that has
`k` of its cells is a bar and `k` such columns (`CellIs`), so the last one ends a line of the
rules' length and sets the column back (`CellsAre`, `RowIs`); the header is cut to its columns
(`HeaderIs`); and the lines are three, the rows and one (`RowsArePrinted`, `FooterIs`).

Only model-checked: everything temporal under fairness (`ShutdownSaves`,
`ShutdownCompletes`, `RequestsEnd`, `SessionsEnd`, `BacklogEnds`, `MessagesArrive`,
`PromptReturns`, `StartEnds`), which is out of the prover's reach; and
`CommandLineObeyed`, whose options are declared in strings that the code takes apart.

## 6. Where the code and its comments disagree

| Run | Says | Does |
|---|---|---|
| `slow_nochanges` | `TrisDb.cpp:196` "No changes to dataset" | `sleep(1)` ("give the IO threads time to terminate", `TrisDb.cpp:191`) waits for nobody: a running SAVE of unchanged data is cut by the exit, after it truncated the files |
| `crash_manifest` | `TrisDb.cpp:170` "Check manifest file to see if db exists" | the Manifest is written first and the files in place: a kill leaves a Manifest without a database |
| `disk_saved` | `StorageEngine.cpp:41` "Database saved to disk in" | no open or write is checked, and the dirty flag is cleared |
| `parser_limit` | `QueryParser.h:25` "parses it and returns Query object" | the LIMIT of an earlier statement of the request stays in force |

Three more disagreements showed while reading and have no run. `utils/trisdb.conf:9`
says "Listen for connections on specified network interfaces", and the setting
`listen` is read and never used; nor do `loglevel` and `logfile` have an effect, but for
the log line that names the file. `table_printer.cpp:34` says that a column has a width
of 5 and more, and the code, as the model, throws below 4. `Shell.cpp:110` says "Query executed in" of an
answer that never came, because a connection that ended reads as an empty
response; `ResultBelongs` states what such an answer can be.

## 7. What is not modelled

- Log lines, clocks and durations (`LogManager`, `TimeUtils`, `SimpleTimer`), and the
  texts that STATUS reports: no state that a statement or a save depends on. The
  uninitialised timestamp of a request without statements only reaches the printed
  duration.
- Line editing, except that completion may crash.
- What the program does not instantiate of cereal (JSON, XML and portable archives,
  other containers, polymorphism), with RapidJSON and RapidXML, and of cxxopts
  (defaults, implicit values, positional arguments, vectors). The decimal formatting
  of numbers in the table printer: every cell of the program is a text.
- Registration of descriptors and reflection in the generated messages. The runtime
  library of protobuf, asio and snappy are modelled as the code uses them.
- Memory exhaustion, except by the length in a header (`header_ends`) and in a data file,
  which a load may throw at; and the destruction of servers while an IO thread still
  runs, which can happen in `chaos` and `slow_nochanges`.
- `sleep(1)` waits for nobody. Only the fault `slow` lets it end before the IO threads
  have; `ExitKeepsData` and `ShutdownSaves` are checked without it, and `slow_nochanges` shows
  what happens with it.
- Compression itself: of snappy there is the length in front and what a failure leaves.
- Tags and lengths of several bytes in protobuf messages, and groups.
- Case folding and `atoi` on arbitrary text: they are functions on the words of
  an instance.

## 8. Plan

Done: the modules above, in the order planner, storage engine, process, parser,
sessions, configuration, framing with the shell; then torn files and `Durability`,
messages, archives, tables, the command line, and the proofs about servers,
durability, configuration, connections, archives, statements and messages.

Left, by importance:

1. Compose `Server` with `TrisDb`: `Receive` and `Reply` as the handlers of sessions,
   so that a shutdown meets sessions in every state, and the statements of a
   request meet the parser's shared `Query`. The product of the two is beyond what
   TLC finishes quickly; it needs an abstraction of one side, for which `Conversation`
   and `Durability` are the candidates.
2. A proof of `CommandLineObeyed`.
