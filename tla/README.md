# A TLA+ development of hs_common

hs_common is the common library of a family of game servers, written in C++ on
boost::asio: TCP sessions with a packet framing, a server that accepts clients, a channel
that links two servers, asynchronous access to a database over ODBC, a polled client,
configuration tables with a Lua binding, two path searches, and small helpers. The modules
in this directory model its core, TLC checks them on small instances, and TLAPS proves
theorems about them for all values of the constants.

    tlc -config HSSession_recv.cfg MCHSSession       one run (the table below names them all)
    tlapm HSSession_proofs.tla                       one module of proofs

## 1. The system

Everything runs on callbacks: the application's thread polls an `io_service`, which runs
the completion handlers of sockets and timers one after the other, and the handlers call
the application's `HSEventHandler`. The operating system completes operations at any time
between and during handlers, but never interrupts one. What several parts share is the
session (held by `shared_ptr` in `HSSessionMgr` and in every handler that is outstanding),
the map of `HSSessionMgr`, a singleton, and one function static of
`HSSession::handle_read`.

| component | state | operations | calls, and is called by |
|---|---|---|---|
| Session (`hs_session.*`) | socket, `connected_`, receive and send buffer, `handle_sending_`, the static `max_read_length` | `connected`, `start`, `handle_read`, `handle_write`, `write_result`, `handle_error`, `send`, `clear` | uses buffers and framing; handlers queued in the io_service; calls `onConnect`, `onReceive`, `onDisconnect`, inside of which the application may call `send` |
| Buffers (`hs_buffer.h`) | memory, in offset, used or sent offset | `DataIn`, `DataUse`, `MoveUnuseData2Begin`, `Sent`, `Clear` | called by the session, and by the operating system's reads and writes in between |
| Framing (`hs_packetworker.*`) | none | `DecodePacket`, `EncodePacket` | called by the session |
| Session manager (`hs_sessionmgr.*`) | `curr_id_`, `sessions_`, the local sessions | `new_session`, `new_local_session`, `get_session`, `remove_session` | called by acceptors, connectors and the application |
| Acceptor, client server (`hs_acceptor.h`, `hs_server.h`) | the listening socket | `start`, `handle_accept`, `poll` | makes a session, waits with it for a client, starts it, begins again |
| Connector, channel (`hs_connector.h`, `hs_channel.h`) | `state_`, `connected_failed_`, the timer | `connect`, `listen`, `poll`, `handle_connect`, `handle_timeout` | work on the one local session and the shared io_service |
| Request list (`hs_list.hpp`) | head, tail, recycled nodes, counts | `PushValue`, `GetHeadValue`, `RemoveHead` | called by the database access |
| Database (`hs_odbc.*`) | statement handles with `doing_` and `callback_`, the request list | `ExecuteQuery`, `Doing` | main loop calls `Doing`, which calls the callbacks, which may call `ExecuteQuery` |
| Graph search (`hs_Dijkstra.*`) | settled nodes, cached paths | `dijkstra_get_path` | pure |
| Grid search (`hs_astar.*`) | open and closed list, node allocator | `hs_astar_find_path`, `hs_astar_recycle` | pure, but the allocator lives over searches |
| Client connector (`hs_client_connector.*`) | `state_`, `sock_`, two buffers | `Init`, `Connect`, `Send`, `Tick`, `Disconnect`, `Close` | polled by a client's loop; same buffers and framing; calls `OnConnect`, `OnDisconnect` |
| Configuration (`HSConfigReader.h`, `config_file.h`) | rows of a file, maps from fields and keys into them, rows and values found so far | `Load`, `Reload`, `Clear`, `GetData`, `GetHSValue`, `As...` | read by the application and, through the binding, by scripts |
| Lua (`MyLuaWrapper.*`, `interface2lua.cpp`) | the Lua state and its stack | `Init`, `Close`, `LoadFile`, `DoFile`, `DoString`, `call_va`; the bound functions | the host calls scripts, scripts call bound functions and functions of the host |
| Rest | `hs_server_channel.*` (unfinished), `hs_service.h` and `hs_ioservice_pool.h` (io_services and threads nothing in the repository uses), `hs_2d.*`, `hs_window.*`, `HSSystem.*`, common headers | | |

What is hard in it:

* a handler acts on a session another handler has just cleared, because its operation had
  completed before; `clear()` resets offsets the late handler then moves;
* the operating system still writes from the send buffer while `send()` appends to it;
* packets split anywhere over reads, while the buffer is compacted and reset;
* the compaction threshold is one static for sessions with different buffer sizes;
* a connect, its timeout and its late completion meet in one queue of handlers, on one
  socket that listening and the next `connect()` use as well;
* callbacks start queries while `Doing` is in the middle of its loops over handles and list;
* the main loop of a server polls an acceptor and a channel in turn: a poll that does not
  return, or an exception that leaves it, stops both;
* a client is initialised, connected, closed, broken and shut down in any order, over
  buffers that `Close` frees, and none of these calls asks for the client's state;
* look-ups are answered from rows and values that were kept, while the file is loaded anew
  under them; a value keeps its first conversion; host and scripts use the same values;
* script calls nest, fail in the middle, and must leave the Lua stack as they found it;
* the searches permute and look through lists with an index that is one place off.

What makes each part correct: a session delivers the peer's packets whole, once and in
order, always has a read with room, writes what was queued in order with one write at a
time, and ends with a bounded number of `onDisconnect`; the manager's map gives for an id
the session that was given this id; the channel's flag and socket agree, and connecting
comes to an end; a query's callback gets the results of its own query, once, and what other
queries do while it runs leaves what it was given alone; a client is told of each beginning
and end of its connection once; a look-up gives what the file says; a script's call is
balanced; a search gives a shortest path, or says rightly that there is none. PROJECT.json
lists every hazard at its line with the property that covers it, and what of it none does.

## 2. The modules

| module | models | proofs |
|---|---|---|
| `HSBuffer`, `HSPacketWorker` | the buffers' operations and the framing, as operators | |
| `HSSession` | one session with its asynchronous operations, peer and application | `HSSession_proofs`, `HSSessionReceive_proofs`, `HSSessionSend_proofs` |
| `FrameStream` | what a session promises, abstractly | |
| `MCHSSession` | sizes for TLC | |
| `HSServer` | accept chain and session manager | |
| `HSChannel` | channel, connector, acceptor, local session, timer, io_service queue | |
| `HSList`, `HSODBC` | request list; database access, which extends it | `HSODBC_proofs` |
| `GameServer` | a server program: `HSServer` and `HSChannel` polled by one main loop | `GameServer_proofs`, for `HSServer` and `HSChannel` as well |
| `Dijkstra`, `AStar` | the searches, one step per round of the outer loop | `Dijkstra_proofs` |
| `PathSearches` | both searches side by side | `PathSearches_proofs`, for `AStar` as well |
| `HSClientConnector` | the polled client with its packer, and the network under it | |
| `HSConfigFile` | reader, table, caches and values | |
| `MyLuaWrapper` | the Lua stack under nested calls | |
| `ClientProgram` | a client program: the binding between `HSConfigFile` and `MyLuaWrapper`, and the connector | `ClientProgram_proofs`, for its three parts as well |

Operators named "Mutant of X" stand before X. They state a plausible bug of X; PROJECT.json
pairs each property with one, and with the mutant in X's place TLC violates the property.
They are no part of the specifications.

### HSSession

The peer's byte stream is a sequence of positions 0, 1, 2, ...; `frames` says where its
packets start and what each header claims: a payload length, or one of two wrong claims
(`BadMagic`, `Oversize`). A cell of a buffer holds the position of the byte stored in it.
That is all the properties need to tell whether a byte is lost, repeated or moved, and
`DecodePacket` sees a header's claim only when the bytes of that header are there in
order; otherwise the header may claim anything.

| state | code |
|---|---|
| `sock`, `connected`, `sending` | `socket_`, `connected_`, `handle_sending_` |
| `rb`, `sb` | `recv_buffer_`, `send_buffer_` |
| `maxRead` | the static `max_read_length`; `Unset` before its initialisation |
| `rop`, `wq` | the outstanding read and writes, with what they were given and how they ended: `pending`, `ok`, `soft` (the error `handle_error` answers with 0), `hard` |
| `pc`, `cur` | the handler that is running: in the loop of `handle_read` or in a callback of the application; the packet given to `onReceive` |
| `frames`, `slen`, `rdpos`, `rpos`, `queued`, `wired`, `sends`, `lateWrites`, `notified` | history the properties speak of |

`handle_read` is cut into steps where the application is called (`Deliver`,
`ReceiveReturn`), and into one step for each way out of the loop; `write_result` has one
action for each of its branches; `send()` has its three outcomes. Everything a handler
does on one path is in one action, `clear()`, compaction and the next `start()` included.
`OsRead`, `OsWrite` and their failures may come between any two of them; closing the
socket turns what is pending into a hard error and leaves what has completed. The other
sessions of the process appear only as one step that fixes the static threshold.

`clear()` is called by the application only between handlers. Called inside `onReceive`
it makes `DataUse` move the used offset past the received one, and the loop then decodes
beyond its buffer: undefined behaviour, described here and not explored.

`FrameStream` is the promise: packets delivered one by one in order, none at or after a
malformed one, none after the end. `ImplementsStream` is the refinement with
`up <- sock, next <- rpos`.

### HSServer

Sessions are numbered in the order they are made. `sessions` is `sessions_`, `id` and `st`
give each session's id and how far it is. `insert()` keeps an entry that exists; the id
counter wraps at `Ids`. A failed accept leaves its session in the map for ever, as the
code does. A client that has left before its accept is handled makes `remote_endpoint()`
throw, and nothing runs after that (`running`); so does a `start()` of the server that
cannot bind its port.

### HSChannel

`ready` is the io_service's queue of handlers. A poll runs them until the queue is empty;
an io_service without work stops, and a stopped one runs nothing, for nothing calls
`reset()`. `OtherWork` says whether something else keeps it going. Handlers cannot tell a
timer that fired from one that was cancelled; a successful connect does not cancel it.
`sock` tells an open but unconnected socket from a closed one, because an accept into the
former fails at once. The application may call `connect()` and `listen()` at any time
between polls, as often as it likes (`MaxCalls`): several accepts may then wait for the one
socket, and `clear()` of the session (`Cleared`) closes the socket under a connect that is
outstanding or has completed. The handler of such an older connect stays in the queue
(`oldConnectOk`) and sets `connected_` of whatever socket there is by then; `overtaken`
remembers that this is where the flag comes from. The first `listen()` binds the port, and
may throw.

### GameServer

The main loop is at the server or in a poll of the channel, never in both. `ServerAccept`
needs the channel's poll to have returned, and everything the thread does at the channel
needs that no handler of the server has thrown. `KeepsAccepting` is a property of the two
together: it names both ways in which the code lets the server stop.

### HSList and HSODBC

The list is modelled node by node, with nodes numbered as they are allocated. A query is
its number. `giving` is the query whose callback runs: `OthersKeepParams` says that the
queries it starts inside leave the parameters it was given alone, but for one that runs
asynchronously on the handle it was called for, which overwrites them. `Doing` is cut where
a callback may run; a callback that `ExecuteQuery` calls before it returns is part of its
step, for `ExecuteQuery` changes nothing afterwards. `ExecuteQuery` pushes without limit;
that the application has at most `MaxQueued` queries in the list is a bound of the model.

### Dijkstra and AStar

One action is one round of the outer loop. The reference definitions (distances by paths
of at most k edges; cells reached by k steps) are recursive functions next to the
properties. Dijkstra's matrix is restricted to the entries that are ever read, and the
list of nodes is loaded once: a second `dijkstra_list_load_data` would add its number of
nodes to `len`, which nothing resets. In AStar the look at the closed list misses its oldest
node, as the code's index does; the model keeps that. The allocator lives over loads,
searches, recycling and clearing, in any order; a search right after `hs_astar_clear` writes
through a null pointer and ends the model.

### HSClientConnector

| state | code |
|---|---|
| `clientState`, `sendBuf` | `state_`, `send_buffer_` |
| `handle` | `sock_`, which is never reset to 0: a usable socket, one that was never made non-blocking, or a value that is none |
| `packing` | the packer has a buffer |
| `link` | the connection of that socket, as the two operating systems see it |
| `told` | what the application has been told, or has done itself |
| `reached`, `refused`, `inits` | history |

No call asks for `state_` but `Tick`, so `Init()`, `Connect()`, `Close()`, `Disconnect()`
and `Send()` may come in every state. `Init()` puts a new socket in the place of the old
one, which it does not close, and `NewSocket` is what its three outcomes share; `Connect()`
is answered by the socket. `Tick` is one action for each way through it: waiting for the
connect, a failing read, a send that takes all, a part, or fails. `send()` always begins at
the buffer's first byte, since nothing calls `Sent()`.
`recv()` is given the used part of the receive buffer, which is empty: nothing is ever
received, and neither the unpacker nor the receive buffer is modelled.

### HSConfigFile

A file is a sequence of lines, and a line the sequence of texts that its delimiters make.
`CreateDataRow` loses what follows the last delimiter and what follows an empty cell, and
`LoadConfig` a last line without newline, as the code does. `cache` is
`m_mapDataKey2Data`: for each row found so far where it is, whether it still exists, and
the kind of each value's first conversion, which is the only one made. `held` is the
`HSValue*` got last, by the host or a script; after a `Clear()` it points to freed memory,
and using it ends the model (`undefined`), as does a file with an empty row. `LookupIsRight`
compares with the file's own lines: with the first cell of the key and the field in a proper
file, whose columns have different names and whose lines have all a cell for each; in other
files with any such cell. It speaks of one file, loaded once or several times. Loaded twice,
a file has its header twice, and the key field is looked for at the second header's place: no
row has a cell there, unless one is wider than the header, and that one is then found under
a key it does not have. So the property excludes such files (`IsNarrow`) when they are loaded
on top of themselves.

### MyLuaWrapper and ClientProgram

`frames` has the stack of the host's code, and above it one for each function of the host
that a running script has called; a record of the call in progress is on each but the top
one while the host runs. `call_va` pushes, calls, and pops on each of its ways out. An error
goes to the call below, or to the script in it, which may have a protected call of its own.
In `ClientProgram` the generated functions are steps of a running script on the
configuration; arguments of wrong types and missing objects are its failing (`ScriptFails`).
The connection shares nothing with scripts and configuration: each is seen with the other
at rest.

## 3. The runs

| run | configuration | what it shows |
|---|---|---|
| session_receive | `HSSession_recv` | `TypeOK`, `RecvBounds`, `FittingLoopAlive`, `PacketIntact`; the session implements `FrameStream`; `StreamProcessed` |
| session_send | `HSSession_send` | `WriteInOrder`, `SendingMeansInFlight`, `DisconnectBound`; `SendingSettles`, `Drains` |
| game_server | `GameServer` | `LookupFindsOwn`, `ConnectedOwnsSocket`; `ConnectSettles`, `AcceptSettles`, `KeepsAccepting` |
| odbc_requests | `HSODBC_requests` | `HandleOwnsQuery`, `CalledAtMostOnce`, `OthersKeepParams`, `DoingReturns`, `CalledOrFailed`, and no deadlock |
| path_searches | `PathSearches` | `ResultIsShortest`, `SettledIsFinal`; `FoundIsShortest`, `ParentsLeadBack`, `NoPathIsRight`, `NodesSuffice` |
| client_program | `ClientProgram` | `ToldTruth`, `QueuedIsSent`, `BrokenIsReported`; `LookupIsRight`, `AnswersStay`; `CallsAreBalanced` |
| session_threshold | `HSSession_v_threshold` | `ReadLoopAlive` fails |
| session_queued | `HSSession_v_queued` | `QueuedReachesWire` fails |
| session_assert | `HSSession_v_assert` | `NoAssertFailure` fails |
| channel_fallback | `HSChannel_v_fallback` | `FallbackAccepts` fails |
| odbc_twice | `HSODBC_v_twice` | `CalledAtMostOnce` fails with two queries in the list |
| client_resend | `HSClientConnector_v_resend` | `RoomComesBack` fails |

Bounds, and why they are enough:

* session_receive: headers of 2 bytes, packets of at most 4, so that a header and a payload
  can each be split, be absent, or end a read; a receive buffer of two packets, and other
  sessions with one and a half and with four, so that the threshold is 2, 4 or 12, the
  last beyond the buffer; 10 bytes of stream, which fill the buffer once and wrap it.
  `FittingLoopAlive` and `StreamProcessed` are promised with a threshold that fits, the
  rest with any. Nothing is sent: sending shares with receiving only
  `clear()`, which session_send exercises together with reads.
* session_send: a send buffer of one packet and a half and three sends of nothing, of a
  full payload and of more than a packet holds: partial writes, a full buffer, a reset
  between two sends, a write after `clear()`. The peer sends one header, well-formed or
  not, so that data, malformed packets and read errors meet the writes.
* game_server: two sessions and three ids, the fewest the theorem's assumption allows, so
  that one session can be removed, or its accept fail, before, while and after the other is
  accepted; `LookupCorrect` says the same of any number. A channel with three calls of
  `connect()` and `listen()`, so that a connect is overtaken by a second one, or by a failure
  that turned into listening, and called for once more, while the handlers of all of them
  wait. `OtherWork = FALSE`, so that the channel's io_service can stop.
* odbc_requests: the code's two handles and four queries, so that both handles are busy,
  one query waits and one more is started by a callback. At most one query waits in the
  list, because with two the list is wrong: that is odbc_twice, with one handle and three
  queries.
* path_searches: four nodes, where a path can be replaced twice; no edge and two weights
  whose sums differ; begins 1 and 2, the first node and one that must be swapped to the
  front. All 512 maps of 3 x 3 and all pairs of ends; the smallest square with a detour
  around a middle. The allocator has one node more than there are cells.
* client_program: a send buffer for one packet and a half, data of nothing, of a full
  payload and of more than a packet holds, three times `Init`, in any state, so that an
  `Init` over a connection is followed by another one. Six files: a proper one with a key
  twice, one with two lines of header, one without the last newline, one with an empty
  cell and a text behind the last delimiter, one with a blank line, one with two columns
  of the same name and a row wider than its header; two of them on top of each other;
  fields that are in a header and one that is only in another file's. Calls with and
  without arguments and results, with unknown options of both; one call inside of another;
  two values left over. With a Lua state only the proper file is loaded: scripts meet its
  cache and its reloading, and the reading of the other files does not depend on them.

Deadlock is checked where the system never stops (HSODBC). The others stop by design: a
session drains, a search ends, a handler has thrown, a program has crashed or panicked.

### Fairness

Sessions: the thread keeps polling, so queued handlers and the running one go on (weak
fairness of each handler group). Reading and writing are strongly fair: a pending operation
may fail softly and be started again, but the socket does not do so for ever when it could
make progress again and again. Nothing is assumed of the application, of the peer, of hard
errors or of `clear()`; accepting is not assumed either.
Game server: the main loop comes back to the server again and again; since each poll of the
channel disables it for a while, `ServerAccept` has strong fairness.
Channel: the main loop keeps polling, ready handlers run, the timer fires, and a peer keeps
trying to connect where an accept waits. It is not assumed that a connect completes: the
timer is there for that.
Client: `Tick` is called again and again (weak fairness of noticing the connect, and of a
send that takes everything, as a good connection's does unless it ends; on a connection that
is over `send()` fails, and on a handle that is none `select()` does). Nothing is assumed of
the application or of the network.
Scripts and configuration: none, there is no property that needs it.
Database: `Doing` is called again and again and each step of it is taken; the driver
finishes its queries.

### What the code does not do

The six runs that violate are disagreements between the code and what it says of itself.

* session_threshold: the first session that leaves the loop of `handle_read` with an
  incomplete packet fixes the threshold for all. In a session with a smaller buffer the
  threshold lies beyond the buffer's end, the buffer is never compacted, a read with no
  room completes with nothing, and the session never reads again.
* session_queued: `write_result` calls `handle_write` before it clears `handle_sending_`,
  so the rest of a partial write stays in the buffer until the application sends again.
* session_assert: `clear()` resets the send buffer while a completed write still waits for
  its handler, which then moves the sent offset past the other one, and the assertion
  of `GetCanSendSize` fails.
* channel_fallback: a failed connect leaves the socket open; the accept that follows fails
  at once, is started again by its own handler, and `poll()` does not return.
* odbc_twice: `MoveHead2Tail` does not assign `new_head`; with two queries in the list
  the removed one is executed and answered again, and the other never.
* client_resend: the packer never tells the buffer what was sent. The buffer only fills,
  each `Tick` sends all of it again, and data once refused, "to be sent later", is refused
  for as long as the connection lasts.

The models also have these, which no run reports:

* data that finds no room in the send buffer is dropped while `send()` returns true, where
  hs_session.cpp:213-214 describes postponed attempts (`SendNoRoom`);
* a malformed packet clears the session without `onDisconnect` (`DecodeMalformed`);
* with more sessions than ids `insert()` keeps the old entry, and the new session is not
  found: `LookupFindsOwn` fails with three ids and five sessions;
* after the first accepted connection of a channel is lost, nothing accepts the next one
  (`AcceptorStart` with a connected session starts nothing);
* `connect()` of a connected session calls a function of a null pointer
  (`AppConnectConnected`);
* on an io_service that has stopped neither connecting nor accepting ends;
* the handler of a connect that another `connect()` or a lost connection has overtaken does
  not know it, and marks the session connected on a socket that is not
  (`RunOldConnectOk`; `ConnectedOwnsSocket` fails without `overtaken`);
* a failed accept on the open socket of a connect is started again at once and for ever,
  after a fallback (run channel_fallback) as well as after a `connect()` called while
  listening whose connect then fails (`Spinning`);
* a query whose asynchronous run fails is dropped without its callback (`ScanError`);
* a callback that executes a query asynchronously on the handle it was called for loses its
  own parameters (`RunAsync`; `OthersKeepParams` without `~doing[idx]` fails);
* the list never uses a node again (`PushValue` looks behind `tail_`, `MoveHead2Tail` hangs
  nodes behind `recycled_tail_`);
* after `Close()` the client's buffer has no length, `SetLength` does nothing, and a client
  that is initialised again can send nothing (`SendRefused`);
* `Init()` over a connection drops it without closing the socket or calling `OnDisconnect`
  (`ToldTruth` fails without "replaced"), and what is in the send buffer stays there and is
  sent on the next connection (`NewSocket`); a failing `Init()` leaves `state_` as it was,
  and after one that has got a socket `Connect()` waits until it is connected (`InitFails`);
* a refused connect is never noticed, for `Tick` waits for writability only; a socket that
  takes nothing more is taken for a lost connection (`TickSendFails`), and `Send` says -1 of
  a packet it has queued (`NotCarried`);
* a blank line in a configuration file is undefined behaviour (`Loading`); a file with a row
  wider than its header, loaded on top of itself, has this row under a key that is none
  (without `IsNarrow`, `LookupIsRight` fails); a value asked for in two ways is 0 in the
  second, and always 0 as a `long long` (`AnswerOf`);
* `LoadFile` and `DoString` say the opposite of what has happened, and leave a value on the
  stack each time (`LoadFile`); an unknown option of `call_va` ends the program (`panicked`);
* A* closes the start twice, and an exhausted allocator's null pointer is written through
  (`crashed`).

## 4. What is proved

Each theorem is for every value of the constants under the named assumptions of the
modules, and for those it names besides. Each rests on an inductive invariant, proved with
one step for each action of the model; TLC has checked the invariants on the runs'
instances before.

| property | theorem | inductive invariant |
|---|---|---|
| `TypeOK`, `RecvBounds` | `TypeCorrect`, `BoundsKept` | `BoundsInv` |
| `FittingLoopAlive` | `LoopAlive` | `LoopInv` |
| `PacketIntact`, `ImplementsStream` | `PacketsIntact`, `StreamImplemented` | `StreamInv` |
| `SendingMeansInFlight`, `DisconnectBound` | `OneWriteAtATime`, `DisconnectBounded` | `SendInv` |
| `WriteInOrder` | `WritesInOrder` | `WireInv` |
| `LookupFindsOwn` | `LookupCorrect`, `ProgramLooksUp` | `IInv` |
| `ConnectedOwnsSocket` | `SocketOwned`, `ProgramOwnsSocket` | `LinkInv` |
| `HandleOwnsQuery`, `CalledAtMostOnce` | `OwnQuery`, `AnsweredOnce` | `QueryInv` |
| `OthersKeepParams` | `OwnParams` | `ParamsInv` |
| `ToldTruth` | `ClientTold`, `ProgramTold` | itself |
| `CallsAreBalanced` | `LuaBalanced`, `ProgramBalanced` | `FramesInv` |
| `AnswersStay` | `ConfigAnswers`, `ProgramAnswers` | `ValuesInv` |
| `LookupIsRight` | `ConfigLookups`, `ProgramLookups` | `ValuesInv`, `LoadedInv` |
| `ParentsLeadBack`, `NoPathIsRight`, `NodesSuffice` | `GridTree`, `GridNoPath`, `GridNodes`, `SearchesTree`, `SearchesNoPath`, `SearchesNodes` | `GridInv` |
| `FoundIsShortest` | `GridShortest`, `SearchesShortest` | `GridInv`, `ShortInv` |
| `SettledIsFinal`, `ResultIsShortest` | `SettledStays`, `PathsAreShortest`, `SearchesSettled`, `SearchesResult` | `DijkstraInv` |

These are all safety properties of the runs.

`HSSession_proofs`, for all header, packet and buffer sizes under `PacketAssumption` and
`SessionAssumption` (a header has at least one byte, a packet fits each receive buffer).
`RecvBounds` alone is not inductive: `ReceiveReturn` uses a payload whose presence
`DecodePacket` checked two steps before, with a callback in between. `BoundsInv` adds
`PayloadPresent`: while `onReceive` runs, the payload is wholly in the buffer. It holds
because reads never overlap the loop that moves the offsets, `clear()` runs only between
handlers, and a late completion is refused by `DataIn` when it does not fit. The proof has
lemmas on what each buffer operation returns, which all the session's proofs use.

`HSSessionReceive_proofs`, whatever the sizes of the other sessions' buffers, first of the
loop. That a read has room cannot be seen from the read alone: it was started where the loop
ended, after a compaction whose effect depends on what was unused. `LoopInv` adds to
`BoundsInv` that the read of an idle session lies in the free part of the buffer
(`ReadFits`), so the data it brings is not refused; that the loop goes round only while
bytes are unused (`DecodeHasBytes`), so compaction frees whatever has been used; and that a
fitting threshold leaves room (`RoomLeft`), since an incomplete packet is shorter than
`MAXPKT`.

`HSSessionReceive_proofs`, then of the stream. `StreamInv` adds to `LoopInv`, for a session
whose socket is not closed, that the unused bytes of the buffer are consecutive positions of
the stream from `Handed` on, the bytes of a completed read right behind them
(`BytesInOrder`, `ReadAtEnd`), and that packets tile the stream from `rpos` on
(`FramesTile`). It needs `OneReader`: no read is outstanding while a handler moves the
bytes. After `clear()` none of this holds, and none is needed, for the model does not
deliver on a closed socket. The refinement then is step by step: with `BytesInOrder` a
header is seen only when it is the one at `rpos`, so `Deliver` is the stream's next packet,
teardown is the stream's end, and everything else leaves the abstract stream alone.

`HSSessionSend_proofs`. `NotifyBudget` counts, on a closed socket, what has been notified
and every operation that may still end in an error (the outstanding read or the handler that
will start the next one, and the writes), against two and the late writes. The two are what
an open session has outstanding at most, which is `SendingMeansInFlight`: the second theorem
needs the first. `WireInv` adds that the unsent bytes of the buffer are consecutive from what
is on the wire on, but for the bytes of a write that has completed and whose handler has not
run (`Taken`); that an outstanding write begins with the first of them; and that nothing is
pending on a closed socket, which is why `clear()` may reset the offsets under a late write
and still nothing wrong reaches the wire.

`GameServer_proofs`, first of the server, if fewer sessions are made than an id has values
(`MaxSessions < Ids`).
The invariant says that the s-th session has id s, that the counter is the number of
sessions, and that each session that was not removed is the entry of its id and no entry
names another one; without the first part nothing would forbid a removal to take another's
entry.

`GameServer_proofs`, then of the channel, for any number of calls of `connect()` and
`listen()`. Connects and accepts of a channel share one socket, and no variable of the code
says which of them has it. `LinkInv` says that a connect is outstanding only on an open,
unconnected socket, and that a success of the present connect that waits in the queue
(`Succeeded`) is about a socket that is up or was, with no other connect on it: whatever
closes the socket makes such a handler an old one (`Cleared`), and an accept leaves an open
socket alone. What is left is the handler of an old connect, which the property excepts as
`overtaken`. A step of the program is a step of the server or of the channel, so both have
their theorem in the program, too: a poll that does not return, or an exception, takes
nothing away from the other part.

`HSODBC_proofs`, for any numbers of handles and queries; of whose query is answered if at
most one waits in the list (`MaxQueued <= 1`), for with two these properties are false (run
odbc_twice). `Single` says
what the list is then: its tail is the last node made and is the head, too, so removing the
head empties the list, although `MoveHead2Tail` leaves `new_head` unassigned. `Busy` and
`Waiting` say that a query that was not answered runs on one handle or waits in the list,
never both; the one exception is the query of the list whose callback runs (`Giving`),
which has been answered and is still the head. Of a callback's parameters, with any number
of queries in the list: `Shape` says that the list's nodes are linked to its tail, `PushKeeps`
that its head keeps its value while others are put behind it, and `ParamsInv` that this is
the value the callback in the second loop was called for.

`ClientProgram_proofs`. The connector: `told` and `state_` change together in every step,
but for the one that puts another socket under a connection (`SocketReplaced`). The Lua
state: what lies on the stack of a frame with a call in progress is what
was there before, the function and its arguments; a call can only end when its frame is on
top, whatever was called inside. The configuration: `IsCache` says that each row found so far
exists and has values for all its cells or none, and `AnswerInv` that what was answered can
be read off the first conversion of a value that exists, which never changes before it is
freed; that loading on top does not disturb it needs that rows are put behind those that are
there (`RowsLoaded`). `PartsOfProgram` says that a step of the program is one of each part or
leaves it alone; with it the four theorems hold of `ProgramSpec`.

Its look-ups, for any files, layouts and keys. What the tables hold is built by loads with
smallest and largest places, and the property speaks of the file's lines, so the invariant
says what one load makes of a file (`FieldPlaces`, `RowPlaces`) and that the tables are that
(`HoldsTable`) as long as all that was loaded is one file (`OneFile`). A load into empty
tables makes it (`LoadsAfresh`); a load on top repeats header and rows behind the first
(`Repeats`) and finds no key, since no row reaches the second header's places (`LoadsAgain`).
Rows found before stay those of their keys (`IsPlaced`). `RowIsPrefix`, `LinesAre` and
`RowsAre` say which cells of which lines the rows are, and with them a look-up gives a cell
of the file (`CellOfLine`) and misses none of a proper one (`CellOfProper`). The attempt to
prove `LoadsAgain` is where the wide rows of section 2 came to light.

`PathSearches_proofs`, for a map of any size with any blocked cells, any capacity of the
allocator and any searches before. None of the three properties is inductive. A node that is
still open may get another parent and another g, so that a child of it would no longer be one
step further; `Tree` says that a parent is closed, and `Listed` that no node is closed and open,
so what `Improved` changes has no children. `NodesSuffice` would be lost if a cell could get
nodes again and again, and `is_in_closed` does overlook a node: `OldestIsFirst` says that this
is the first one made, so only the start's cell can get a second node, and
`OneNodeEach` that all others have different cells, so nodes 2, 3, ... map into the cells
one to one. `Explored` says that each free cell around a closed node has a node; when the open
list is empty every node is closed, so the cells seen are closed under steps, and the end was
not among them, for the search stops when it takes a node there.
`GridOfSearches` carries the three over to `SearchesSpec`.

That the path on the grid is shortest is the invariant `ShortInv`: nodes are closed in the
order of their estimates (`Ordered`), a free cell next to a closed node has a node that
counts at most a step more (`NextCounted`), and what a node counts can be walked
(`Counted`). The first needs that a step changes the estimate of what is left by at most one
(`Estimates`), so that a node put on the open list is not estimated under the one just
closed. When the end is closed, no shorter way to it can be: each cell on one would, by
`Ordered` and `NextCounted`, have a closed node that counts no more than the steps so far,
or an estimate from there no less than that of the node closed now, and the end has neither
(`RoundFinds`). `FoundIsShortest` compares with `Reached`, the cells in reach of 0, 1, 2,
... steps.

`Dijkstra_proofs`, for a graph of any size with any weights of which N - 1 fit an `int32_t`
together. `DijkstraInv` says that `used` stays a permutation, that what is in the cache is a
path and its length (`PathsKept`), with at most one edge for each settled node (`FewEdges`),
that no edge from a settled node would shorten a path (`RelaxedAll`), that settled nodes are
not farther than the others (`Nearer`), and that the next is the nearest of the rest
(`NextNearest`). A path in the cache bounds the distance from above, since it has at most N - 1
edges (`PathIsLonger`). From below: take for a settled node its length in the cache, and for
every other node the length of the next one, or infinity when there is no next. No edge
shortens these, so by induction over the number of edges no distance is less
(`NoneIsShorter`); for a settled node, and for the next, that is what the cache says
(`CacheIsShortest`).

The reference definitions of the searches (`Distances`, `LengthOf`, `Reached`) are recursive
functions. What they compute is proved by induction over the number of edges or steps, and
the induction itself by the least number outside a set: `HasLeast`, from the library's
theorem that `<` is well-founded on the natural numbers, gives `Stepwise`, and that a
function defined by recursion over an interval exists and unfolds (`Iterates`, `Iterated`).

Only model-checked is all liveness (`StreamProcessed`, `SendingSettles`, `Drains`,
`ConnectSettles`, `AcceptSettles`, `KeepsAccepting`, `DoingReturns`, `CalledOrFailed`,
`QueuedIsSent`, `BrokenIsReported`): it needs fairness and ENABLED, which lie beyond the
prover.

## 5. What is not modelled

* `hs_server_channel`: `poll()` does nothing with what `select` returns, and every handler
  is a stub.
* Service threads: the servers and channels of the repository are polled by the
  application's thread and use none of them.
* 2D geometry (floating point, no state), window and system calls (forward calls), common
  headers.
* Of modelled parts: `send()` from inside `onDisconnect`, `clear()` from inside
  `onReceive`, and calls of a channel from inside its handlers; loading a graph twice; an
  `Init()` of the client with another buffer length than before; the client's unpacker,
  which is never reached; the drivers' row accessors; deleting a channel while its
  operations are outstanding; a second channel on the same io_service; a second client
  connector, with which it would share Winsock; configuration delimiters of several
  characters, keys that are pointers, and the widths of integer conversions; what
  `call_va` writes into its results' places; the bound functions of `HSSystem`; the byte
  order and text of messages.

## 6. Plan

Done, in this order: `HSBuffer`, `HSPacketWorker`, `HSSession` with `FrameStream`;
`HSList`, `HSODBC`; `HSChannel`; `HSServer`; `Dijkstra`, `AStar`; `GameServer`, `PathSearches`;
`HSClientConnector`; `HSConfigFile`, `MyLuaWrapper`, `ClientProgram`; the theorems of
section 4, which now state every safety property of the runs.

Next: a second session of the process in full instead of `OtherSessionFixesThreshold`, and
the sessions of `HSServer` refined by `HSSession`.
