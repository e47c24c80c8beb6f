# Stakan: a verification project

TLA+ models of the order book server and its TCP client, model-checked with TLC on small
instances and, for the properties listed under *Proofs*, proved with TLAPS for every value of
the constants. Paths below are relative to the repository root (`src/...` is its `src/`
directory); line numbers are those of the commit the models were written against.

## 1. The system

| part | code | state | who touches it |
|---|---|---|---|
| Order book | `src/bid_ask_book/bid_ask_book.{h,cpp}` | two containers, one `shared_mutex` and one atomic total per side | any thread |
| Command queue, broadcaster | `src/snapshots_broadcaster/{command_queue,broadcaster}.h` | a queue behind a mutex and a condition variable, `running_`, a thread | producers, the broadcaster thread, the io thread |
| DOM manager | `src/snapshots_broadcaster/dom_manager.{h,cpp}` | `broadcasting_`, `broadcast_timer_`, the handlers posted to the `io_context` | the io thread |
| Client list, sessions | `src/client_list/client_list.{h,cpp}` | `clients_`, `session_to_client_`, a mutex | io thread, broadcaster's handlers |
| Client list, orders | same files | per client and side a map of list iterators and a list | same |
| Session | `src/TCP_server/session.{h,cpp}` | socket, strand, `messages_queue_`, `write_in_progress_`, `disconnected_` | strand handlers, senders |
| TCP server | `src/TCP_server/tcpserver.{h,cpp}` | acceptor, the list, the DOM manager | io threads, its owner |
| TCP client | `src/client.cpp`, `include/tcp_client/client.hpp` | `connected`, socket, `io_thread` | application thread, reading thread |
| Client library | `client_lib/order_book_client.cpp` | `state_`, the subscribed tickers | application thread |
| Snapshot sources | `src/snapshots_broadcaster/*snapshot_source*` | canned test snapshots and the index of the next | whoever asks the book for a snapshot |
| Wire format | `bid_ask_snaphot_interface/bid_ask_interface.h` | none | both ends |

How they interact. A `Session` reads a line and calls the server's `on_data_`; the server
looks the client up in the `ClientList`, answers through `Session::SendMsg`, and forwards
commands to the `DOMManager`, which posts them to the `io_context`. There a command or a tick
of the timer takes a snapshot and enqueues it with the `Broadcaster`; the broadcaster thread
pops it and posts a handler, which writes to the sessions of the client list. On the other
side of the wire a `TcpClient` reads frames in a thread of its own and calls back.

What is hard about it, and what makes each part correct:

- **Order book**: the container and the total change in different steps of a write, the
  quantities wrap, and the MD update reads everything under a lock of its own. Correct means:
  totals never drift, an iterator stays valid until it is used, a call looks atomic.
- **Queue and broadcaster**: a push may drop what waits; the thread can be stopped and
  started anywhere. Correct means: no client loses its latest snapshot, nobody goes back in
  time, `stop()` returns.
- **DOM manager**: cancelled and expired waits are handlers in the same queue as the commands.
  Correct means: while broadcasting is on exactly one chain of ticks lives.
- **Client list**: two maps that must agree, check-then-act across two critical sections, list
  iterators kept in a map. Correct means: a session leads to its client and back; iterators
  point to live nodes.
- **Session**: read, write, Stop and destruction race. Correct means: messages go out in order,
  one write at a time; the server hears of the end once.
- **TCP server**: the accept handler alone arms the next accept; a session lives as long as
  somebody holds it; a line decides between `OK`, `ERR` and an exception. Correct means: an open
  server always waits for exactly one connection, a closed one can be destroyed, `ERR` is for
  what is no HELLO.
- **TCP client**: two threads write one flag, a callback may throw. Correct means: a connected
  client is watched, the end is reported, `Disconnect` returns.
- **Client library**: `state_` and the tickers are a second account of the connection. Correct
  means: they differ from it only where nobody told them.
- **Snapshot sources, wire format**: canned snapshots stand in for the book's, an id 0 means "no
  order", the two ends count a frame differently. Correct means: a snapshot is sorted and not
  crossed, and what is written is what is read back.

`PROJECT.json` lists every component and, under `hazards`, each of these points at its line.

## 2. Modules

| module | models | checked in | proved in |
|---|---|---|---|
| `AtomicOrderBook` | what the book promises: New, Cancel and Replace in one step | through `OrderBook` | |
| `OrderBook` | the book with its mutexes and separate totals | `MCOrderBook` | `OrderBookProofs` |
| `Broadcaster` | queue, broadcaster thread, its handlers, its owner | `MCBroadcaster` | `BroadcasterProofs` |
| `DOMManager` | DOM manager composed with `Broadcaster` by INSTANCE | `MCDOMManager` | `DOMManagerProofs` |
| `AtomicClientList` | what `client_list.h` promises: every call in one step | through `ClientSessions` | |
| `ClientSessions` | clients, sessions, subscriptions and broadcasts of the client list | `MCClientSessions` | `ClientSessionsProofs` |
| `ArrivalOrder` | what a side of a client's orders promises | through `ClientOrders` | |
| `ClientOrders` | map of iterators and list of nodes | `MCClientOrders` | `ClientOrdersProofs` |
| `Session` | one session of the server | `MCSession` | `SessionProofs` |
| `TcpClient` | the client's connection | through `OrderBookClient` | `TcpClientProofs` |
| `OrderBookClient` | the client library over `TcpClient` (EXTENDS, steps conjoined) | `MCTcpClient` | `TcpClientProofs` |
| `HelloLine` | `ParseClientId`, and what a HELLO is | through `TCPServer` | |
| `SnapshotSource` | the canned snapshots and their frames | through `TCPServer` | `TCPServerProofs` |
| `TCPServer` | accept loop, owners of a session, HELLO, end of the server | `MCTCPServer` | `TCPServerProofs` |

Correspondence of state and actions to the code is in `PROJECT.json` under `map`, definition by
definition. The main abstractions:

- **OrderBook.** `orders[s]` is `bids_`/`asks_`, `total[s]` the atomic of the side, `lock[s]` the
  exclusive holder of its mutex. A writing call is split where another thread can see a
  difference: insert and add; subtract and erase; subtract, add and modify. A caller that
  waits for a mutex has had no effect, so the call starts when the lock is taken. Shared locks
  only guard single reads and are atomic in `GenBestBid`, `GenBestAsk`, `GenLevel`; the totals
  are read without a lock in `GenTotal`. `Word` stands for 2^64. `calm[t]` is a history
  variable: no writer was inside since `t` began its update.
- **Broadcaster.** A command carries the number of its snapshot: `GetTopSnapshot` reads nothing of
  the orders but hands out the snapshots of its source in turn, so that a snapshot is known by
  when it was taken. `Build` is where the snapshot is taken, `Push` where it enters the queue;
  between them other threads run. `asked` and `sent` are history: the latest snapshot a client was
  to be sent, and the one it was sent. An MD update for everyone clears the queue like any other
  command without a client, and supplies no snapshot; `absorbed` (history) records that it has
  cleared one, which is the loss `command_queue.h:111` rules out.
  Reading a `::MDUpdate` as a `common::MDUpdate` dereferences an empty optional, which is
  undefined: `HandleMDUpdate` may end the process or not.
- **DOMManager.** `io` is the queue of the io thread: commands, ticks, and aborted waits.
  `expires_after` and `cancel` abort a pending wait, but a tick that has been queued already
  has no error and still runs. The broadcaster's handlers wait in `posted` beside `io`:
  both are FIFO, and their interleaving is left free, which allows every order the single
  queue of the `io_context` can have.
- **ClientSessions.** One critical section is one action. A call about one client asks
  `has_client` under one lock and acts under another: two actions, with other threads between.
  A broadcast copies the sessions under the lock and sends after it, one `SendMsg` at a time, so
  that a session may be gone or null by then. Sessions are copied as a set: one that is bound to
  two subscribed ids is sent to once, where the code sends twice. `last` is history: which call
  ended last, about whom, and how. `AtomicClientList` is the header taken at its word; where the code
  does something else, `Departure` names it. `names[s]` (the ids a session introduced itself under) and
  `nulls` (the ids somebody added with a null session) are history.
- **ClientOrders.** List nodes have identities, so that a freed node can be used again and a
  dangling iterator would show. `twice` is history: ids added while they were in the map. The
  last assignment of an add is modelled in both orders of evaluation: with the right operand first,
  as C++17 and later demand and as g++ 12 does in every mode, `AddOrderMoved` reads through a null
  pointer and the process is over; with the left one first it is the add its author counts on. All
  that is checked of the lists is about the latter, that is, about the code once that line is
  mended.
- **Session.** Tasks dispatched to the strand are in `strand`; from a handler of the strand they
  run at once. An asynchronous operation completes in one step (`ReadCompletes`,
  `WriteCompletes`) and its handler runs in another. `Release` is the owner dropping the last
  `shared_ptr`, after which the weak pointers of the handlers are dead.
- **TcpClient.** `connected` is a plain `bool` written by two threads, a data race; its outcomes
  are modelled as the interleavings of single reads and writes. `threw` is history: `OnConnected`
  threw after the flag was set.
- **OrderBookClient.** A call of the library is a call of the client and what is done with its
  result; a step of `TcpClient` that ends a call is conjoined with the library's. `told` is
  history: the tickers subscribed over this connection.
- **HelloLine.** A line is a sequence of elements: `HELLO` is one, and a digit, a blank or a
  control character is its code. Numbers are computed modulo `IdWord`, which stands for 2^64.
- **SnapshotSource.** `OrderBook::GetTopSnapshot` asks `TmpSnapshotCreator`, whose snapshots are
  functions of an index. Serialisation is an order of elements, with the type byte as one.
  `dom_manager.cpp` calls `GetSnapshot` (69, 84), which is no member of `OrderBook`; it is taken for
  `GetTopSnapshot`, the only one there is.
- **TCPServer.** The calls of the list are atomic here (`ClientSessions` has shown that they may
  be). A session is held by the accept handler that made it, by a read handler that runs, and by
  the list; when none does it is gone, as its own handlers hold weak pointers. An accept handler
  holds the server, the callbacks of a session do not: `CallbackDangles` is the read handler that
  finds the server destroyed, after which everything is undefined. `IoThreads` may be several,
  which is what the strands and mutexes are written for; `TCP_server/main.cpp` runs one, and then
  `HandleMessage` is never reached, because every session dies with its accept handler.
  A HELLO of an id that is not in the list throws, and nothing else fills it, so that the `OK`
  branch, and the sessions `StopServer` stops, are modelled but met by no run.

## 3. Runs

| run | instance | shows |
|---|---|---|
| `OrderBook` | 2 writers, one of which also reads, 2 ids, 3 prices, negative quantities, word 4, 2 orders at a time | `VolumeIsSum`, `WriteExclusion`, that the book implements `AtomicOrderBook`, and `UpdateExact`: an undisturbed MD update describes the book |
| `OrderBook_torn` | 1 writer beside 1 reader | **violated** `BestLevelNotEmpty` |
| `Broadcaster` | 1 producer, 2 clients, both command types, 3 snapshots that are told apart, 4 pushes, fairness | `SnapshotNotLost`, `NeverBackwards`, `Answered`, `StopReturnsIfFed` |
| `Broadcaster_stop` | 1 producer, 1 client, fairness | **violated** `StopReturns` |
| `ClientSessions` | 2 threads, 2 clients, 2 sessions and null | `ReverseSound`, `SessionFindable`, `BroadcastSafe`, and `AtomicSpec`: the list implements `AtomicClientList`, but for two calls |
| `ClientOrders` | 4 ids, 5 nodes | `IteratorsValid`, `GetFindsAll`, `ArrivalSpec`: the ids never added twice implement `ArrivalOrder`, and a removal without an id takes the last of them |
| `Session` | 4 messages, 3 tasks, fairness | `WireInOrder`, `OneWriteAtATime`, `NotifiedOnce`, `EndNoticed`, `Written` |
| `DOMManager` | 2 clients, 2 snapshots told apart, 2 io handlers, 2 posted, fairness | `ChainAlive`, `SnapshotNotLost`, `NeverBackwards`, `SnapshotsKeepComing` |
| `TcpClient` | 3 connections, 2 tickers, fairness | `ConnectedIsWatched`, `StateHonest`, `TickersTold`, `EndReported`, `DisconnectReturns`, `LossNoticed` |
| `TCPServer` | 2 io threads, 3 connections, 6 snapshots of 2 levels, 5 canned ones, ids modulo 10, fairness | `AcceptArmed`, `ErrExactly`, `BookShaped`, `ServerReleased` |
| `TCPServer_hello` | 2 io threads | **violated** `HelloAccepted` |
| `TcpClient_lost` | 1 connection | **violated** `LossIsSurvived` |

`OrderBook` and `DOMManager` also check `TypeOK`, which says more there than what the
types are: totals stay in a word, at most one wait is outstanding. The types of the other modules
are invariants of the proofs. Each property of a passing run has a mutant of the code in the module it
is about (the definitions marked *Mutant*) that breaks it.

**Bounds.** Two writers are enough for every conflict on one mutex, two ids for a side to hold an
order beside the one in work, and the word size 4 makes sums wrap after two orders. Two constraints
keep that run small: the sides hold two orders together (`FewOrders`; two on one side is all a sum
or a best price needs), and a read that a write has disturbed is not followed to its end
(`ReadsCalm`; it is promised nothing, and no read has an effect on the book). Two clients make a command to one and a command to everyone differ; three pushes let a command wait behind a
posted one and be absorbed, and four let that happen again after a stop; three snapshots that are
told apart make one that waits differ from the one before and the one after (later ones count as the
last of them). Two sessions, two ids and two threads allow re-binding in both directions and a removal
between check and use. Five nodes with four ids allow an id to be linked twice while others are
live. Four messages with three tasks let messages be accepted while one is being written, after a
failed read, and behind a stop. Two io handlers beside a tick let a stop and a start overtake it.
Two tickers let one be written and the other not. Two io threads are what lets a session outlive
its accept handler, three connections let one be accepted while another is read from; six
snapshots are one more than there are canned ones, so that the index wraps; id words of 10 let a
line of two digits overflow to 0. The lines are all sequences of up to three of blank, HELLO and
digit, HELLO with the neighbours of the digits and of the blanks around it, and longer ones with
something before and behind. The counters `pushes`, `taken`, `sends`, `connects`, `made`,
`current` and the lengths of `io`, `posted` and `strand` are capped in guards, only ever in the
environment's or the producer's favour: the guards that cap them are named by their constants.

**Deadlock** is not checked where the system may really stop: a broadcaster that nobody feeds
or whose `stop()` hangs, a session that was released, a client that was destroyed, a process that
has ended in an exception or by a null pointer.

**Fairness.** `Broadcaster`: the broadcaster thread, the io thread and the return of `join()` are
weakly fair; producing, starting and stopping are not. `DOMManager`: the timer expires and the io
and broadcaster threads run. `Session`: the io thread runs ready handlers, writes complete, and a
read of a broken connection fails; nothing says that a peer ever sends. `TcpClient`: both threads
run; calls, frames and losses just may happen. `TCPServer`: the io threads go on with a handler
they have begun, and an accept on a closed acceptor is completed with an error; nobody has to
connect, send or stop. Each is what an operating system scheduler, a running `io_context` and TCP
give.

## 4. Proofs

- `OrderBookProofs`. `WritesExclude` and `ImplementsAtomic`, from an inductive invariant with four
  parts: the types of the book (`BookTypeOK`), of the calls (`CallTypeOK`), `WriteExclusion`, and
  `ReplacementValid`: between the check of a Replace and its last step the replacement is an order
  the atomic book accepts. `WriteExclusion` alone is not inductive: it needs the types of the
  calls. The refinement maps the abstract step to the step in which container *and* total have
  changed, and needs exclusion to know that nobody changed the side meanwhile.
  `TotalsNeverDrift` (`VolumeIsSum`) rests on the refinement: a step of the atomic book adds or
  removes one order, or one of each, and no other step changes orders or volume, so that it is
  enough that the sum of a finite set follows such a change (`SumWithout`, `QuantitiesFollow`).
  `UpdatesExact` (`UpdateExact`) needs to know what a reader has read so far, for each of its six
  reads: `Describes` says it of a thread that no writer has disturbed, and that no writer is inside
  now. The last read makes it a description of the whole book, where the totals are the sums by
  `VolumeIsSum`. `TypeCorrect` (`TypeOK`) adds the types of the updates. The only assumption is
  `OrderBookAssumption`.
- `BroadcasterProofs`. `TypeCorrect` holds for any producers.
  `NothingLost` and `InOrder` assume `SoleProducer`: commands are enqueued from one thread, as
  `DOMManager` does from the io thread. `NothingLost` is about runs in which no MD update has cleared
  a snapshot from the queue: after that the snapshot is gone. The program pushes no MD update today.
  Their invariant `DInv` says that posted handlers, the hand of the thread and the queue are sorted
  by number (`Sorted`), that everything on its way lies between what was sent and what the producer
  holds (`Between`), and `SnapshotNotLost`.
  With two producers `InOrder` is false: each takes its snapshot before it pushes.
- `ClientSessionsProofs`. `ReverseMapSound` and `BoundSessionFindable`,
  from the types of the maps, `BoundIsNamed` (a session is only bound to ids it has named) and the
  two properties together: neither is inductive alone, as erasing an entry could hit another client's.
  `NoNullSent` adds that a null session in the maps or in the hands of a broadcast is one that
  somebody added (`NullIsKnown`, `SendsKnown`). `ImplementsAtomic`: the abstract call takes effect
  when the second half does, or, if the client was gone by then, when it throws; `get_session` that
  throws and `unsubscribe` of a subscribed client are the two steps of `Departure`.
- `ClientOrdersProofs`. `IteratorsStayValid` and `GetFinds` from one invariant: the two together with
  `Typed` (types, and that a node is linked once) and `OnceListed` (an id that was never added twice is in the list once). Both
  removals take one position of the list and one entry of the map away, and the lemmas say what
  that leaves; without `OnceListed`, removing a node could leave the id's other node unfound.
  `ImplementsArrival` maps the list to the set of the live ids and the relation *arrived before*
  (`Live`, `Before`): an insertion puts an id behind all others, and taking a node out of the list
  keeps the pairs of those that stay (`SamePairs`). `LastIsRemoved`, the other half
  of `ArrivalSpec`, needs `OnceListed` again: nothing that is live stands behind the last node.
- `SessionProofs`. `EndToldOnce` from `OnceInv` (`disconnected_` is exactly the record of the one
  notification or stop); `OneWrite` from `WriteInv`, which ties `write_in_progress_`, the
  outstanding write and the queue together while the session is connected; `WireOrdered` from
  `WireInv`: what is accepted is the wire followed by what rests in the queue, and once the
  session has ended, what is still being written is the next message accepted, if any.
- `DOMManagerProofs`. `TypeCorrect` (`TypeOK`), and `ChainNeverLost` from `ChainInv`; it needs that
  cancelling only posts aborted handlers behind what is queued and that only the io thread takes
  from the front.
  `NothingLost` and `InOrder` carry the invariant of `BroadcasterProofs` over by INSTANCE
  (`PipeInv`): here the snapshot is built and pushed in one handler, so that no `SoleProducer` has
  to be assumed, and no MD update is pushed, so that `absorbed` is constantly false. The delivery lemmas of `BroadcasterProofs` are stated about one push and one step
  of the thread for this reason.
- `TcpClientProofs`. `Watching` from `Watched`, which says for every place of the application and
  of the reading thread what the flag, the socket and the thread are. `LibraryUsesClient`: a step
  of the library is one of the client or leaves it alone, which carries `Watched` over to
  `StateIsHonest` and `TickersAreTold`.
- `TCPServerProofs`. `OneAcceptWaits` from `Chain`: none yet, one that waits, one in the hands of a
  thread, or, of a closed acceptor, none any more. `HandedOutBookShaped` assumes `PricesFit`,
  5 * Count + TopN <= 105, beyond which a bid wraps; the program has 5 snapshots of 20 levels.
  `ReadBack`: what `serialize` writes, its type byte included, `deserialize` reads back; the client
  hands it something else (`client.cpp:153`, below).
  `ErrIsExact` (`ErrExactly`) is a lemma about `ParseClientId` (`ParseIsExact`) and an invariant that
  carries it from the step that handles a line to the answer (`HeardInv`). The lemma has two halves:
  trimming and the tests of `ParseClientId` accept exactly the lines of the reference definition, and
  find the same digits (`HelloIsParsed`, `ParsedIsHello`); and reading digits with wrap-around gives
  the wrapped value (`DigitByDigit`): what has been read, shifted by the positions to come, is what the
  positions read so far are worth, up to a multiple of `IdWord`. It assumes `TCPServerAssumption`, that
  lines are sequences of codes.

Sums and folds are recursive functions of the community modules, and the induction theorems of the
proof library cannot be applied to them. `OrderBookProofs` and `TCPServerProofs` prove what they need
of them anew: that such a function exists and is unique on the subsets of a finite set, and its
equations, each time by choosing a least subset, or a least number, without the property
(`LeastSet`, `SumsExist`, `SumsAgree`; `FoldsExist`, `FoldsAgree`, `UpTo`).

Every invariant and every safety property of an action that a passing run checks is a theorem. Only
model-checked is liveness, as fairness and ENABLED are beyond the prover: `Answered` and
`StopReturnsIfFed` of `Broadcaster`, `SnapshotsKeepComing` of `DOMManager`, `EndNoticed` and `Written`
of `Session`, `EndReported`, `DisconnectReturns` and `LossNoticed` of `TcpClient`, `ServerReleased` of
`TCPServer`.

## 5. Where code and documentation disagree

With a run of their own (`findings` in `PROJECT.json` quotes both sides):

- an MD update can be torn between its locks (`bid_ask_book.cpp:210`; `OrderBook_torn`);
- `stop()` does not return when the queue is empty (`broadcaster.h:48`; `Broadcaster_stop`);
- `get_session` throws for an unknown client, where `client_list.h:44` promises `nullptr`
  (`client_list.cpp:102`), and the server asks it before the first `add_session`, so that a first HELLO
  throws out of the io thread (`tcpserver.cpp:83`; `TCPServer_hello`);
- after a loss the client's thread is never joined, and the next `Connect` or the destructor calls
  `std::terminate` (`client.cpp:80`; `TcpClient_lost`).

Met while modelling, without a run of their own. Where a checked property would say otherwise, it
names the exception:

- MD updates absorb, although `command_queue.h:111` and `broadcaster_design.md:41` say they take no
  part, and a snapshot that waits is lost (`command_queue.h:119`; `absorbed`, which `SnapshotNotLost`
  and `Answered` except); and a snapshot for everyone absorbs MD updates. Nothing in the program pushes
  one today;
- `unsubscribe` clears the flag of a copy, and the client stays subscribed, where
  `client_list.h:129` says that it unsubscribes (`client_list.cpp:218`; `UnsubscribeIsLost`);
- an order is moved away before its id is read, in C++17 and later, and no order can be added to a
  client, where `client_list.h:69` says that it is (`client_list.cpp:45`; `AddOrderMoved`); nothing in
  the program adds one today;
- `GetTopSnapshot` hands out canned snapshots whatever the orders of the book are
  (`bid_ask_book.cpp:174`), where `bid_ask_book/tests.cpp:17` expects them: what `DOMManager` sends in
  order and without loss are these;
- the best bid of the first of them has the id 0 (`snapshot_source.cpp:64`), where
  `bid_ask_interface.h:28` says that an id is always greater than 1, and prints as no order at all;
- the client strips the type byte before a `deserialize` that expects it (`client.cpp:153`,
  `bid_ask_interface.h:134`), so that the first frame ends the connection and no snapshot is ever
  shown, where `client.hpp:31` speaks of a call for each;
- `OnConnected` that throws leaves a client that is connected and that nobody reads for, so that
  a loss is never reported (`client.cpp:50`; `threw`, which `ConnectedIsWatched` and `LossNoticed`
  except), where `client.hpp:29` says that `OnDisconnected` is called on a loss;
- `State()` is not told of a loss (`order_book_client.cpp:117`; `StateHonest` says how far it can be
  off), where line 113 calls it the current state;
- the snapshot is formed when its command is made (`dom_manager.cpp:84`), not when it is
  processed (`broadcaster.h:17`);
- an MD update is requested from its command as another type (`broadcaster.h:71`);
- the accepted session is dropped by the handler that made it (`tcpserver.cpp:45`), and with one io
  thread every connection ends there, where `tcpserver.cpp:9` speaks of a server that accepts
  clients; its callbacks hold a plain `this` (`tcpserver.cpp:60`);
- the interval of the broadcast is 0 (`tcpserver.cpp:26`), not the documented 200 ms;
- `has_client` and the `at()` after it are two critical sections (`client_list.cpp:102-105`);
- an id that is added twice and removed once stays in the list, and `get_bids` throws
  (`client_list.cpp:43-45`, `180`);
- a frame that was read before `Stop` is handed to the server after it (`session.cpp:72`);
- a tick that was queued before a stop and a start sends at once (`dom_manager.cpp:54`);
- `OnDisconnected` is called twice by a Disconnect (`client.cpp:65`, `107`), or once after a
  Disconnect that met a loss has returned (`client.cpp:80`).

## 6. Not modelled

- **Console client.** `console/snapshot_client.cpp` calls members `IOrderBookClient` does not have and
  does not compile; the rest is menus. `CallbacksAdapter` of the client library does not implement
  `OnMDUpdate`. The library is modelled as its `.cpp` says, whichever callbacks it is given.
- **Older line protocol** (`src/protocol.cpp`): nothing calls it.
- **Database connector**: an interface without an implementation, and schema documents.
- **Graphical client**: widgets and generated code.
- **Snapshot sources** that nothing constructs: the random snapshots, `OrderBookSnapshotSource`,
  `get_prices`; the text of an `MDUpdate`.
- **Logger and demo programs**: output, and mains that construct the parts.
- **Losses nobody is told of**: a connection that dies without a close or a reset is no state of
  `TcpClient`; the reading thread waits, as long as TCP lets it. `to_string` of a snapshot.
- Callbacks that call back into the object that calls them; allocation failures; exceptions of
  the standard library other than those named above.

## 7. Plan

Done, in this order: order book; broadcaster; client list (sessions, then orders); session; DOM
manager over the broadcaster; TCP client and the library over it; the client list against its
atomic specification; TCP server with its parser and its snapshots; proofs of every safety property of
the passing runs. To come:

1. The broadcaster's handlers over the client list: a client that left before its handler runs
   makes `get_session` throw in the io thread.
2. The DOM manager's destructor against handlers that are still queued.
3. Client and server over one stream of frames and text replies: the way of a snapshot from the
   book to the callback.
