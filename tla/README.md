# CrowdSpider in TLA+

CrowdSpider is a web crawler in C++: `dspider` starts a number of worker threads
that share a queue of URLs, fetch one page at a time, store it, and push the
links they find; a status server with an epoll loop runs beside them, and when
its loop ends the crawl ends. This directory holds TLA+ models of that program,
the TLC configurations that check them, and TLAPS proofs about them.

Check a model with `tlc -config MCCrawler.cfg MCCrawler.tla`, a proof with
`tlapm CrawlerProofs.tla`.

## 1. Inventory

| Component | State | Operations | Talks to |
|---|---|---|---|
| Frontier and workers, `libspider/Crawler.cpp` | `m_running`, `uriQue` with `uq_mutex` and `uq_cond`, three lists with a mutex, a position and a file each, `fseq`, `fetch_mutex` | `start`, `stop`, `Run`, `fetchUrl`, `checkUrl`, `getfileseq`, `saveUnreachHost`, `saveUnvisitedUrl`, `saveVisitedUrl`, `parseHyperlinks` | HTTP client (call), parser (call), files |
| HTTP client, `libspider/HttpCli.cpp` | one `Uri`, request, response and status line, `htmlContent`, the socket it derives from | `fetchHtmlPage`, `setupHttpSession`, `recvHttpResponse`, `fetchHtmlFile`, `fetchHtmlChunk` | web servers, savedir |
| Sockets, `libspider/Socket.cpp` | `m_sock`, read and write mask, select flags | `Connect`, `Recv`, `Send`, `Listen`, `Accept`, `attach`, `closeSocket` | kernel |
| Status server, `libspider/RawServer.cpp`, `Poller.cpp` | pool of socket objects, listener, poller, event array | `Init`, `Run`, `handleEvent`, `Exit`, `start`, `stop` | clients; crawler (`start`, `stop`) |
| Process, `build/dspider.cpp` | the server object, signal handlers, `crowdspider.conf` | `main`, `shutdownCrowd`, `TCrawler::start` | everything, by `exit`; the next process, through the files |
| Work crew, `build/workcrew.cpp` | two queues with mutex, condition and active flag; `numthreads` | `threadfunc`, `create_threads`, `join_threads`, `control_activate`, `control_deactivate`, `queue_put`, `queue_get` | its own threads |
| URL hash table, `libspider/HashTable.cpp` | bit table, the files `hashtable.bak` and `.old` | constructor, `test`, `set`, `testSet`, `saveToFile` | files; commented out in `checkUrl` |
| Slab allocator, `libspider/Slab.cpp`, `List.cpp` | circular list of slabs, `firstNotFull`, `numFreeSlabs` | `allocObj`, `freeObj`, `newSlab`, `reclaim`, `reclaimAll` | callers of the library |
| Sessions and proxies, `HttpCli.cpp`, `HttpMsg.cpp`, `SockProxy.cpp` | `m_proxy`, the `Uri`, request headers, SOCKS packets | `setupHttpSession`, `connectRemoteHost`, `connectProxyHost`, `sendHttpRequest`, `PackGet`, `SendPacket`, `RecvPacket` | sockets, resolver, proxies |
| Database, `build/MySQLDB.cpp` | connection, `m_connected` | `connectMySQL`, `execQuery` with retries, `closeMySQL` | MySQL |
| User rank, `build/UserRank.cpp` | link matrix, ranks | `buildMatrix`, `checkMatrixSelfLoop`, `computeUserRank` | a file of links |
| HTML parser, `libhtmlparser/ParserSax.tcc`, `ParserDom.cc`, `tree.h` | position, open literal element, linked tree, current element | `parse` and its callbacks; the walk of `parseHyperlinks` | workers |
| URIs, `libhtmlparser/Uri.cc`, `utils.cc` | parts of one URL | `init`, `absolute`, `unparse`, `normalize_slashs`, `convert_link` | workers, HTTP client |
| Configuration file, `libspider/IniFile.cpp` | a map of values, the file | constructor, `read`, `write`, `erase`, `reload`, `flush`, destructor | crawler and every HTTP client, through the file |
| Logging, digests, buffers | text | read, write | all |

What is hard here: the workers interleave at every mutex, one of which
(`uq_mutex`) is held while others are taken; `parseHyperlinks` unlocks before it
broadcasts; `m_running` is read without a lock; one HTTP client object serves
one fetch after another and keeps what the last one left; the server reuses
socket objects while later events of the same batch may still point at them; and
the process may end between any two steps and be started again over its files.
Below them are components one thread
uses at a time whose difficulty is in long sequences of calls and in failures half
way: a tree of five links per node built from documents no test has, lists with an
order each call relies on, files that are replaced step by step, reads and writes in
parts, retries on new connections, headers and credentials kept from the session
before. The hazards, each with its line and the properties that cover it, are listed in
`PROJECT.json`.

What makes each component correct: the frontier hands each entry to one worker,
in order, loses no wake-up, deadlocks nowhere, overwrites no page and stops;
the client reports what it stored, closes its socket and returns; the server
keeps each object with one owner, handles no event for another's object, hears
a client before it hangs up and serves it; the process stops with its server and
starts again over old files without harm, but from a configuration that was cut off; the crew does each job once and ends;
the parser's tree is the document's, the allocator hands out what is free, a crash leaves
a whole table and no half value in the configuration, a socket gives the peer's bytes in order and
leaks no descriptor, a session's request and handshake say what was meant.

## 2. Modules

| Module | Models | Notes |
|---|---|---|
| `CrawlEntry` | `uri_t` and the start entry | constants shared by the next two |
| `Frontier` | the abstract queue: `Take`, `Extend`, `Finish` | no locks; what the crawler promises |
| `FetchOutcome` | what a fetch may leave its caller | the interface between `Crawler` and `HttpFetch` |
| `Crawler` | `TCrawler`, `TSpiderWorker` | one action for each stretch between two points another thread can see |
| `HttpFetch` | `THttpCli::fetchHtmlPage` and what it calls | servers are external: any answer, cut off anywhere |
| `RawServer` | `TRawServer`, `TPoller`, the pool | clients and epoll are external |
| `Spider` | the process | extends `Crawler`, instantiates `RawServer`, shares `m_running` |
| `WorkCrew` | `workcrew.cpp` | both queues, all threads, `main` |
| `HtmlDom` | `ParserSax`, `ParserDom`, the part of `tree.h` they use | scanner, callbacks, links, walk |
| `Slab` | `Cache` over `ListHead` | |
| `UrlTable` | `HashTable` and its files | crashes between any two system calls |
| `MySQLDB` | `MySQLDB` | the server is external |
| `UserRank` | `UserRank` | ranks are exact fractions |
| `IniFile` | `IniFile`, the two objects over one file | crashes, a full disk, edits |
| `Sockets` | `TSocket`, `TcpSocket` | the peer is external |
| `SockProxy` | the packets of `TSockProxy` | operators; what a proxy reads from them is external |
| `HttpSession` | `setupHttpSession` and what it calls | extends `SockProxy`; resolver, proxies and servers are external |
| `Uri` | `Uri` and `convert_link` | a reader who follows links is external |
| `Library` | the ten above together | one of them per behaviour |
| `FrontierProofs`, `CrawlerProofs`, `HttpFetchProofs`, `RawServerProofs`, `SpiderProofs`, `WorkCrewProofs`, `StructureProofs`, `LibraryProofs` | theorems | section 5 |
| `MC*` | constants for TLC | |

**Crawler.** `pc[w]` says where worker `w` is in `Run`, and the action names are
those of the stretches: `EnterFetchUrl`, `WaitForEntry`, `Wake` and `TakeEntry`
are `fetchUrl`; `CheckBegin` and `CheckEnd` are one list of `checkUrl`, which
both `Run` and `parseHyperlinks` reach (the caller is recognised by who holds
`uq_mutex`); `SeqBegin` and `SeqEnd` are the load and the store of `fseq++`;
`FetchBegin` and `FetchEnd` enclose the fetch; `SaveBegin` and `SaveEnd` are the
three save functions; `ParseBegin`, `ParseLink`, `ParseEnd` and `Broadcast` are
`parseHyperlinks`. `known` is what the vectors hold in memory and `log` what is
in their files; the code never writes to the vectors, so the branch that finds a
URL in one is modelled (`CheckFound`) and never taken. `cur`, `pushed` and the
identity of entries and `late` are history: they let properties speak of which
entry a worker has and of what it took after `stop()`. A web page is its
sequence of links; that a page can be received in part, or be another one after
a redirection, is in `StoreBody`.

**HttpFetch.** The result of the first session is `status`, of the latest
session `last`: the code has two variables of that name. A body is a sequence of
tokens, a byte of the page or a line that begins with a number, so that the
model sees the chunked coding go wrong as the code does: a size read from the
middle of a page may be any number. Reads return any number of bytes up to
`BufSize`, nothing, or an error. A `Content-Length` may be larger or smaller
than what follows. `getLocation` and `getTransferEncoding` return pointers to
freed strings: the Location read may be any URL, and `chunked` may not be
recognised. A redirection is two steps, `Follow`, which reads the Location and closes the
connection, and `Retry`, which opens the next session: between them (`pc = "retry"`) the socket
is closed, which `SocketClosed` says.

**RawServer.** An event carries the object's address, as `data.ptr` does; the
connection it was for is recorded beside it so that `BatchFresh` can compare.
`thread_start` calls `Init` and `Run` calls it again; the model has both calls,
and the connections to the first port (`orphans`). `pollable` says whether
`m_nevents`, which is never set, happens to hold a value `epoll_wait` accepts.

**Spider.** `Thread`, `Server` and `Client` are the steps of the parts, `StartUp` those of
`TCrawler::start` in the main thread. `start` reads `start_url` and `spider_worker_num` from
`crowdspider.conf`, then makes a worker at a time (`CreateNext`); the `THttpCli` each worker
has makes an `IniFile` of that file, whose destructor truncates it (`MakeClient`) and writes it
again (`WriteConf`), and so does the destructor of `start`'s own (`EndLoop`, `EndStart`). `conf` is
what the file has, nothing, the number of workers or that and `start_url`, `held` what this process has read.
Workers that exist crawl meanwhile. `Server` may only start when `start` has returned, the order of
`TRawServer::start`. `ExitProcess` is `exit(0)` in the handler, at any moment, possibly in the middle
of a page or of the configuration (`torn`); `Restart` resets everything except the files, and reads the
configuration: without a `start_url` the queue begins with `""` (`NoUrl`), without a number
there is no worker. That an administrator mends the file, and a disk that is full while it is written, are
`IniFile`'s, where every line of the file counts.

**WorkCrew.** What is done under one mutex is one step. Freed cleanup nodes and
writes to them are recorded.

**Library.** These components have no state in common: `part` names the one whose
caller is active, and its `Next` may make any call at any time. Their variables
have the component's prefix, since one module extends them all.

**HtmlDom.** A document is a sequence of the characters the scanner tells apart;
one pass of the outer loop of `parse` is a step (`HtmlPass`, `HtmlPassLiteral`), with the
callbacks it makes. `domLink` has the five links of each `tree_node_`, and `DomAppend`, `DomFlatten` and
`DomNext` set and follow them as `append_child`, `flatten` and `operator++` do: the model does not assume
that they make a tree. Names are letters; attributes are skipped, as the scanner
skips them, with their quotes. `DomFlatten` has the branch for an element with a next sibling, which
the parser never reaches: an open element is always its parent's last child.

**Slab.** The list is the sequence of its slabs and a slab its count of objects
in use. `slabBroken` records what the C++ code leaves undefined: a slab used after `reclaim`
freed it, or a null slab when `malloc` fails and nothing was reclaimed.

**UrlTable.** `SaveRename`, `SaveCreate`, `SaveWrite` and `SaveUnlink` are the system calls of
`saveToFile`, each of which may fail and be the last; the table has `TableSize` parts.
`TableLoad` ends the process on a short file. `hashtable.old` is never read back.

**MySQLDB.** `DbQuery` and `DbPing` are one turn of the loop of `execQuery`; the server drops the
connection at any moment, and may have run a statement whose answer is lost.

**UserRank.** `RankNextSingle` and `RankWalk` are `checkMatrixSelfLoop`, `RankDrop` the loop that
erases what it iterates over (any of the later rows may be left, or the program end), `RankStep`
a round of `computeUserRank`.

**IniFile.** A line is a section, a pair with its blanks and comment, something else, or
one that is longer than the buffer (on which `parse_config` never ends: `"stuck"`). Saving writes line by
line; the process or the disk may end in a line.

**Sockets.** `TcpTake`, `TcpPut`, `TcpSignal`, `TcpNothing`, `TcpReadDone` and `TcpError` are one turn of the loops of `__exact_read`, `__once_read`,
`__discard_read` and `__exact_write`: any number of bytes, a signal, nothing, the end, or an error.
The peer's bytes are numbered, so that `tcpTaken`, how many were read, says which come next.

**HttpSession and SockProxy.** One `Uri` and one list of headers serve every session. Packets are
built byte by byte, with the lengths the code writes; `SockReads` reads them as the protocol
says. Base 64 is modelled in both implementations the code has, the decoder with the NULs it leaves where padding
stands (`B64ReadAs` reads up to them). `SessUriInit` keeps of the URL before what the next one
lacks: the port, the user and the password, and from one that has no `scheme://` the scheme and the host too.
`sessSeen` is history, the URLs opened so far. A session, its look-up included, is one
after another in a client, and in the crawler in the process, under `fetch_mutex`. The socket is connected to a
name (`sessConn`) that has an address (`SessAddr`); for SOCKS 5 `Connect` gets the proxy's host as it stands, which must be a numeral
(`SessDotted`).

**Uri.** Operators named for the parts of `Uri::init` and for `absolute`, `unparse` and `normalize_slashs`, on texts
of the characters the code tells apart. `LinkOpen`, `convert_link` and `LinkFollow` are a reader who
opens a page, has `convert_link` make a URL of a link of it, and opens that, unless `init` throws for its port: the page a link is resolved against is itself the
result of earlier links. The crawler calls `init` and `unparse` (`checkUrl`); only the tests of
the repository call `convert_link`.

## 3. Runs

| Run | Instance | Result |
|---|---|---|
| `crawler` | 2 workers, 2 URLs, one of which links to itself twice, entries to depth 1, one spurious wake-up; about 380,000 states | 5 invariants, refinement of `Frontier`, `SavedKept`, `CrawlDrains`, `StopQuiesces` hold |
| `crawler_twice` | 1 worker, same page | `NeverCrawledTwice` violated: the page is fetched for each link to it |
| `http_fetch` | 2 fetches, pages of 0 to 2 bytes, reads of 1 or 2; about 122,000 states | type and 4 invariants, `FetchReturns` hold |
| `http_received` | 1 fetch | `ReceivedIsReceived` violated: in the trace a `Transfer-Encoding` that is not read as `chunked` skips the body with result 0, and the page of the entry before counts as received; so does an error page after a redirection, whose status nobody looks at |
| `http_port` | 2 fetches, the first from a port of its own | `DefaultPort` violated: the port is kept |
| `raw_server` | 2 clients, a pool of at most one object; about 2,800 states | type, `OneOwner`, `BatchFresh`, `HeardFirst`, `Served` hold |
| `raw_server_ports` | 1 client, a pool that begins with two objects | `ServedOnEveryPort` violated: the first port is never polled |
| `spider` | 1 worker, 1 client, 2 processes; about 1,130,000 states | `ServerEndsCrawl`, `EveryRunDrains`, `PagesOfRunKept` hold |
| `spider_shutdown` | 1 worker, 1 process | `ShutdownWaits` violated: exit does not wait |
| `work_crew` | 3 threads, 2 jobs; about 20,000 states | type, `JobsOnce`, `NobodyLeft`, `CrewEnds` hold |
| `work_crew_removed` | 2 threads | `RemovedFirst` violated: a freed node is written to |
| `library` | see below; about 215,000 states | type and 12 invariants hold |

*Why the bounds are enough.* Two workers interleave in every pair of places; the
page that links to itself twice gives both of them entries, and an entry
deeper than `MaxDepth` shows that it is not expanded (the code's 3 is a
parameter, 0 here). One spurious wake-up (`MaxSpurious`) shows that the queue is
tested again. Two fetches (`MaxFetches`) are what it takes for one to see what the
other left; two bytes (`PageSize`) are a page in two chunks, or one cut in the
middle. Two clients with one pooled object give a batch in which one event
frees the object the next accept takes. Two processes (`MaxRuns`) are a restart, over
each state the first can leave the configuration in.
Three threads make a join with others at every place. `RawServer` bounds nothing:
clients return for ever.

`library` asks one thing of each component, whatever is called:

- `DomWalkInOrder`: the walk meets every node once, in document order, and ends.
  `DomExtentsNest`: below a closed element is what lies between its tags, below one left open nothing.
  Documents: all of two pieces out of fourteen kinds of markup, those inside a literal element and
  after a quoted attribute, and all of three opening tags and two more of any kind, which gives every
  crossing of two names at depth three.
- `SlabKept`: full slabs first, then partial, then empty ones, `firstNotFull` the first with room; and
  `numFreeSlabs` off by twice what `reclaim` freed and by nothing else. Four slabs of three objects
  (with two, `freeObj` would have no case between the first and the last object), two empty ones kept.
- `TableKept`: a save that began with a complete table leaves one, wherever it is cut off, unless it
  ran to its end without being able to write. Three parts, two codes for three keys.
- `DbKept`: one session at most, none forgotten; no statement runs more often than it is tried. The code's four retries.
- `RankKept`: exactly one link of every loop of single links is cut; ranks add up to 1. Four users, every
  choice of at most one friend, one of two pairs or a triple: two loops of two, one of four, tails, and users with two and with three
  links. A rank is passed on in sixths (`RankUnit`), which two and three divide. Two rounds.
- `IniKept`: whatever is read after a cut-off save is the saved value or nothing. Three keys, two sections, four edits.
- `SockFramed`: the proxy reads the requests that were meant. `SessHeaders`: each header once; `Host` is the host of the latest
  URL that named one and the port of the latest that named one, and a direct session goes there; the credentials are
  the latest user's and password's. That is not this URL's in the code, and the property says whose it is.
  Seven URLs (with and without scheme, port, user, password, and with a user alone) and eight proxies (every type, with and without a
  user, names and passwords of equal and of different length, a SOCKS 5 proxy by name), two sessions, so that the second sees what the first left.
- `StreamInStep`: reads give the peer's bytes in order, writes the whole buffer. `SocketKept`: no descriptor or SSL
  object without an owner. Two descriptors, three bytes, buffers of one and two.
- `LinksResolved`: the URL made of a link leads to the host and the path meant, by a definition on the names of the paths;
  its path cannot be shortened further, and its text is read back as the same URL. Three pages; links of up to three
  parts out of names, slashes, dots and delimiters, and with six kinds of host; URLs of up to eight
  characters are followed, which is long enough for two names and a `..` from the page before.

*Deadlock* is checked for `Crawler` and `HttpFetch`, whose resting states are
actions of their own (`Rest`, `Stays`): the crawler at rest has every worker returned
or asleep on an empty queue. The server, the process and the crew really stop, and a component of `library` stops
where its document is parsed, its process has ended, or its bound is reached.

## 4. Fairness

Threads that can run do run: weak fairness of each worker's own steps, of the
server thread's work, of `TCrawler::start`, of the crew's threads and `main`. Mutexes need no more,
because a worker that waits for one finds it free again and again only if its
owner runs, and the properties that depend on it (`CrawlDrains`) hold with weak
fairness alone on these instances. Signals, restarts, spurious wake-ups, `stop()`,
failed thread creation and interrupted `epoll_wait` are never forced. `HttpFetch` has weak fairness
of the client's own step: every read returns, with data or after 100 seconds;
`FetchReturns` names the one loop that does not test for the end of the
connection. In `Crawler` every fetch returns; this is that exception.
`Library` states no fairness and no liveness: its components act when they are called.
`RawServer` assumes of epoll that a descriptor that stays ready is reported again and again,
and of `accept` that it does not fail for ever (strong fairness of both).

## 5. Proofs

All proofs are for any set of workers and URLs, any web and any depth, any page
and buffer size, any finite sets of clients and socket objects, any finite crew and jobs,
from the named assumptions on constants in `CrawlEntry`, `Crawler`, `HttpFetch`,
`RawServer`, `Spider` and `WorkCrew` alone; for the URL table, the database object, the sockets and the object cache, for any
table, keys, number of retries, descriptors, bytes, buffer sizes, slabs and objects in one, from those in `UrlTable`, `MySQLDB`, `Sockets` and `Slab`;
for the sessions, for any URLs, proxies and logins that are ASCII without a NUL (`SessAssumption`: a char above 127 is negative to the
coders, which index a table with it) and resolved addresses of four bytes; for the configuration file, for any names, values and
edits, where a section has a name and the map keeps the keys of a section together (`IniAssumption`, the order of `std::map`),
and no edit has a key that is none of these names (`IniEditAssumption`); for URLs, for any pages and links over the characters the code tells apart
and any number of links followed;
for user rank, for any finite set of users, whatever links the file gives, any number of friends of one user and any number of rounds;
ranks are whole multiples of a fraction, and `RankUnit`, by which a round refines it, is some number that
each number of friends in the file divides (there is one for every file).

- `FrontierProofs`: `FrontierHandedOnce`, from the inductive invariant
  `TypeInv /\ HandedOnce`.
- `CrawlerProofs`: `TypeCorrect`. The type invariant alone is not inductive:
  `CheckEnd` takes the head of `todo[w]` when `w` holds `uq_mutex`, and
  pushing is one level deeper than an entry that must exist. `CrawlerProofs`
  therefore strengthens it with which worker holds which mutex at which `pc`, and
  who has an entry of which depth.
  On top of that invariant `LockOrderHolds`, `NoLostWakeupHolds`,
  `StopIsPromptHolds` and `SavedKeptHolds`. The last
  needs that the numbers of files and the numbers workers have are below `fseq`,
  except between the load and the store under `seq_mutex`, and are all different
  (`NumInv`, of the pages saved since the process began).
  The same module holds `Refinement`: each step of the crawler is `Take`, `Extend`,
  `Finish` or a stutter of `Frontier` under `queue <- uriQue, hand <- cur`; with
  `FrontierHandedOnce` this gives `HandedOnceHolds`.
- `HttpFetchProofs`: `TypeCorrect`, `SocketClosedHolds`, `RedirectsEndHolds`,
  `LengthHonouredHolds` and `OutcomeExpectedHolds`, all from one inductive
  invariant. `SessionInv` relates `sessions` to `cnt` at each `pc`, which bounds
  the sessions. `LengthHonoured` needs `FileInv`, that the bytes stored and those
  still expected add up to the `Content-Length`; that in turn needs `WireInv`,
  that a body which is not chunked has only bytes, since `Store` counts bytes
  and `left` counts what was read. `ReturnInv` keeps both until the next call, and
  says that -4 is returned before a file is opened, which `FetchOutcome` relies
  on. `OutcomeExpectedHolds` is what lets `Crawler` abstract the client.
- `RawServerProofs`: `TypeCorrect`, `OneOwnerHolds`, `BatchFreshHolds` and
  `HeardFirstHolds`. `PoolInv` says that the pool has each of its objects once and
  closed, without interest in writing, and so do the objects not made yet: this is
  what an accepted connection inherits. `OwnerInv` is `OneOwner` by connection.
  `BatchInv` makes the events of a batch be of different objects, so that the
  object one event deletes is not that of a later event, and of clients that were
  heard. `ConnInv` is why: a connection has interest in writing only after
  `handleRead`. The recycling of objects within a batch is safe because an accepted
  connection takes a new object or one of the pool, where no object is that an event still
  to be handled is for.
- `SpiderProofs`: the two proofs above put together. `SpiderInv` is the crawler's
  invariant, the server's, and three parts about what lies between them: `LinkInv`, the
  server's thread is created after the workers and `m_running` is false when it has ended;
  `ProcessInv`, in a process that is up the file numbers are those of the pages saved since it
  began; and `ConfInv`, the configuration file and what was read in it are whole unless it is being written or `torn`.
  `StepSpiderInv` takes the server's steps from `RawServerProofs`, instantiated on the
  process's variables, and the crawler's from `CrawlerProofs`. `CrawlerInProcess` and `ServerInProcess` are
  the theorems of the parts, now under signals and restarts; `ProcessIsBoth` says
  that between its start and its end a process takes steps of both modules.
  `ServerEndsCrawlHolds` needs that `m_running` is false once the server has ended, so that `StopIsPrompt`'s
  count applies: a worker at the top of its loop then takes no entry, one that had passed the test of `m_running`, waiting for the
  mutex or asleep, takes one, and none takes two. `PagesOfRunKeptHolds` needs that the numbers of one process do not
  meet, although those of two processes do. `ConfigurationKept` is what makes the exception of `EveryRunDrains` the only one:
  a process reads less than the whole configuration only after one was cut off in `start`.
- `WorkCrewProofs`: `TypeCorrect`, `JobsOnceHolds` and `NobodyLeftHolds`. `NodeInv`
  follows a cleanup node from `cq` through `curnode` to the free; its thread is
  past its put on the way and has ended before the free. `CountInv` makes
  `numthreads` the number of threads created and not freed, so that `main` leaves
  its loop when all nodes are freed. `WorkInv` ties a thread's job to its `pc`.
- `StructureProofs`: `SlabIsKept`. `SlabTypeOK /\ SlabKept` is inductive as it stands, but not by steps that
  look at one slab: each action moves a slab from one place of the list to another, and has lemmas for the
  sequence it leaves. `SlabReclaimIs` says of `reclaim` that it frees a tail of empty slabs and moves `firstNotFull`
  only off a slab it frees; `SlabCut` that the count of empty slabs falls by the length of that tail.
  `firstNotFull` is given by the least place with room, and `reclaim`'s count by the greatest one it may reach: both exist
  because numbers up to a bound are well-founded, which stands in for an induction over the list.
  `freeObj` loses the slab in hand (`slabBroken = "freed"`) only when all the empty slabs there are do not satisfy
  what it asks `reclaim` for, which needs `2 * slabLost >= MAX_FREE_SLABS`. Caches of one object
  are excluded by `SlabAssumption`, as in the model.
  `WalkIsInOrder`, `ExtentsNestAlways` and `HtmlTypeCorrect` come from `HtmlInv`, whose parts are:
  `DomTree`, that the nodes are numbered as they are met, each after its parent with what lies between the two below that parent
  (`DomNested`), and that first, last and next are the ones the parents give; `DomIsOpen`, that all after the current node is
  below it; `HtmlPlaced`, that what is read ends before the position; and `HtmlExtent`. The invariant is stated with parents, not
  with the walk: `DomNextIs` then says that the iterator's next node of `x` is `x + 1`, and `DomWalkIs` that the walk is at `k`
  after `k` nodes.
  `HtmlExtent` says what the parser has still to do: a closed element holds exactly what begins in its extent, one that is not closed
  holds nothing unless it is open still. What makes it inductive is the climb of `foundClosingTag` past elements without end tags:
  each one gives its children to its parent (`DomFlattenIs`, which follows the loop of `flatten` over the children it
  moves), `DomFlattenTree` says that the order stays a preorder, and `DomUnderGone` what is below a node when the parents
  between it and the found element lie empty on the way.
  The scanner and the climb are recursive functions. That one exists, without which nothing follows from its
  definition, is `RecExists`: what the values of lower rank give, by induction on the rank. `ScanExists`, `HtmlClimbIs`,
  `DomAboveExists` and `DomUpExists` use it for theirs. `ScanRuns` says that a scan ends within the
  document, on each kind of piece.
  `RankTypeCorrect` and `RankIsKept` have two sides. The sums: `SumTakes` says that a sum over a finite set is the same whichever
  element is taken first, which its definition, a fold that chooses, does not show; `SumLinear` and `RankAllGot` follow by
  `SetUpTo`, induction on the size of a set, the second by counting every link once from its user and once from its friend. With
  them `RankRoundKeeps` says that a round gives all users together what they had, less what a row that is empty and not erased
  keeps. The loops: `RankFollowed` is the least set closed under single links, so that `RankLoopBack`, that from every user
  of a loop the way leads back to all of it, needs no induction along the way. `RankLoopInv` says of every loop that at most one link
  of it is cut, nobody else's is, and a user of a loop none of whose links is cut is one no walk has begun at yet, or the one where this walk
  began; and that the users on the stack are on the way from that one. `RankLoopFound` is the step that cuts: a walk that meets its own way
  has gone round a loop none of whose links is cut before.
- `LibraryProofs`: `TableTypeCorrect` and `TableIsKept`, from the type and `TableAside`: between the rename and the
  unlink, `hashtable.old` is what `hashtable.bak` was when the save began, if that was complete. `DbTypeCorrect` and `DbIsKept` from `DbInv`, `DbKept` with the counters' ranges
  and the fact that a retry is left before each ping. `SocketIsKept` from `TcpDescriptors`. `StreamIsInStep` from
  `TcpStreamInv`, which says at each `tcpPc` that the position and the bytes left add up to the
  length, and that the buffer is filled up to the position with the bytes taken since the call began.
  `SessHeadersHold` from `SessInv` and two facts about operators. `SetHdrIs`: on a list without duplicates `SetHdr`,
  which replaces the first header with a key, leaves one with it and the others as they were. `B64ReadBack`: what has at
  each place six bits of a string, whatever stands for the padding, is decoded to that string, of any length;
  `ProxyLoginReadBack` and `UrlLoginReadBack` say it of the two coders. `SessInv` says of each part of the `Uri` that it is the latest
  URL's that had one (`SessLatestIs` for what opening one URL more does to "the latest"), and of the headers that an `Authorization`
  is there only if some URL had a password: an older one stays in the list while the user or the password is empty,
  and is replaced as soon as neither is.
  `SockIsFramed` from `SockInv`: what is sent and not yet cut short is the concatenation of the packets of the requests that were
  meant (`SockStream`), and each of the packet builders is carried: the proxy that reads the packet at the place where it
  begins finds the request and the place where the packet ends. `SockReaderAt` and `SockOneMore` put packets one after the other.
  The lengths are `% 2^8` and the ports `% 2^16` as in the code; the premise of `SockFramed` is what makes them do no harm.
  `IniIsKept` from `IniInv`: the file is as it was edited, or its lines and those still to write are the lines of the map that is
  saved (`IniUnderway`). `IniFormatSound` says what that needs: at every place of those lines, also one in the middle of a line,
  what was read before it is a part of the map and the parser is in the section of the next key. It goes by induction on the
  names in the order of the map (`IniSound`), since a heading is written only before the first key of a section.
  `UpTo` of `StructureProofs` is that induction, from the least number that fails, for a set of numbers: no operator is a parameter.
  The types hold the ranges a reader of this code would doubt. `TcpTypeCorrect`, from `TcpStreamInv`: positions, counts and results stay
  inside the buffer and the stream (`TcpCallOK`). `SessTypeCorrect`, from `SessInv` and `SockInv`: what was meant, sent and read are octets,
  although lengths and ports are cut to a byte or two. `IniTypeCorrect`, from `IniInv`: the objects and the file have no names but those
  of the map, which for the file needs `IniUnderwayRead`, that what is read of a save cut off is part of what was saved. `LinkTypeCorrect`: the `Uri`s
  have texts and a number as port after every `init`, `absolute` and `normalize_slashs`; every search gives a place inside the text or one behind it
  (`UriFindIn`, `UriHostInfoIn`), and the two loops over a text are followed by `RepeatsAll`: that what repeats a step exists and keeps the set the step keeps.
  `LibraryParts` says that `Library` implements the specification of each of its parts, hence `LibraryTypeCorrect`, all of the types together, and
  `LibraryKeeps`, all of the above, for the specification that TLC explores.

Only model-checked: `LinksResolved`, which compares passes over a text with a definition on its names and reads back
what another pass wrote, each by an induction of its own (and which holds of the pages the run has, not of any text: a page without a scheme or
one that ends with `..` is resolved otherwise); liveness (`CrawlDrains`, `StopQuiesces`, `FetchReturns`,
`Served`, `EveryRunDrains`, `CrewEnds`), which is beyond the prover.

## 6. Disagreements between code and text

The violation runs of section 3, each with the line it contradicts, are listed
under `findings` in `PROJECT.json`. The modules of `Library` model the following as the code has it;
no text of the repository says otherwise, and the properties leave out these cases by name:

- `Slab.cpp:70` adds what it should subtract. `freeObj` then asks `reclaim` for too many
  slabs and in the end for the one in its hand (`slabBroken = "freed"`).
- `UserRank.cpp:171` erases a map's element and increments its iterator. A row that is left over
  empty keeps its user from sharing its rank (`RankMass`).
- `SockProxy.cpp:165` copies the password with the user name's length (`SockFramed` is for equal lengths).
  `connectProxyHost` stores results in a `bool` and tests `ret <= 0`: a send that failed is not noticed. It
  sends the proxy's own port as the destination's, and needs the proxy's host as a numeral for SOCKS 5. A reply
  that is cut short leaves an address unset which is then freed (`"undefined"`).
- `Base64Encode` in `Utils.cpp` writes `=` wherever eight bits happen to be zero (`x@1` is an example):
  its own decoder reads that, others do not (`B64Clean`).
- `Uri` keeps what the next URL lacks: the port (the finding of `http_port`), user and password, and without a scheme the scheme and
  the host. A URL without credentials gets the `Authorization` of an earlier one, and `Host` may be an earlier
  URL's. A request line of 1024 bytes is sent without its headers.
- `IniFile`: a last line without newline is ignored; the last key that is erased is not
  saved; blanks before a value with a comment shorten it; saving truncates first.
- `HashTable::saveToFile` renames over `hashtable.old` the part that a crash left of the table before:
  the second save after a crash keeps no complete table until it ends (`TableKept` speaks of
  saves that begin with one).
- A path that ends with `..` and no slash loses the dots and no name: `normalize_slashs` acts on dots only when a slash
  follows (`LinksResolved` leaves the path of such a link open). `unparse` writes no user.
- A second `enableSSL(true)` keeps the first session's SSL object; `Send` with a time limit returns the
  count of its last send.

## 7. Not modelled

What SSL does to the bytes; failing disk writes of the client; descriptors that
`fetchHtmlChunk` does not close (running out of them shows as a failed open, which
is modelled); the end of the crawler on the exception `Uri` throws for a bad port; escapes, entities and the flags of `unparse` only tests use; the
attributes of a tag; SOCKS 4A and UDP, which nothing sends; the header accessors, string and time helpers, buffers and bit
sets nothing calls; digests, `getopt` and the rest of `tree.h`, which are
third-party code; the layout of names, log messages and pages; `Daemonize` and other functions nobody calls. The DNS cache
and the hash table of `TCrawler` are declared and not used, which is why `Library` is not composed with `Crawler`: of its components
the crawler calls the parser, whose result it takes as the sequence of a page's links, and the client, whose sessions
`HttpFetch` takes as a status or a failure.

## 8. Plan

Done: the frontier, the client, the server and the crew with their proofs, the
process with its runs; the components of `Library` with one run, and proofs for all nine of them. Next, in this order:

1. Proofs: `LinksResolved`, for pages with a scheme, first that `normalize_slashs` leaves what it returns as it is.
2. `Node::parseAttributes` as an operator of `HtmlDom`, so that `links` of a page in `Crawler` can be those of a parsed document.
