# gameserver-rs in TLA+

gameserver-rs is a panel for game servers. The *panel* (`src/src/main.rs`, an
axum web server) keeps users, nodes, servers and settings in a database and
holds one TCP link to a *node daemon* (`src/gameserver/src/main.rs`), which
spawns the game server, feeds its console and keeps its files. Browsers talk to
the panel over HTTP and one WebSocket. Everything runs on tokio: a handler, a
link, a connection and its writer are tasks, and they share state through an
`RwLock`, mutexes and broadcast channels.

This directory models the parts where tasks meet, checks them with TLC, and
proves the main invariants with TLAPS for every value of the constants.

## Inventory

| component | state | operations | what makes it correct |
|---|---|---|---|
| node link (`main.rs`) | `AppState`: `tcp_tx`, `cancel_current_conn`, `tcp_conn_status`, `current_node`; per task a stream, a receiver, a cloned token | boot probe, `change_node`, `connect_to_server`, `handle_stream`, `refresh_status` | one link, to the selected node, that hears the handlers; a replaced link ends; a switch connects |
| JSON database (`jsondatabase.rs`) | one file | create, edit, remove, read; start | an operation is atomic, survives a crash or is lost whole; names are unique |
| PostgreSQL database (`pgdatabase.rs`) | six tables | the same operations, each one or more statements | an operation on a row is atomic; the default buttons survive a reset |
| node process supervision (daemon `main.rs`) | `server_running`, `server_process`, `server_output_tx`, `shared_stdin`, `authenticated_origins`; per connection a reader, a writer, a queue | `start_server`, `stop_server`, `server_state`, health monitor | one server at a time, true reports, output that is followed |
| server registry, settings, node database | `current_server`, `servers`, settings of the panel; `db`, `current_server`, `db.json` of the daemon | `add_server`, `delete_server`, `set_server`, `set_settings` and what they send | panel and daemon agree about what exists, what is current and what is filtered; handlers never wait in a ring |
| remote filesystem (`filesystem.rs` of both) | requests in flight on the shared broadcast | list, read, write, pagination, time limits | an answer reaches the request it answers |
| file transfer | the broadcast, the connection, the daemon's `read_buf` and `ReadMode` | `upload`, `migrate`, `send_folder`, `start_file` to `clean_file` | a file's bytes end up in that file, other messages are handled, and the reader returns to them |
| handlers, `AppState` lock | fair `RwLock` | every handler | no guard waits for itself |
| console socket, status, console store | broadcast `ws_tx`, receivers, sockets, batches, the status stream | `handle_socket`, `ongoing_server_status`, `ServerConsoleState` | lines arrive in order, once, without a gap; the status shown becomes true |
| JSON assembler (`extra.rs`) | a byte buffer | `get_all_stream_data_parsed` | every object of a line, once |
| users, sessions | rows or documents, axum-login | login, permissions | - |
| Kubernetes, Docker, providers, node integrations, frontend pages, scripts | - | calls to other programs | not modelled: no state of their own |

How they interact: handlers send to the node with `tcp_tx` (a broadcast, so a
command with no link is dropped); the link's task forwards what it hears and
writes the node's lines into `AppState`, `ws_tx` and, without the lock, the
database; the daemon handles the lines of all connections one at a time, under
the guard of `authenticated_origins`, and answers through the queue of the
connection's writer, which also follows the server's output.

Hard behaviours: a switch that races a connect in progress or the boot task;
cancellation by a token that is replaced; a file rewritten with no lock; a crash
between truncating and writing; a monitor that drops its guards before it resets
the state; guards held while a bounded queue is full; a stream that changes from
lines to bytes and back at a marker; a channel that forgets; locks taken in two
orders; statements that outlive their caller; sockets that overlap.
`PROJECT.json` lists every hazard at its line.

## Plan

| order | module | composes or refines | state |
|---|---|---|---|
| 1 | `NodeLink`, `NodeLinkProofs` | - | done |
| 2 | `Elements`, `Store`, `JsonStore`, `JsonStoreProofs` | `JsonStore` implements `Store` | done |
| 3 | `NodeProcess`, `NodeProcessProofs` | - | done |
| 4 | `FileRequests`, `FileRequestsProofs`: requests on the shared broadcast and the `AppState` lock they wait beside | - | done |
| 5 | `Transfer`, `TransferProofs`: upload and migration, read modes, markers, failures half-way | composes the panel, its link and the receiving node | done |
| 6 | `ServerRegistry`, `ServerRegistryProofs`: servers, the current one and the filter, the node's locks and `db.json` | composes the panel, its links and the node's handlers | done |
| 7 | `Rows`, `Tables`, `PgStore`, `PgStoreProofs` | `PgStore` implements `Tables` | done |
| 8 | `Dashboard`, `DashboardProofs`: console sockets and the status stream, from the node to what the page shows | composes the node, the panel and the page | done |
| 9 | the console's input half and the RCON lock; `FileRequests` with a receiver that lags and answers in fragments | abstract request and answer | to do |
| 10 | the proof of `Transfer`'s `Arrives` | - | done (`FilesArrive`, with `ReadyAgain` for the reader) |

Each module has its bounds as CONSTANTS, one action per critical section or
operation and properties of its own, and uses no RECURSIVE operator, so that it
can be proved about. A run costs minutes, and so each states several properties.

## NodeLink

`connect_to_server` and `handle_stream` as a task in stages; slot `Initial` is
the boot task, the others are spawned by `change_node`.

| model | code |
|---|---|
| `pc`, `url`, `rxGen`, `tok` | the task's place, `tcp_url`, the channel its `rx` subscribes to, `cloned_token` |
| `cancelToken`, `cancelled` | `cancel_current_conn`: each token is a number, cancelling adds it to the set |
| `tcpGen` | 0 the `tcp_tx` of `main`, 1 the one the boot task installs |
| `ProbeSucceeds`, `ProbeFails`, `SwapChannels` | the boot task: `try_initial_connection`, then the new channels |
| `ChangeNode`, `CancelCurrent`, `AssignNode` | `change_node`: check, cancel, assign and spawn, three critical sections |
| `Subscribe` ... `RetryElapses` | `connect_to_server`'s loop |
| `CloneToken`, `TurnBegins`, `TurnEnds` | `handle_stream`: the greeting; a turn of its loop, outside the `select!`, "busy" with a write or a line |
| `LinkCancelled`, `LinkClosed`, `LinkFails`, `PeerGone` | the ends of a link: `Done` ends the task, an error retries; `peer_addr()?` ends a task that has connected |
| `NodeReports`, `RefreshStatus` | what sets the node's and the connection's status |
| `NodeStarts`, `NodeStops`, `NodeStalls` | the environment: a daemon that runs, one that does not, one that has stopped reading (`sick`) |

Abstracted: the greeting and the contents of lines (only the status they set
stays), `internal_tx` (a turn of the loop like any other), the image
build after a failed probe, the unused `Reconnect` result (`handle_stream` never
returns it). `StreamErrors` says whether a read, write or parse may fail and
`Overlap` whether a switch may be asked for while another link is being set up.

| run | shows |
|---|---|
| `NodeLinkCalm` | no overlap, no stream errors: `ExclusiveLink`, `LinkServesCurrentNode`, `LinkHearsHandlers`, and `SwitchConverges`, the progress of a switch to a link with no other beside it |
| `NodeLinkStorm` | overlap, errors and nodes that stall: what still holds. The boot task's link hears the handlers, a cancelled link whose node reads ends, a switch connects |

The token is polled only in the `select!` (main.rs:1094). A link that is busy when
it is cancelled sees it when it is back there: after its write (1111-1113), or after
the line it passes on, which waits for the `AppState` lock (1038). If the node has
stopped reading, the write may never return: then the cancelled link stays, in the
model as in the code, and `CancelledLinkEnds` is claimed for nodes that read. That
the wait for the lock ends is assumed here; `FileRequestsStuck` shows when it does
not.

With `Overlap = TRUE` in `NodeLinkCalm.cfg` two of its properties fail, as the
code does: a task that is still connecting has no token to cancel, registers
after the switch and stays (`LinkServesCurrentNode`, main.rs:1186); a switch
subscribes, and the boot task then replaces the channel, so the link hears no
handler (`LinkHearsHandlers`, main.rs:1739).

Bounds: two nodes, the boot task and two switches (one in `NodeLinkStorm`, where
errors let every task start over at any moment), two probes (one in
`NodeLinkStorm`), three tokens; nodes stall in `NodeLinkStorm` only. A race
is between two tasks and a third link shows what they leave behind; a token
more only lengthens the retries. `TokenBudget` keeps a token for every task
that is on its way, so the bound never stops one half-way.

Fairness: weak for the steps a task owes once it is ready, because tokio polls
ready tasks and `select!` picks among ready branches at random; strong for
`Register`, because a node may come and go and a connect that is possible again
and again is not refused or late forever; and for `LinkCancelled`, because a link
comes back to the `select!` again and again, where a ready branch is picked at
random. A turn ends if the node reads or has closed. No node need start, no operator
switch, no line or command come.

## Elements, Store and JsonStore

`Elements` has the documents (a set of named elements, the settings among them)
and what an operation does to one. `Store` is the promise: an operation takes
effect at one moment between call and answer, and a crash drops the operations
under way and may lose the document, but only whole. `JsonStore` is the code:
read all, change a copy, truncate, write all.

| model | code |
|---|---|
| `file` | `database.json`: parses to a document, is empty, or is torn |
| `Sort`, `Needy` | what an element is: a user needs a password, a server a name, a custom node an address; others may be created empty |
| `Boot`, `BootDies`, `Serve` | `JsonBackend::new`, also with its write cut short by a crash or a disk error; `ensure_admin_user`, `get_settings()?` in `main` |
| `HandlerCalls` | a handler, with the `AppState` lock until `Return` |
| `StreamCalls` | `handle_all_stream_values` recording a node, without it |
| `LoadFails` ... `LoadChanges` | `get_database` and the operation on its copy |
| `Truncate`, `Write`, `WriteFails` | `write_database`: it may fail to open, to write, or to sync what it has written |
| `Crash` | the process is killed |

Readers of the lock change no document, so the lock is modelled as exclusive. A
write onto a file that another task has filled leaves the tail of a longer
document. The refinement mapping lets a write take effect when it truncates the
file: from there on the file is either what is being written or, after a
crash, empty or torn.

| run | shows |
|---|---|
| `JsonStoreCrash` | two handlers, two crashes, a disk that works: `ImplementsStore` and `CreatedIsThere` |
| `JsonStoreStorm` | a handler, a stream task, disk errors, a crash: a file that parses is still valid |

With a stream task in `JsonStoreCrash.cfg` (`Stream <- MCStream`) both properties
fail: the task that records a node (main.rs:936) takes no lock, and its
whole-file rewrite undoes what a handler wrote in between.

Bounds: the settings, the administrator, a custom node and, in `JsonStoreCrash`, an
integration, which may be created empty; two values and the empty one, two tasks
beside `main`: a lost update needs two, and a name refused, found or missing needs
one other name. No fairness: nothing is claimed about progress.

## NodeProcess

The daemon's connections, each with a reader that handles lines and a writer
that sends replies and the server's output, the health monitor, and the game
server's processes.

| model | code |
|---|---|
| `guard` | `authenticated_origins`, whose guard lives as long as the line: a borrow of the temporary keeps it to the end of the block |
| `running`, `process`, `outputTx`, `stdin` | `server_running`, `server_process`, `server_output_tx`, `shared_stdin` |
| `RunningFree`, `OutputFree` | the mutexes that are held across awaits, derived from who stands where |
| `Connect`, `Receive`, `Handle`, `Refuse`, `ReaderEnds` | the connection task and its authentication |
| `StartChecks` ... `StartSetsRunning` | `start_server_with_broadcast`, one critical section each |
| `Stop`, `Report`, `Reply` | `handle_typical_command_or_console` |
| `WriterChecks` ... `WriterFails` | the writer task |
| `MonitorLooks` ... `MonitorSilences` | the monitor: its shadowed guards keep `server_running` to the end of the reset |
| `alive`, `streaming` | processes that run; processes whose output channel a task still holds |

A channel is named by the process it carries. Abstracted: output lines (a
writer follows a process or does not), console input and the commands that touch
neither the server nor its channels, the stop of a server by the keyword (a
server may exit at any moment) and the queue of console echoes. A write to a
peer that stays succeeds.

| run | shows |
|---|---|
| `NodeProcessSafe` | two connections, three lines, a queue of one: one server, no false "down", no stop into an old pipe |
| `NodeProcessLive` | queue as long as the lines: an exited server is noticed, and a writer comes to follow the server that runs |

With `OutCapacity = 1` in `NodeProcessLive.cfg` `ExitNoticed` fails: a reply
waits for room in the queue with `server_running` locked (daemon main.rs:1629),
while the writer that would make room waits for `server_running`.

Bounds: two connections compete for the guard and for the mutexes; two
processes, so a start may follow an exit; three lines, so that two starts and a
question meet. The queue holds one in the code's place of 128: the wait needs a
full queue, not a long one. `NodeProcessLive` has one connection, since liveness
of a second adds only a competitor for mutexes that strong fairness already
grants, and a queue that never fills, which is the condition of its claims.

Fairness: tokio's mutexes are first in, first out, so whoever waits for one gets
it (strong fairness of a task's step); a peer that stays reads what it is sent;
the end of a process closes its pipes. No client need send, no server exit.

## FileRequests

Handlers that read a node's files through `TcpFs`, the link that publishes the
answers, and the fair `RwLock` of `AppState` between them. A handler that
writes stands for all that take the lock for writing (`set_server`, for one).

| model | code |
|---|---|
| `queue`, `guards`, `writer` | tokio's `RwLock`: who waits, in order, and who has which guard |
| `Begin`, `Check`, `Refuse` | the first guard, `authorize`, and the early return (`get_files` ignores the verdict) |
| `Subscribe`, `Subscribed` | the second guard, under which `get_files_content` and `stream_file_download` subscribe; `get_files` does under its first |
| `number`, `Send` | `request_id`, shared by the clones of one `TcpFs`, and `send_request` |
| `heard`, `at` | what a receiver of the call may read, and how far it has; `Send` picks the receiver: the call's first, the one in use, or a new clone |
| `Hear` (`Takes`, `Skips`), `GivesUp` | `recv_response`: the first answer with the number, from whoever; the time limits |
| `Looped`, `GoesOn` | the requests of `get_files`' loop over the entries: an error of `is_dir` is ignored and the next is asked |
| `pending`, `LinkReads`, `Publish` | the node's tasks, one per request, and `process_stream_data`, which publishes under a read guard |

Abstracted: paths and contents; an answer is one message; the limits of time
may strike at any moment of a wait, since other messages on `tcp_tx` let
`recv_response` look at the clock, and are never counted on. The channel does not
overflow and the link does not end. A handler may take an answer to another
call with the same number, as in the code, and nothing is claimed about whose
contents it returns. In the model an answer also names the call it is for: no
action looks at that, only `AnswerComes` does.

| run | shows |
|---|---|
| `FileRequestsFair` | a list, a download and a writer: no answer is lost (`AnswerComes`), no guard is held over a wait (`WaitsFree`), everyone who waits comes to an end (`Returns`), the writer gets the lock (`WriterServed`) |
| `FileRequestsStuck` | `get_files_content` and a writer: `Returns` fails. The handler waits with its guard, the writer behind it, and the link that would publish the answer behind the writer |

Bounds: two handlers take each other's answers and leave late ones behind; two
requests, so that a number is used again by another call, and `Looped = 0`: the
list's second request is one of the loop, which goes on after an error; one call
each, since what a second call of the same handler hears of the first it hears of
the other's as well. One writer is enough to stand between two readers, and it comes
back as often as it likes.

Fairness: weak, for the lock handing out guards, for ready tasks, and for a link
that reads what the node sends. No time limit need strike, no one need ask.

## Transfer

Files on their way to a node over one connection: the panel's link, which puts
whatever is broadcast on it, or another node that moves its folder. The stream is
a sequence of symbols, and the reader cuts it into reads as it likes.

| model | code |
|---|---|
| `chan`, `Broadcast` | `tcp_tx`, 100 messages; a link that lags ignores the error (main.rs:1115), so the oldest are lost |
| `wire`, `Window` | the connection; a write waits while it is full |
| `UploadStart` ... `UploadClean` | `send_multipart_over_broadcast` |
| `UploadBreaks` | the browser goes away, or the form is broken: an upload ends between its chunks without delimiter or `end_file` |
| `SendStart` ... `AllSent`, `SkipFile`, `OpenFails`, `ReadFails`, `Breaks` | `send_folder_over_broadcast` and its failures |
| `LinkEnds`, `LinkReturns` | the panel's link ends, by an error of `write_all` or its token, and a new one begins with a receiver of its own |
| `Command`, `LinkWrites` | any other broadcast; `handle_stream`, which ends every message with a newline |
| `buf`, `mode`, `busy` | `read_buf`, `ReadMode`, the inner loop |
| `Read` ... `AwaitsMore` | the daemon's reader: lines, markers, the commands between, chunks, `MAX_BUFFER_SIZE` |
| `Cleaned` | `cleanup_end_file_markers`, with its index into a lossy decoding |
| `Marks`, `ReadAs` | bytes of a file that read as a half of the delimiter or as an `end_file`: `find_subsequence` and the cleanup look into the contents |

Abstracted: directories, permissions, the contents of commands, and the choice
of a migration's target. The node has no password (with one, a move between
nodes is refused). What else is broadcast is taken to be
JSON; the panel's own `ping` (main.rs:2656) and lines of the node that are not JSON
are junk to the node's reader, and left out. A new link begins when the node's reader
of the old one has come to its end; that the old reader may work on beside the new one
for a moment is left out.
`spoilt` records what met a transfer.

`TransferFiles` checks that a transfer nothing met, of files that hold neither the
delimiter nor an `end_file` (`Innocent`), leaves each file as it was sent
(`Arrives`); that a move of such files which stops anywhere never leaves a byte of
another file (`NeverMixed`); that a command, whatever the files hold, is in one
place at a time, gets into a file only if it met an upload, an upload was given up
or the link lagged, and vanishes only when the link lags or ends, the buffer
overflows or a file is sent again (`CommandKept`); and that the reader returns to
messages (`Recovers`).

What the properties except is what the code does: nothing on the connection tells
the delimiter from contents that hold it, so the reader cuts a file at the first one
it finds (daemon main.rs:1399), reads the rest as lines, and the cleanup cuts at an
`end_file` of the file's own; a link that ends loses what its receiver had still to
receive and what the connection held (main.rs:1094 and 1111-1113), and what is
broadcast before the next one; an upload whose browser goes away leaves the reader
in the file, and what is broadcast next becomes its end; `start_file` creates the
path of the file itself as a directory (daemon main.rs:1192), so a file the node
does not have cannot be opened, its bytes are read as a line that is no JSON and
stay at the head of the buffer until it exceeds 50 MiB; an open that fails after
`start_file` mixes two files; a file that is not UTF-8 gets a piece of its own
marker; an upload carries a newline per chunk and whatever else was broadcast; an
empty field in a form has no delimiter, and the next file goes into it.

Bounds: a file of two bytes, an empty one, one that is not UTF-8, one that holds an
`end_file` and a delimiter before its last byte, and one the node lacks; three
folders of these, and one form of two files; a command; two failures; seven messages
in the channel in the code's place of 100, reads of up to two symbols, so that a
marker is cut in two; a buffer of seven symbols, which a delimiter and a message fit
and a transfer to a missing file exceeds. Fairness: a sender goes on while its disk
works and the browser sends, and the link and the reader are tasks of their own. No
fault need strike.

## ServerRegistry

The servers, the current one and the output filter, as the panel and a node have
them, and the commands between, over any number of links.

| model | code |
|---|---|
| `servers`, `current`, `filter` | the panel's database, `AppState.current_server`, its settings |
| `AddServer`, `AddFails`, `AddUntold`, `DeleteServer`, `SetServer` | the handlers, each under the `AppState` lock to its end; an add that finds the name, or fails before or after the server is stored, has made it current already |
| `SetSettings`, `NotifyNode`, `PassOn` | `set_settings`, then `notify_node_of_settings` under the lock again, then a link that takes it from `internal_tx` |
| `LinkUp`, `Greeting`, `LinkDown`, `queue` | links that subscribe, with the `server_data` of their greeting, and end; what is sent over each |
| `TakeLine` ... `LineDone`, `origins` | a line of a connection, under the guard of `authenticated_origins` |
| `dbLock`, `curLock` | the mutexes of `db` and `current_server` |
| `LookCurrent` ... `RemoveFiles` | `create_server`, `set_server`, `delete_server`, the filter, in the steps between two awaits |
| `StartHooks`, `RunHooks`, `NoMoreHooks` | the provider's hooks after `create_server`: each saves the database, and makes the directory if it is sandboxed |
| `ServerData`, `LookUp` | `server_data`, whose `if let` keeps the guard of `current_server` while `convert_provider` locks `db` |
| `Truncate`, `Write` | `save_db` |
| `PanelRestarts`, `NodeCrashes`, `NodeStarts` | the environment; `load_db` and what `main` puts in |

Abstracted: the entry behind a name; a server's node (there is one); what a hook
runs, and how many there are (the code runs up to three, the model any number). The
`server_data` that `add_server` sends last carries metadata and is dropped by the
node (daemon main.rs:2493), so it is not sent here; that of a link's greeting
carries none and is handled. The channel has no bound: what a link that lags loses
is in `Transfer`. A panel restarts with the current server of its settings, which
only a client that sends `set_settings` puts there: any server or none.
`get_server` changes nothing.

`RegistryAgrees` checks that the node's stores agree whenever `db` is unlocked
(`NodeConsistent`), that no two handlers wait for each other (`NoEmbrace`), and
that when nothing is on its way, no command was lost and none came over a second
link, the node has the panel's servers (`IndexAgrees`), current server
(`CurrentAgrees`) and filter (`FilterAgrees`).

What the properties except: the node refuses to delete anything while it has no
current server; the built-in server comes back at each start; `add_server` sets
the current server before it finds that the name exists (409) or the database
fails; a deleted server stays the panel's current one; a panel restarts with what
its settings say, and tells nobody. `NoEmbrace` holds only because one guard spans a
whole line: the two mutexes are taken in both orders. And `delete_server` with
"Delete server files?" removes the directory of the server that *was current*, not
of the one it deletes (`RemoveFiles`, daemon main.rs:2408-2424): deleting a server
that is not current with its files removes the files of the one that is.

Bounds: the built-in server and another, two filters, two requests that set it, two
connections, three operations, one break: an add, a set and a delete are three; two
links are enough for two handlers to meet. Every delete asks for the files too
(`Asks`), which takes the longer way through the handler. No fairness, and the model
stops when its operations are used up.

## Rows, Tables and PgStore

`Rows` has the rows of four tables and what a statement does to them. `Tables`
is the promise: an operation takes effect at one moment, and one whose caller is
gone, or was told of an error, may still do so, once. `PgStore` is the code:
statements that are sent one by one, without transactions.

| model | code |
|---|---|
| `rows`, `buttons`, `toggled` | the tables; `settings.toggled_default_buttons` |
| `Boot`, `Serve` | `ensure_database_conn`, whose failure `main` only prints; `ensure_admin_user` |
| `Select`, `Statement` | a creation's look for its key; INSERT, UPDATE, DELETE |
| `Look`, `Set`, `ClearButtons`, `Restore` | `toggle_default_buttons`, `reset_buttons` |
| `HandlerCalls`, `StreamCalls`, `Return` | handlers under the write guard; a stream task without it |
| `HangUp`, `Crash`, `Fail` | a dropped handler, a killed process, a lost connection |
| `late`, `RunLate` | statements whose caller is gone, which the server may still run |

Abstracted: columns (those an edit may leave, and the others). Equal statements
that are late count once. Assumed: the tables were made by a start that did not fail at
it, and what a dead process sent has run by the next start. The first start ends,
like every other, with `ensure_admin_user`.

`PgTables` checks `ImplementsTables`, `ButtonsWhole` (unless work on them was cut
off, and until something makes up for it, the default buttons are there) and
`ResetAnswered` (a reset that answers with success left exactly them). What the
code does besides: a reset that is cut off leaves buttons out, until a start or a
whole reset; the late statement of a dropped handler may run after later
handlers'; an edit of a user who is not there answers CREATED.

Bounds: one name and the empty one, two values, two default buttons, a handler, a
stream task and `main`, one cut: a race for a key needs two callers, and a late
statement is a third.

## Dashboard

What a browser shows: the console, from the node's line over `ws_tx` and a socket
to the page's history, and the status, from a keyword or a `server_state` answer
over the status stream.

| model | code |
|---|---|
| `log`, `LinkPrints` | `ws_tx`; `handle_all_stream_values`: a line with a keyword sets the status, and is published |
| `LinkReplies`, `Tick` | answers to `server_state`; `ongoing_server_status`, every three seconds |
| `Subscribes`, `Takes`, `Sends`, `Lags` | `handle_socket`'s forwarding task; a lag ends it, not the socket |
| `Mounts`, `Connects`, `Opens`, `Closes`, `Reconnects` | `ServerConsoleState`: `init`, `connectWebSocket`, its events and its timer |
| `Cleaned`, `Blank` | what `cleanOutput` leaves of a message, and what of this is not shown: the empty text and "undefined" |
| `Receives`, `Flushes` | `filterMessage` on the cleaned text, `addConsoleEntry` and its batch |
| `Breaks` | the connection between browser and panel |

Abstracted: what the page hides (the raw copy of every message; it may make a
receiver lag at any time, which `Lags` allows), what it writes itself, the count
on an entry, the input half, and the node's connection as a source of status.

`DashboardShows` checks that the page has had from each socket what was published
since it subscribed, in order, without a gap and once, and shows each text of it but
blanks and, with the filter, repetitions (`ConsoleFaithful`), and that
in the end it shows everything and the true status (`Settles`). What they except:
after a lag the socket stays open and deaf; `init` at each visit of the page opens
a second socket while one is connecting, and then every line comes twice. Besides:
the batch timer starts again with each line, so output faster than a line in 16 ms
is never shown while it lasts (`Flushes` is then only owed).

Bounds, by source of the status: with keywords, two sockets, two lines of four
texts (two that clean to the same, another and a blank) and one break, a window of
one; with the process, no socket, two starts or
exits and keyword lines among the output. A lag, a break or a second socket needs
one line before it and one after it. Fairness: weak, for the tasks of the panel,
the events of the page and the ticks; no line, break, lag or visit need happen.
The status stream stays: after an error the page closes it for good.

## What is proved

All theorems hold for every value of the constants that satisfies the module's
ASSUME; where a theorem needs more it says so in its own ASSUME.

* `NodeLinkProofs`: `TypeCorrect`; `BootLinkHears`, unconditional;
  `OneLink`, `LinkToCurrent`, `LinkHears` under `~Overlap` and
  `~StreamErrors`. They rest on one inductive invariant, `LinkInv`: at most
  one task is setting a link up (`OneAtATime`), only the boot task probes and
  swaps (`StagesOfBoot`), a link that goes on has the newest token and nobody is
  past cancelling it (`HoldsNewest`), and who has such a link or is about to open
  one is headed for the current node and has subscribed to the handlers' channel
  (`HeadedForCurrent`, `HearsCurrent`). The properties alone are not inductive:
  they say nothing of the tasks that have not opened their link yet.
* `JsonStoreProofs`: `TypeCorrect`; `ValidFile` for any interleaving, crash and
  disk error; `CreatedThere` and `Implements` under `Stream = {}` and
  `~DiskErrors`. `LockInv` says that one task at most
  is under way, the lock's holder or `main` before anything is served, and that
  its copy is the effect of its operation on the file. `Implements` shows that the initial state maps to
  `Store`'s and each step to a step of `Store` or a stutter.
* `NodeProcessProofs`: `TypeCorrect`, `OneAtWork`, `TrueReports`, `StopArrives`
  and `NeverMissing`, all unconditional. The invariant `ServerInv` says that the
  reader of a start holds the guard, that it is alone, that what it has stored so
  far is its child, that the flag implies a process that is tracked, and that a
  monitor in the middle of a reset has seen an exit that nobody can undo.

* `FileRequestsProofs`: `TypeCorrect`, `FreeWaits` and `AnswersCome`, all
  unconditional, for any number of handlers, writers, requests and calls. The
  invariant `Inv` says that a task is in the queue once and at a stage that
  waits (`Queued`), what each kind of task has of the lock at each stage
  (`GuardsHeld`), and that a call is numbered and has read nothing before it
  asks (`Numbered`, `Unread`). `AnswerComes` is inductive with it: an answer
  moves from the node to the link to every receiver that is there, and a receiver
  passes over no answer but with a different number.

* `ServerRegistryProofs`: `TypesHold`, `ConsistencyHolds` and `NoEmbraceHolds`, all
  unconditional, for any servers, filters, requests and connections. The invariant
  `IInv` adds to the types `Standing` (a connection's step suits its command, the
  holder of `authenticated_origins` is the only one that handles anything, and
  the locks are held at the steps that hold them) and `Stored` (a stored current
  server is in the index, the file is the database unless `db` is locked, and the
  node's current server is the stored one unless `set_server` is between the two).
  `NoEmbrace` follows from there being one handler at a time. `IndexHolds`,
  `CurrentHolds` and `FilterHolds` rest on `AInv`, which adds what the node will
  have once all that is on its way has arrived. For each server, for the current
  one and for the filter, the last command on its way that matters decides (`Ends`),
  and when none does (`Free`) the node has what the panel has (`IndexNow`,
  `CurrentNow`, `FilterNow`); a connection in the middle of a command counts as what
  the command has still to do. The agreement at rest is the case where nothing is on
  its way; alone it is not inductive. As in the properties, no command was lost and
  none came over a second link.
* `PgStoreProofs`: `TypesHold`, `ButtonsHold`, `ResetsHold` and `Implements`, all
  unconditional. `IInv` says what each stage of a task means (`Standing`: who calls
  what, and that what works on the buttons has the lock) and that, unless work on the
  buttons was cut off, they are the defaults inserted so far and no late statement
  touches them (`Undisturbed`). `Implements` maps every step to one of `Tables` or
  to a stutter.
* `DashboardProofs`: `ConsoleHolds` and `NothingHeldBack`, unconditional, for any number of sockets,
  lines, breaks and visits. The invariant `DInv` says of each socket that what
  is on its way follows what the page has had from it, and its receiver stands
  right behind, unless it is gone (`Streams`), that only published lines have come
  (`Known`), that without a second socket beside it only the current one is in use,
  and what came over earlier ones is older than its subscription (`OneSocket`), and
  that the page's filter remembers what came last (`Remembers`). `ConsoleFaithful`
  is inductive only with these. `NothingHeldBack` follows from `Streams`: where a task
  and its socket are idle, the page has everything.
* `TransferProofs`: `TypeCorrect`, `CommandHolds`, `NeverMixes`, `FilesArrive` and
  `ReadyAgain`, for all files, forms, uploaders and bounds and every cut of the
  stream into reads. All speak of what the reader has still to take, `Rest`: its
  buffer and the connection as one sequence, which a read does not change. For
  `CommandKept`, `OInv` says that a command is at one spot of it, of the channel, of
  the files or among those handled, and gone only if `Gone` says so; `DInv` says
  that, unless a command met an upload, an upload was given up or the link lagged, a delimiter stands
  between the start of a file and any later command (`Parted`), or is owed by an
  upload whose commands come after it (`Awaits`). For `NeverMixed`, `MInv` says that
  what follows a `start_file` on the connection is that file's body, as far as the
  sender has come (`Tracks`), and that the open file holds the part before
  (`Written`): the first delimiter in the buffer is then the file's own.
  `NeverMixed` alone says nothing of the stream, and so is not inductive.
  `FilesArrive` is `Arrives`, in two halves, for files that are `Innocent`: of others
  it says nothing, since the reader cuts them. `AInv` says, of a move that nothing
  met, that a file is still to be sent or was skipped, is on its way, or has arrived
  (`Accounted`); that a file on the connection is followed by the next `start_file`,
  or is the one being sent (`Joined`); and that a reader that waits has nothing
  whole before it (`Quiet`). When the sender is done and the connection empty, the
  reader cannot have stopped half-way, and only the third case is left. An upload is
  harder, because every message of the channel counts, of any handler, and nothing
  else than the handlers' order of work says that what reaches the reader fits.
  `UInv` therefore follows a reader of the whole stream: it stands at a line, inside
  a message, in the data of a file with so much of it behind, or in its delimiter,
  and remembers which files it has finished (`Stand`, `Passes`). The buffer, the
  connection and each message of the channel lead from one stand to the next
  (`Leads`, `Whither`); at one end is the node, whose open file holds what was read
  of it and whose finished files hold what was sent (`AtReader`), at the other the
  one handler that uploads, as far as it has come with its form (`AtSender`). A step
  of a sender adds a stand at the far end, the link joins two stretches, and the
  reader moves along the first. When nothing is on its way both ends are the same
  stand, at a line, with every file of the forms finished; and the reader, which
  waits only without a whole line or delimiter, has nothing left (`ReadyAgain`). The
  hypotheses of `Favourable` are all needed: a file the node lacks makes `start_file`
  fail, one that holds the delimiter is cut at it, and an empty field that is not the
  last leads to no line. `CommandHolds` needs none of them: it holds whatever the
  files hold and wherever the link ends.

Where an argument needs the first delimiter, the first newline or the last message,
the proofs take a least element of a set of positions (`Least`), which needs no
induction.

Only model-checked: every liveness property (`SwitchConverges`,
`CancelledLinkEnds`, `SwitchConnects`, `ExitNoticed`, `OutputFollowed`,
`Returns`, `WriterServed`, `Recovers`, `Settles`), since TLAPS here proves neither
fairness nor ENABLED. Every invariant and every step property of the passing runs
is stated by a theorem; those of `NodeLink` and `JsonStore` that need it under the
conditions above. Of `Recovers` and of `Settles`, for the console, the half without
time is one too (`ReadyAgain`, `NothingHeldBack`).
`Arrives` compares a file with what was sent through a map of positions (`Spells`)
and not by leaving the newlines out of a sequence, a recursive function that the
provers cannot unfold without induction.

## Findings

One run shows a violation of what a comment says: `FileRequestsStuck`, a panel that
stops when a file is read while a handler wants to write. Other departures met while
modelling are excepted, by name, in the properties above, and described where their
module is: a link to a node nobody selected, one that hears nobody and one that its
cancelling does not reach (NodeLink), a created element that is gone (JsonStore), a
daemon that waits for its own reply queue (NodeProcess), files that never arrive,
are cut or mix, and commands lost with a link (Transfer), a delete that removes the
files of another server (ServerRegistry), missing buttons after a dropped reset
(PgStore), and a console that is deaf or double (Dashboard).

## Not modelled

The table of components in `PROJECT.json` names every part and the reason. Left
out for good: Kubernetes and Docker calls, provider downloads, hooks and the
sandbox, node integrations, frontend pages and the stores that only fetch: they
keep no shared state of their own, and what could go wrong in them is in the
programs they call. The JSON assembler is a pure function of one message. Sessions
and tokens are axum-login's and jsonwebtoken's. Left for later, in the plan: the
console's input and RCON, lagging and fragmented file answers, `delete_node`, which
lets go of the lock between its permission check and the deletion, and the
composition of the daemon's restart with the processes its predecessor left.
