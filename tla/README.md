# TLA+ models of the c-ares query engine and channel initialisation

This directory holds TLA+ specifications of the c-ares stub resolver as found
under `src/src/lib/`, with TLC configurations that check them.
`PROJECT.json` lists the components, the runs, the mutants that show each
checked property can fail, the map from each definition to the C lines it
models, the findings, and the hazards the code is exposed to.

## The system

c-ares is a single-threaded asynchronous DNS stub resolver. A *channel*
(`struct ares_channeldata`, `ares_private.h`) holds:
- the configuration (servers, tries, timeout, flags, `udp_max_queries`);
- four indexes of the queries in flight:
  - `all_queries`, a list;
  - `queries_by_qid`, a hash table;
  - `queries_by_timeout`, a skip list ordered by deadline;
  - per connection, `queries_to_conn`;
- `connnode_by_socket`, the socket table.

Each server (`struct server_state`) has:
- a list of connections, at most one of them TCP (`tcp_conn`);
- a TCP send buffer and a TCP receive buffer;
- a TCP connection generation.

Each query (`struct query`) records:
- `try_count`, the server it was last sent to, `using_tcp` and `error_status`;
- `no_retries`, set when the application cancels it;
- the connection it is on (`conn`);
- per server, `skip_server` and the TCP generation it was last sent on.

The embedder drives everything through a few entry points, and each one runs
to completion:

| entry point | what it does (ares_process.c) |
|---|---|
| `ares_send` (outside src/) | creates a query and calls `ares__send_query` |
| `ares_process_fd(read_fd, write_fd)` | `write_tcp_data`, then `read_packets`, then `process_timeouts` (`processfds`) |
| `ares_cancel` (outside src/) | sets `no_retries` on every query and runs a timeout sweep at once (spec.md 5) |
| `ares_process(read_fds, write_fds)` | the same over fd_sets: `write_tcp_data` walks the servers, and `read_packets` walks a snapshot of every connection's socket (`channel_socket_list`), clearing each socket it handles from the set |

Beneath them:
- **`ares__send_query`** puts the request on a server's connection:
  - UDP reuses the server's first connection while it is UDP and under `udp_max_queries`;
  - TCP appends to `tcp_send`;
  - it then sets a deadline that doubles per pass over the servers, and links the query to the connection.
- **`next_server`** moves to the next server that is neither skipped nor the same TCP incarnation. After `nservers * tries` attempts it ends the query with its `error_status`.
- **`handle_error`** steals a failed connection's query list, closes the connection, and then skips the server for, and requeues, every query on it.
- **`process_answer`** drops a message that does not parse, whose qid is not live, or whose question differs (`same_questions`). Otherwise it does the following in order:
  1. unlinks the query from its connection list;
  2. EDNS fallback on a FORMERR without an OPT RR (`has_opt_rr`): clears the channel-wide flag and resends;
  3. TC upgrade to TCP;
  4. SERVFAIL, NOTIMP and REFUSED filtering: records ESERVFAIL, ENOTIMP or EREFUSED as the query's `error_status`, skips the server, and moves on only if the answer came from the query's current server;
  5. otherwise, `end_query` with SUCCESS.
- **`read_packets`** over an fd_set returns at once, without freeing its socket list, when a listed socket it is about to read is no longer in the socket table (line 471).
- **`process_timeouts`** walks the expired prefix of `queries_by_timeout` and calls `next_server` for each query. It then cleans up the connection the query was on, which it reads through `query->conn`.

Before any of this, `ares_init_options` (`ares_init.c`) fills the channel's
configuration from four sources, from highest precedence to lowest:
1. the caller's options (`ares__init_by_options`, outside src/);
2. the environment: `LOCALDOMAIN` and `RES_OPTIONS` (`init_by_environment`);
3. `/etc/resolv.conf`, then `nsswitch.conf`, `host.conf` and `svc.conf` for the lookup order (`init_by_resolv_conf`);
4. built-in defaults (`init_by_defaults`).

Each source is meant to fill only what is still unset. The text parsers
beneath them are `set_options`, `try_config`, `set_search`, `config_domain`,
`config_lookup`, `config_nameserver` with `parse_dnsaddrport`, and
`config_sortlist` with `ip_addr` and `natural_mask`. Then `ares__init_servers_state`
allocates each server's buffers. `ares_set_sortlist` reuses
`config_sortlist` on a live channel.

## Modules

| module | models | state | actions |
|---|---|---|---|
| `AresEngine` | the query engine of `ares_process.c`, with the connection lifecycle of spec.md | `submitted`, `live` (all_queries/queries_by_qid), `qs` (struct query), `byTimeout`, `dl` (deadlines, as time left), `onConn` (queries_to_conn), `open` (connnode_by_socket), `cinfo` (struct server_connection), `sconns`, `tcpConn`, `tcpSend`, `edns`, `cb` (callbacks made), `xmit` (requests a server has received on a socket), `wantWrite` (last sock_state_cb write flag), `socketLists` (socket lists allocated by `channel_socket_list` and not freed) | `Submit(q)` (ares_send), `ProcessFd(rf, wf)` (ares_process_fd), `ProcessFds(R, W)` (ares_process), `Cancel` (ares_cancel), `Tick` (time passes) |
| `QueryLifecycle` | what the engine promises per query: exactly one callback, an answer iff SUCCESS, eventually | `submitted`, `cb` | `Submit(q)`, `Complete(C)` |
| `MCAresEngine` | model values for queries, symmetry | | |
| `AresTime` | `timeadd`, `ares__timedout` and the timeout shift of `ares__send_query`, as pure operators; `AresEngine` takes `TimePlus` from it | | |
| `AresConfigText` | the configuration text parsers of `ares_init.c`, as pure operators | | |
| `AresInit` | `ares_init_options` from the option step to `done:`, then `ares_set_sortlist` | `pc` (the step reached), `in` (the inputs: options, environment, files, host name), `ch` (the configuration fields of the channel), `st` (the last status), `rc` (what `ares_init_options` returned) | `ByOptions`, `ByEnvironment`, `ByResolvConf`, `ByDefaults`, `ServersState`, `SetSortlist(s)` |
| `MCAresInit` | option records, environment values, resolver files and host names for TLC | | |
| `MCAresOperators` | reference grammars for the parsers, and the enumerated inputs | `input` | `Keep` |

### How AresEngine follows the code

Each entry point is one atomic step. The library is single threaded and
never suspends inside a call (spec.md 5).

The C functions it calls are operators from a channel record (`Pack`) to the
*set* of channel records it may leave. A set is needed because `socket()` may
fail (`OpenResults`) and `sendto()` may fail (`WriteResults`). The operators
compose in the order the C code calls them:
- `NextServer` and `SendQuery` are mutually recursive, as `next_server` and `ares__send_query` are;
- `HandleError` folds `NextServer` over the stolen list after `CloseConnection`;
- `ProcessTimeouts` recurses over the expired prefix.

The inputs of `ProcessFd` come from small sets:
- what `send()` returns, in whole requests;
- whether a TCP `recv()` would block, hit EOF or an error, or carries a burst of frames;
- for UDP, the datagrams read, then whether the final `recvfrom()` would block or fails.

`ProcessFds(R, W)` is `ares_process`. The application passes `R`, a set of
open sockets, and `W`, a set of sockets it was asked to watch for writes.
`WriteTcpServers` walks the servers in index order, giving one `send()` to
each server whose TCP socket is still in `W`. `ReadPacketsSet` takes
`ChannelSocketList` after the writes, and folds `ReadListedSocket` over it.
A socket in `R` is removed from it, then read. A listed socket in `R` that is
no longer open stops the walk and leaves the list unfreed. When the list
cannot be allocated, nothing is read. The constant `FdSets` says whether a
run's application uses this entry point.

`Cancel` is `ares_cancel` as spec.md 5 describes it, because the function is
not under src/. It sets `no_retries` on every live query and then runs
`ProcessTimeouts`. Only `next_server` reads `no_retries`. So a cancelled
query ends at its next expiry, with its `error_status`, through the timeout
path. Until then it can still be answered, and the EDNS fallback and the TC
upgrade can still resend it. The constant `Cancels` says whether a run's
application cancels. The records `QueryRecord` and `ConnRecord` give the
fields of `struct query` and `struct server_connection` that the model keeps.

A datagram or frame is `[q, kind]`: an answer to request `q`, which the
server received on that socket. Its kind stands for what the checks on the
message find:
- `answer`;
- `truncated` (TC bit);
- `servfail`, `notimp` or `refused` (`RcodeStatus`);
- `formerr` (no OPT RR) or `formerr_opt` (with one), which `EdnsRejected` tells apart;
- `mismatch`, a message that does not parse or asks another question, dropped (`SameQuestions`);
- `spoofed`, a datagram from another address, dropped (`SameAddress`; UDP only).

A server may answer any request it has received, any
number of times and at any later moment. This covers lost, duplicated, late
and reordered answers.

Abstractions:
- **Deadlines** are counts of time left: `Tick` lowers every positive one, and 0 means expired. `byTimeout` keeps the skip list's order, with a new entry placed after equal ones. Timeout doubling (`TimePlus`) keeps the code's overflow test, with the int width as the constant `IntBits`.
- **Sockets** are numbers from `Fds`. The lowest free number is used, as POSIX `socket()` does, so a closed socket's number is reused. When none is free, the open fails with ECONNREFUSED.
- **TCP generations:** the code compares `query->server_info[s].tcp_connection_generation` with the server's current generation, and uses the numbers for nothing else. The model keeps only the outcome of that comparison, as `qs[q].sameGen[s]`. Opening a TCP connection to `s` makes it false for every query, and sending on it makes it true.
- **Freed memory:** closing a connection marks every `query->conn` that names it as `Freed`. `process_timeouts` then reads a socket number from freed memory. The model lets it be any number or none (`ConnFd`), which is what the build can produce.
- **Not under src/:** `ares__open_connection`, `ares__close_connection`, `ares__check_cleanup_conn` and `ares_send` are modelled from spec.md 3-5. They are marked `spec_modelled` in the map. The spec does not say that closing a TCP connection empties the server's TCP buffers, so the model keeps them (see the findings).

### How AresConfigText and AresInit follow the code

**Strings are sequences of atoms.** An atom is one separator character
(space, `,`, `#`, `;`, `[`, `]`, `:`, `/`), a digit, or a whole word or address
literal. `Chars` gives each atom its width in characters and its first
character. A C pointer into the string becomes an index into the sequence:
- the `while (*p && ...) p++` loops are `Upto`;
- the length tests on `q - p` are `Width`;
- `config_lookup` looks only at a word's first character (`Ch`).

No concatenation of atoms spells another address, so an address is valid
exactly when its text is one address atom. This is how `ares_inet_pton` and
`ares_inet_net_pton` are modelled; both are outside src/ and marked
`spec_modelled`.

**Initialisation is a sequence of steps.** `pc` steps through the calls
`ares_init_options` makes, in its order, with its early exits:
- `ByEnvironment`: `init_by_environment` never fails (`set_search` swallows its allocation failure).
- `ByResolvConf`: its failure is only logged.
- `ByDefaults`: runs whatever happened before, and its status is overwritten.
- `ServersState`: the `ARES_FLAG_PRIMARY` trim, then `ares__init_servers_state`, whose status decides `done:`.

Every call that may allocate has an `ok` choice when `AllocFails` is TRUE:
- in resolv.conf, the failing line is `failAt`;
- in `init_by_defaults`, the failing allocation is one of `DefaultFailPoints`.

`init_by_resolv_conf` keeps the code's split of its results:
- the servers and sortlist go into locals, and reach the channel only at `ARES_EOF`;
- the domains, lookups and options are written to the channel line by line.

## Runs

| run | config | bounds | checks | result |
|---|---|---|---|---|
| lifecycle_faults | MCLifecycle.cfg | 1 query, 2 servers, 2 tries, 2 sockets, EDNS, socket() failing with ECONNREFUSED or ENOMEM, sendto() failing, kinds answer, truncated, refused, formerr, formerr_opt, mismatch, spoofed; both `ares_process_fd` and `ares_process`; `ares_cancel` | TypeOK, RegistryConsistent, QueryOnConnMatchesServer, SocketListFreed, ImplementsLifecycle (refinement with liveness) | pass, 11,754 states |
| udp_two_queries | MCUdp2.cfg | 2 queries, 2 servers, 2 tries, 3 sockets, udp_max_queries 2, sendto() failing, bursts of 2 datagrams, kinds answer and servfail | RegistryConsistent, QueryOnConnMatchesServer, ImplementsLifecycleSafety | pass, 16,658 states |
| edns_two_queries | MCEdns2.cfg | 2 queries, 2 servers, 1 try, 2 sockets, EDNS, answer/truncated/servfail/formerr | same | pass, 127,050 states |
| tcp_two_queries | MCTcp2.cfg | 2 queries over TCP (USEVC), 2 servers, 2 tries, bursts of 2 frames, kinds answer, notimp and truncated | RegistryConsistent, QueryOnConnMatchesServer, ImplementsLifecycleSafety | pass, 11,073 states |
| dangling_conn | MCDangling.cfg | 1 query, 2 servers, UDP | LiveQueryConnValid | violation: finding 1 |
| tcp_write_interest | MCTcpWatch.cfg | 2 queries, 1 server, TCP | PendingTcpDataWatched | violation: finding 2 |
| tcp_reconnect_retry | MCTcpRetry.cfg | 1 query, 1 server, 2 tries, TCP | TcpRetryAfterReconnect | violation: finding 3 |
| init_precedence | MCInitPrecedence.cfg | 3 option records (none; servers, lookups, ndots, timeout, tries; domains, sortlist, ROTATE, PRIMARY), 2 LOCALDOMAIN and 2 RES_OPTIONS values, 5 resolv.conf variants (good, bad lookup line, over-long sortlist item, missing, unreadable), 2 nsswitch.conf variants, 2 host names, 2 ares_set_sortlist strings | TypeOK, FillOnlyUnset | pass, 6,720 states |
| init_search_skip | MCInitSearchSkip.cfg | the same, with the good resolv.conf only | SearchFromResolvConf | violation: finding 4 |
| init_alloc_failure | MCInitAllocFail.cfg | the same, with allocation failures | InitResultUsable | violation: finding 5 |
| pure_operators | MCOperators.cfg | every netmask 0..130 against 2 bases with one byte changed to an edge value; every sortlist string of up to 5 atoms over 8; send times at sub-second edges × 8 timeouts around the 12-bit shift limit × tries 0..4 × 1 or 2 servers × 1 µs before, at and after the deadline | SubnetMatchesPrefix, SortlistGrammar, DeadlineExpiresOnTime | pass, 61,857 states |
| nameserver_grammar | MCNameserverGrammar.cfg | every nameserver string of up to 5 atoms over 8 | NameserverListGrammar | violation: finding 6 |

### Properties

`TypeOK` of `AresEngine` is checked once, in `lifecycle_faults`. The two-query runs check the properties that the interleaving of queries can break.

- **RegistryConsistent** (the indexes agree):
  - a query is live exactly when it is in `queries_by_timeout`, once;
  - that list is in deadline order;
  - connection lists hold live queries only, each on at most one open connection;
  - `server->connections` lists exactly the server's open sockets;
  - `tcp_conn` is the server's one TCP connection.
- **QueryOnConnMatchesServer:** a query on a connection's list was sent to that connection's server (the `assert` of `handle_error`), and its `query->conn` names that connection.
- **ImplementsLifecycle / ImplementsLifecycleSafety:** the refinement of `QueryLifecycle` under the identity mapping of `submitted` and `cb`. Each query gets exactly one callback, carrying an answer exactly on SUCCESS. With fairness, every query is eventually called back.
- **SocketListFreed:** every socket list `read_packets` takes is freed, so its early return (line 471) is never taken. That return would also leave the later readable sockets unread. It holds because reading one socket closes at most that socket: `handle_error` and `ares__check_cleanup_conn` act on the socket being read. A clean-up of the query's own connection instead of the answer's socket breaks it (the mutant `ProcessAnswerQueryConn`).
- **ImplementsLifecycle, with cancellation:** the lifecycle run lets the application cancel. A cancelled query is still called back exactly once, at its next expiry at the latest, however the EDNS fallback or the TC upgrade resent it.
- **LiveQueryConnValid, PendingTcpDataWatched, TcpRetryAfterReconnect:** the three properties the code violates. See the findings.
- **FillOnlyUnset** (an action property over every configuration step):
  - a step of the environment, resolv.conf or defaults never changes a field an earlier source set;
  - `rotate` is never changed once the caller chose `ARES_OPT_ROTATE` or `ARES_OPT_NOROTATE`.
- **SearchFromResolvConf:** when neither the caller nor LOCALDOMAIN gives search domains, a readable resolv.conf with a `domain` or `search` line gives them.
- **InitResultUsable:** a channel returned with SUCCESS has a server and a lookup order, and `ndomains` counts its domains.
- **SubnetMatchesPrefix:** `ares_ipv6_subnet_matches` (used by the IPv6 server blacklist) agrees with "the first netmask bits are equal".
- **SortlistGrammar:** a sortlist whose items all follow `ip`, `ip/bits` or `ip/mask` gives one pattern per item in order, and a bare IPv4 address gets its classful mask. `ClassfulMask` is the reference, written independently of `natural_mask`.
- **DeadlineExpiresOnTime:** the deadline `ares__send_query` stores (`timeadd` of the shifted timeout) is a normalised timeval, and `ares__timedout` reports it reached exactly from now + (timeout << shift) ms on. The shift is taken only when it stays below the sign bit of an int. The int width is 12 bits here, because TLC's integers are 32-bit; the test is the same formula at any width.
- **NameserverListGrammar:** `config_nameserver` gives one server per item of the form `addr`, `[addr]` or `[addr]:port` and skips the rest.

### Why the bounds suffice

The two-server, two-try configurations reach:
- every branch of `next_server`: wrap-around, a skipped server, a same-generation skip, and exhaustion;
- the timeout doubling of a second pass;
- socket reuse after close;
- `udp_max_queries` clean-up.

Two queries are needed, and suffice, for the interactions between queries:
- shared UDP sockets and the shared TCP send buffer;
- the channel-wide EDNS flag;
- requeueing one query while another is on the failing connection.

Each run keeps to the answer kinds its question needs. Without EDNS a FORMERR
is handled like an answer, and with single-datagram reads a spoofed datagram
is the same as none. The rcode kinds (`servfail`, `notimp`, `refused`) share
one branch of `process_answer`, so each run takes one of them. Only the
lifecycle run drives the channel through `ares_process` as well (`FdSets`).
Its two servers give `channel_socket_list` two sockets to walk, and a socket
closed by the write phase can still be in the read set. The liveness run has one query, because liveness checking
excludes symmetry.

The configuration runs enumerate every combination of their inputs. The
inputs are chosen so that each source both finds fields unset and finds
them set, each branch of the resolv.conf chain is taken, and each way the
file can end is reached: EOF, a line failing, a missing file and an
unreadable file. The nsswitch line names three sources, so the two-entry
bound of `config_lookup` is hit.

The text runs cover all strings up to their length over alphabets that
contain every separator the parser tests. In `pure_operators`, every IPv4
item fits `ipbuf[17]`. The 16-character `2001:db8:85a3::1` is left out of
that run: it fails at once (see the hazards).

### Fairness

`Spec` assumes weak fairness of `ProcessFd(SOCKET_BAD, SOCKET_BAD)` (the
embedder calls `ares_process_fd` once a deadline has passed, as its poll
timeout from `ares_timeout` makes it do) and of `Tick` (time advances).
The initialisation and parser runs check safety only and assume no
fairness: `ares_init_options` is a straight-line call, and its runs stop
at `done` (CHECK_DEADLOCK FALSE).

Nothing is assumed about the network. Reads and writes may never happen,
because servers may never answer.

## Findings

1. **Dangling `query->conn` (code bug).**
   - Trigger: a query times out on server A and moves to server B; then A's SERVFAIL arrives. The same happens when a truncated UDP answer arrives after the query has already switched to TCP.
   - `process_answer` unlinks the query from B's connection list (line 556) but does not requeue it (lines 617 and 588).
   - When B's connection later fails or is cleaned up, it is freed without the query being requeued.
   - At the deadline, `process_timeouts` reads `query->conn->fd` (line 507) from freed memory.
2. **TCP write interest lost (spec gap).** Suppose closing a connection keeps `tcp_send`, which spec.md does not rule out. Then requests left by a failed TCP connection make `ares__send_query` on the reopened connection skip `SOCK_STATE_CALLBACK(fd, 1, 1)` (line 764). The new socket is never watched for writes.
3. **No retry on a reopened TCP connection (spec/code divergence).**
   - ares_private.h:196-199 and spec.md 5 say a query is re-sent after the server closes the connection and it is reopened.
   - But `next_server` compares generations (line 699) before the lazy reopen.
   - So with one usable server, a TCP query whose connection fails is ended at once with ECONNREFUSED, though tries remain.
4. **`init_by_resolv_conf` skips the whole file once `ARES_CONFIG_CHECK` holds (spec/code divergence, ares_init.c:1190).**
   - Example: a caller who gives servers, lookups, ndots, timeout and tries.
   - For that caller, the resolv.conf `search`/`domain`, `sortlist` and `options rotate` are never read, although the caller left those fields unset.
   - spec.md says each lower-precedence source fills the fields still unset.
5. **A failed `init_by_defaults` is reported as success (code bug, ares_init.c:213-224).**
   - `ares_init_options` only logs the status of `init_by_defaults`, then overwrites it with that of `ares__init_servers_state`, which succeeds with zero servers.
   - The error path of `init_by_defaults` (1496-1515) has freed the servers and the lookups, the caller's included, and the domains, without resetting `ndomains`.
   - So an allocation failure there yields `ARES_SUCCESS` and a channel with no server or no lookup order.
6. **`[addr]` is refused and `[addr]:` is accepted (spec/code divergence, ares_init.c:1703-1712).**
   - After the `]`, `parse_dnsaddrport` reads the character past the item instead of the `:`, so `[10.0.0.1]` alone is EBADSTR and silently skipped.
   - The missing-port test is off by one, so `[10.0.0.1]:` is accepted with port 0.
   - spec.md and the comment at 1662-1668 list `[ipaddr]` as valid.

Two more divergences were seen while modelling but are not runs. They are
listed as hazards in PROJECT.json:
- A caller's explicit `ARES_OPT_NDOTS` of 0 is replaced by resolv.conf's `ndots` or the default 1, because 0 also means unset (1986, 1382).
- A valid IPv6 sortlist item of 16 or more characters fails the whole sortlist with EBADSTR (`ipbuf[17]`, 1862). Read from resolv.conf, this aborts the file and drops its nameservers.

## Not modelled (yet), and the plan

Done so far:
- the core engine, its abstract lifecycle and the refinement;
- the fd_set entry point `ares_process`, with `channel_socket_list` and the early `return` of `read_packets` (line 471);
- answer validation, as message kinds: the SERVFAIL, NOTIMP and REFUSED rcodes, FORMERR with and without an OPT RR, mismatched questions, and spoofed datagrams;
- channel initialisation and the configuration parsers;
- cancellation (`ares_cancel`, from spec.md 5) and `no_retries`;
- the time arithmetic;
- six findings.

Planned:
- **Re-entrant callbacks** (spec 9). A callback may call `ares_send` or `ares_cancel` on the channel. In the model, callbacks are recorded and do nothing. Only a re-entrant callback can close a socket other than the one `read_packets` is reading. So this is the only way line 471 becomes reachable. A callback that cancels while `read_packets` walks an fd_set would reach it. The cancel's sweep can end a query that has expired but not yet been swept, and `ares__check_cleanup_conn` then closes that query's UDP socket, which may come later in the list. This is listed as a hazard with no run, because the project has the maximum of 12 runs.

Cancellation follows the flow spec.md 5 describes: `no_retries` and the timeout path. Through that path, a cancelled query ends with its `error_status`, usually ETIMEOUT. The spec's error list also names ECANCELLED. Nothing under src/ produces that status, so the model does not either.

Accepted by design, and so not checked:
- **The rcode delivered after the channel-wide EDNS switch-off** (line 568). The spec (9) accepts that one FORMERR disables EDNS for the whole channel. A later answer from a server that did not reject EDNS is then taken as it comes. The hazard list records this.

Not modelled in `ares_init.c`:
- **`ares_dup`:** it copies through `ares_save_options`, which is outside src/.
- **`ares_set_local_ip4`/`ip6`/`dev`:** plain assignments that no property tells apart.
- **The allocations `ares_init_options` makes before the sources:** rand state and indexes. Their failure only returns ENOMEM before anything is configured.
- **The libresolv, Windows, Android and z/OS branches of `init_by_resolv_conf`.**
- **Port truncation:** `(unsigned short)atoi` turns a port above 65535 into a smaller one. It needs inputs longer than the nameserver run's.

Out of reach or out of scope:
- platform resolver discovery (Windows registry, Android, z/OS, sysconfig), which is pure operating-system I/O;
- the DNS wire parser, which is abstracted to message kinds;
- buffer bytes;
- random query ids.
