----------------------------- MODULE AresEngine -----------------------------
(***************************************************************************)
(* The c-ares query engine of src/src/lib/ares_process.c: dispatching a    *)
(* query to a server over UDP or TCP (ares__send_query), rotating through  *)
(* servers (next_server, skip_server), tearing down a failed connection    *)
(* and requeueing its queries (handle_error), reading UDP datagrams and    *)
(* TCP frames (read_udp_packets_fd, read_tcp_data), validating an answer   *)
(* (process_answer: EDNS fallback, TC upgrade, rcode filtering), flushing  *)
(* the TCP send buffer (write_tcp_data) and expiring deadlines             *)
(* (process_timeouts).                                                     *)
(*                                                                         *)
(* The library is single threaded and every entry point runs to           *)
(* completion, so each entry point is ONE action.  Its nested calls are    *)
(* operators from a channel record to a channel record, composed in the   *)
(* order the C code makes them.  Where a call meets the environment       *)
(* (whether socket() or sendto() fails) the operator yields the set of     *)
(* channels it may leave; what arrives on a socket is an input chosen with *)
(* \E by the action.                                                       *)
(*                                                                         *)
(* Socket opening, closing and idle clean-up (ares__open_connection,       *)
(* ares__close_connection, ares__check_cleanup_conn) and query submission  *)
(* (ares_send) are not in src/; they are modelled from spec.md.            *)
(***************************************************************************)
EXTENDS Integers, Sequences, FiniteSets, SequencesExt, AresTime

CONSTANTS
  Queries,        \* query handles submitted by the application; each has its own qid
  NServers,       \* channel->nservers
  Tries,          \* channel->tries
  Timeout,        \* channel->timeout, in abstract time units
  UdpMaxQueries,  \* channel->udp_max_queries (0 = unlimited)
  Fds,            \* socket numbers the process can hold (socket() fails beyond)
  Flags,          \* subset of {"EDNS","IGNTC","NOCHECKRESP","USEVC"}
  OpenErrors,     \* failures ares__open_connection may return
  UdpWriteFails,  \* whether sendto() on a UDP socket may fail
  Kinds,          \* kinds of answer a server may send
  MaxBurst,       \* most datagrams/frames delivered by one readiness event
  IntBits,        \* width of int in the overflow check of the timeout shift
  FdSets,         \* whether the application also drives the channel with ares_process
  Cancels         \* whether the application may cancel its queries (ares_cancel)

Servers == 0 .. NServers - 1
SOCKET_BAD == -1                                   \* ARES_SOCKET_BAD
NoConn == 0                  \* query->conn == NULL
Freed == -2                  \* query->conn points to a freed connection
Retryable == {"ECONNREFUSED", "EBADFAMILY"}
Statuses == {"SUCCESS", "ECONNREFUSED", "EBADFAMILY", "ENOMEM",
             "ETIMEOUT", "ESERVFAIL", "ENOTIMP", "EREFUSED"}
\* The response codes process_answer discards, and the error_status each
\* leaves on the query.
RcodeStatus == [servfail |-> "ESERVFAIL", notimp |-> "ENOTIMP", refused |-> "EREFUSED"]

ASSUME NServers >= 1 /\ Tries >= 1 /\ Timeout >= 1 /\ UdpMaxQueries \in Nat
ASSUME Fds \subseteq Nat \ {0} /\ Fds # {}
ASSUME Flags \subseteq {"EDNS", "IGNTC", "NOCHECKRESP", "USEVC"}
ASSUME OpenErrors \subseteq Retryable \cup {"ENOMEM"}
\* formerr is a FORMERR without an OPT RR, formerr_opt one with it (has_opt_rr);
\* mismatch is a message that does not parse or whose question section
\* differs from the request's (same_questions); spoofed a datagram from an
\* address other than the server's (same_address).
ASSUME Kinds \subseteq {"answer", "truncated", "servfail", "notimp", "refused",
                        "formerr", "formerr_opt", "mismatch", "spoofed"}

VARIABLES
  submitted,  \* queries ares_send has been called for
  live,       \* all_queries / queries_by_qid: queries not yet ended
  qs,         \* struct query: try_count, server, skip_server, using_tcp, error_status,
              \* conn, no_retries; sameGen[s] is "server_info[s].tcp_connection_generation
              \* equals server s's current one" (the only use of the numbers)
  byTimeout,  \* queries_by_timeout, in skiplist order
  dl,         \* query->timeout, as time left until the deadline (0 = expired)
  onConn,     \* conn->queries_to_conn for every socket number
  open,       \* connnode_by_socket: sockets of live connections
  cinfo,      \* struct server_connection per socket number
  sconns,     \* server->connections
  tcpConn,    \* server->tcp_conn (a socket number or SOCKET_BAD)
  tcpSend,    \* server->tcp_send, as the queries whose requests it holds
  edns,       \* channel->flags & ARES_FLAG_EDNS
  cb,         \* callbacks made for each query: <<[status, answer]>>
  xmit,       \* requests the server has received on each live socket
  wantWrite,  \* what sock_state_cb last told the application about writes
  socketLists \* arrays channel_socket_list allocated and read_packets has not freed

vars == <<submitted, live, qs, byTimeout, dl, onConn, open, cinfo, sconns,
          tcpConn, tcpSend, edns, cb, xmit, wantWrite, socketLists>>

Pack == [submitted |-> submitted, live |-> live, qs |-> qs,
         byTimeout |-> byTimeout, dl |-> dl, onConn |-> onConn, open |-> open,
         cinfo |-> cinfo, sconns |-> sconns, tcpConn |-> tcpConn,
         tcpSend |-> tcpSend, edns |-> edns, cb |-> cb, xmit |-> xmit, wantWrite |-> wantWrite,
         socketLists |-> socketLists]

Unpack(st) ==
  /\ submitted' = st.submitted /\ live' = st.live /\ qs' = st.qs
  /\ byTimeout' = st.byTimeout /\ dl' = st.dl /\ onConn' = st.onConn
  /\ open' = st.open /\ cinfo' = st.cinfo /\ sconns' = st.sconns
  /\ tcpConn' = st.tcpConn /\ tcpSend' = st.tcpSend /\ edns' = st.edns /\ cb' = st.cb /\ xmit' = st.xmit
  /\ wantWrite' = st.wantWrite /\ socketLists' = st.socketLists

-----------------------------------------------------------------------------
(* Connections.                                                            *)

\* struct server_connection: its server, is_tcp and total_queries (the
\* socket number indexes cinfo; queries_to_conn is onConn).
ConnRecord == [server : Servers, tcp : BOOLEAN, total : Nat]

\* struct query with its query_server_info vector: what decides where and
\* how it is sent next.  qid, deadline (dl), buffers and callback are not
\* here; conn is a socket number, NoConn or Freed.
QueryRecord ==
  [try : 0 .. NServers * Tries - 1, server : Servers,
   skip : [Servers -> BOOLEAN], sameGen : [Servers -> BOOLEAN],
   tcp : BOOLEAN, err : Statuses, conn : Fds \cup {NoConn, Freed},
   noRetries : BOOLEAN]

FreeConn == [server |-> 0, tcp |-> FALSE, total |-> 0]

\* ares__open_connection (spec 3, 4.2, 5): the lowest free socket number;
\* a UDP connection goes to the front of the server's list, TCP to the back
\* and takes a new channel-wide generation number, which no query has
\* recorded for the server yet.
OpenConnection(st, s, isTcp) ==
  LET f == Min(Fds \ st.open) IN
  [st EXCEPT !.open = @ \cup {f},
             !.cinfo[f] = [server |-> s, tcp |-> isTcp, total |-> 0],
             !.sconns[s] = IF isTcp THEN Append(@, f) ELSE <<f>> \o @,
             !.tcpConn[s] = IF isTcp THEN f ELSE @,
             !.qs = IF isTcp THEN [q \in Queries |-> [@[q] EXCEPT !.sameGen[s] = FALSE]]
                    ELSE @,
             !.onConn[f] = <<>>, !.xmit[f] = {}, !.wantWrite[f] = FALSE]

\* ares__close_connection (spec 3, 4.3): unlinked from the socket table and
\* the server, and freed: a query->conn still naming it now dangles.  The
\* server's TCP buffers are not mentioned and are kept.
CloseConnection(st, f) ==
  LET s == st.cinfo[f].server IN
  [st EXCEPT !.open = @ \ {f}, !.sconns[s] = Remove(@, f),
             !.tcpConn[s] = IF @ = f THEN SOCKET_BAD ELSE @,
             !.cinfo[f] = FreeConn, !.onConn[f] = <<>>, !.xmit[f] = {},
             !.wantWrite[f] = FALSE,
             !.qs = [q \in Queries |-> IF @[q].conn = f
                                       THEN [@[q] EXCEPT !.conn = Freed]
                                       ELSE @[q]]]

\* ares__check_cleanup_conn (spec 5): a UDP socket with no queries left that
\* has reached udp_max_queries is closed.
CheckCleanupConn(st, f) ==
  IF /\ f \in st.open /\ st.onConn[f] = <<>> /\ ~st.cinfo[f].tcp
     /\ UdpMaxQueries > 0 /\ st.cinfo[f].total >= UdpMaxQueries
  THEN CloseConnection(st, f) ELSE st

\* A query as ares_send creates it: server 0 (no rotation), error_status
\* ECONNREFUSED (spec 3, 4.3); also the value of a freed query.
NewQueryState ==
  [try |-> 0, server |-> 0, skip |-> [s \in Servers |-> FALSE],
   sameGen |-> [s \in Servers |-> FALSE], tcp |-> "USEVC" \in Flags,
   err |-> "ECONNREFUSED", conn |-> NoConn,
   noRetries |-> FALSE]

-----------------------------------------------------------------------------
(* Query bookkeeping.                                                      *)

\* ares__llist_node_destroy(query->node_queries_to_conn)
DetachFromConn(st, q) == [st EXCEPT !.onConn = [f \in Fds |-> Remove(@[f], q)]]

\* end_query / ares_detach_query: out of every index, then the callback;
\* ares__free_query frees it.
EndQuery(st, q, status, answered) ==
  [DetachFromConn(st, q) EXCEPT
     !.live = @ \ {q}, !.byTimeout = Remove(@, q),
     !.qs[q] = NewQueryState, !.dl[q] = 0,
     !.cb[q] = Append(@, [status |-> status, answer |-> answered])]

\* skip_server: only when there is another server to use.
SkipServer(st, q, s) ==
  IF NServers > 1 THEN [st EXCEPT !.qs[q].skip[s] = TRUE] ELSE st

\* The channel timeout doubled once per pass over the servers, unless the
\* bits shifted out would reach the sign bit of an int.
TimePlus(try) == TimeShift(Timeout, try, NServers, IntBits)

\* ares__slist_insert ordered by deadline, after entries with an equal one.
InsertByDeadline(seq, q, d, deadline) ==
  InsertAt(seq, Len(SelectSeq(seq, LAMBDA x : deadline[x] <= d)) + 1, q)

\* A slip in ares__send_query: query->conn not updated to the new connection.
EnqueuedKeepConn(st, q, f) ==
  LET d == TimePlus(st.qs[q].try) IN
  [DetachFromConn(st, q) EXCEPT
     !.byTimeout = InsertByDeadline(Remove(@, q), q, d, st.dl),
     !.dl[q] = d, !.onConn[f] = Append(@, q), !.cinfo[f].total = @ + 1]

\* A slip in ares__send_query: the old queries_to_conn node not destroyed.
EnqueuedNoDetach(st, q, f) ==
  LET d == TimePlus(st.qs[q].try) IN
  [st EXCEPT
     !.byTimeout = InsertByDeadline(Remove(@, q), q, d, st.dl),
     !.dl[q] = d, !.onConn[f] = Append(@, q), !.qs[q].conn = f,
     !.cinfo[f].total = @ + 1]

\* The common tail of ares__send_query once the request is on connection f:
\* new deadline, move to f's query list, count the query on f.
Enqueued(st, q, f) ==
  LET d == TimePlus(st.qs[q].try) IN
  [DetachFromConn(st, q) EXCEPT
     !.byTimeout = InsertByDeadline(Remove(@, q), q, d, st.dl),
     !.dl[q] = d,
     !.onConn[f] = Append(@, q),
     !.qs[q].conn = f,
     !.cinfo[f].total = @ + 1]

\* The front connection of the server, if it is UDP and below its quota.
UdpReusable(st, s) ==
  IF st.sconns[s] = <<>> THEN SOCKET_BAD
  ELSE LET f == Head(st.sconns[s]) IN
       IF st.cinfo[f].tcp \/ (UdpMaxQueries > 0 /\ st.cinfo[f].total >= UdpMaxQueries)
       THEN SOCKET_BAD ELSE f

\* Appending the length-prefixed request to the server's TCP send buffer;
\* the application is told to watch for writes only if it was empty.
SendTcp(st, q, s) ==
  LET f == st.tcpConn[s] IN
  Enqueued([st EXCEPT !.tcpSend[s] = Append(@, q),
                      !.wantWrite[f] = IF st.tcpSend[s] = <<>> THEN TRUE ELSE @,
                      !.qs[q].sameGen[s] = TRUE], q, f)

\* From here on a call that may meet the environment (socket(), sendto(),
\* a read of freed memory) yields the SET of channels it may leave behind.
Bind(S, F(_)) == UNION {F(x) : x \in S}

\* What ares__open_connection may return: no free socket number is
\* ECONNREFUSED, otherwise success or one of the failures configured.
OpenResults(st) == IF Fds \subseteq st.open THEN {"ECONNREFUSED"}
                   ELSE {"SUCCESS"} \cup OpenErrors

\* What ares__socket_write may do with a UDP request.
WriteResults == IF UdpWriteFails THEN {"OK", "FAIL"} ELSE {"OK"}

RECURSIVE SendQuery(_, _), NextServer(_, _)

\* A slip in next_server: the attempt bound compared with <=.
NextServerOffByOne(st, q) ==
  LET t   == st.qs[q].try + 1
      n   == (st.qs[q].server + 1) % NServers
      st1 == [st EXCEPT !.qs[q].try = t, !.qs[q].server = n]
  IN IF t <= NServers * Tries /\ ~st.qs[q].noRetries
     THEN IF ~st.qs[q].skip[n] /\ ~(st.qs[q].tcp /\ st.qs[q].sameGen[n])
          THEN SendQuery(st1, q) ELSE NextServer(st1, q)
     ELSE {EndQuery([st EXCEPT !.qs[q].try = t], q, st.qs[q].err, FALSE)}

\* next_server: advance through the servers until one is neither skipped
\* nor the TCP connection the request already went out on; give up after
\* nservers * tries attempts with the query's error_status.
NextServer(st, q) ==
  LET t   == st.qs[q].try + 1
      n   == (st.qs[q].server + 1) % NServers
      st1 == [st EXCEPT !.qs[q].try = t, !.qs[q].server = n]
  IN IF t < NServers * Tries /\ ~st.qs[q].noRetries
     THEN IF ~st.qs[q].skip[n] /\ ~(st.qs[q].tcp /\ st.qs[q].sameGen[n])
          THEN SendQuery(st1, q)
          ELSE NextServer(st1, q)
     ELSE {EndQuery([st EXCEPT !.qs[q].try = t], q, st.qs[q].err, FALSE)}

\* A failed ares__open_connection: server-specific errors move on, any
\* other error ends the query.
OpenFailed(st, q, s, status) ==
  IF status \in Retryable THEN NextServer(SkipServer(st, q, s), q)
  ELSE {EndQuery(st, q, status, FALSE)}

\* Writing the UDP payload; a failed write skips the server.
SendUdp(st, q, s, f) ==
  Bind(WriteResults, LAMBDA w :
         IF w = "FAIL" THEN NextServer(SkipServer(st, q, s), q)
         ELSE {Enqueued([st EXCEPT !.xmit[f] = @ \cup {q}], q, f)})

\* ares__send_query
SendQuery(st, q) ==
  LET s == st.qs[q].server IN
  IF st.qs[q].tcp
  THEN IF st.tcpConn[s] # SOCKET_BAD THEN {SendTcp(st, q, s)}
       ELSE Bind(OpenResults(st), LAMBDA o :
              IF o = "SUCCESS" THEN {SendTcp(OpenConnection(st, s, TRUE), q, s)}
              ELSE OpenFailed(st, q, s, o))
  ELSE IF UdpReusable(st, s) # SOCKET_BAD THEN SendUdp(st, q, s, UdpReusable(st, s))
       ELSE Bind(OpenResults(st), LAMBDA o :
              IF o = "SUCCESS"
              THEN LET st1 == OpenConnection(st, s, FALSE)
                   IN SendUdp(st1, q, s, Head(st1.sconns[s]))
              ELSE OpenFailed(st, q, s, o))

-----------------------------------------------------------------------------
(* Handling what arrives.                                                  *)

\* handle_error: steal the query list, close the connection, then skip the
\* server for, and requeue, every query that was on it.
HandleError(st, f) ==
  LET s == st.cinfo[f].server IN
  FoldLeft(LAMBDA acc, q : Bind(acc, LAMBDA x : NextServer(SkipServer(x, q, s), q)),
           {CloseConnection(st, f)}, st.onConn[f])

\* The checks process_answer and read_udp_packets_fd make on a message,
\* by the kind that stands for their outcome.  same_questions (with the
\* parse and the qid lookup before it): the message parses, is for a live
\* query and repeats its question section.
SameQuestions(st, m) == m.q \in st.live /\ m.kind # "mismatch"

\* A FORMERR with no OPT RR (has_opt_rr false) to a request sent while the
\* channel had EDNS on.
EdnsRejected(st, m) == st.edns /\ m.kind = "formerr"

\* same_address: the datagram came from the server's address.
SameAddress(m) == m.kind # "spoofed"

\* process_answer from the moment the query is found: it leaves its
\* connection's list, then EDNS fallback, TC upgrade, rcode filtering or
\* end_query.  An answer from a server the query has since moved away from
\* (s # query->server) is filtered without moving the query on.
AnswerOutcomes(st, f, m, isTcp) ==
  LET q   == m.q
      s   == st.cinfo[f].server
      st1 == DetachFromConn(st, q)
  IN CASE EdnsRejected(st, m) ->
            SendQuery([st1 EXCEPT !.edns = FALSE], q)
       [] m.kind = "truncated" /\ ~isTcp /\ "IGNTC" \notin Flags ->
            IF st.qs[q].tcp THEN {st1}
            ELSE SendQuery([st1 EXCEPT !.qs[q].tcp = TRUE], q)
       [] m.kind \in DOMAIN RcodeStatus /\ "NOCHECKRESP" \notin Flags ->
            LET st2 == SkipServer([st1 EXCEPT !.qs[q].err = RcodeStatus[m.kind]], q, s)
            IN IF st2.qs[q].server = s THEN NextServer(st2, q) ELSE {st2}
       [] OTHER -> {EndQuery(st1, q, "SUCCESS", TRUE)}

\* A slip in process_answer: no queries_by_qid lookup, so an answer for a
\* query that has already ended is processed again.
ProcessAnswerNoLookup(st, f, m, isTcp) ==
  IF m.kind = "mismatch" THEN {st}
  ELSE {CheckCleanupConn(x, f) : x \in AnswerOutcomes(st, f, m, isTcp)}

\* A slip in process_answer: the connection cleaned up is the one the
\* query was filed on, not the socket the answer arrived on.
ProcessAnswerQueryConn(st, f, m, isTcp) ==
  IF ~SameQuestions(st, m) THEN {st}
  ELSE {CheckCleanupConn(x, st.qs[m.q].conn) : x \in AnswerOutcomes(st, f, m, isTcp)}

\* process_answer for a message m = [q, kind] that arrived on socket f;
\* ares__check_cleanup_conn on f closes it.  A message that does not parse,
\* is for a query no longer live (the qid lookup fails) or asks another
\* question is dropped.
ProcessAnswer(st, f, m, isTcp) ==
  IF ~SameQuestions(st, m) THEN {st}
  ELSE {CheckCleanupConn(x, f) : x \in AnswerOutcomes(st, f, m, isTcp)}

\* read_udp_packets_fd: process datagrams while the socket is still in the
\* socket table; the read that ends the loop either would block or fails.
RECURSIVE ReadUdp(_, _, _, _)
ReadUdp(st, f, ds, final) ==
  IF ds = <<>>
  THEN IF final = "ERROR" THEN HandleError(st, f) ELSE {st}
  ELSE Bind(IF ~SameAddress(Head(ds)) THEN {st}
            ELSE ProcessAnswer(st, f, Head(ds), FALSE),
            LAMBDA x : IF f \in x.open THEN ReadUdp(x, f, Tail(ds), final) ELSE {x})

\* read_tcp_data: one recv(); EOF or a hard error fails the connection,
\* otherwise every complete frame is processed in stream order.
ReadTcp(st, f, rd) ==
  CASE rd.res = "EAGAIN" -> {st}
    [] rd.res \in {"EOF", "ERROR"} -> HandleError(st, f)
    [] rd.res = "DATA" ->
         FoldLeft(LAMBDA acc, m : Bind(acc, LAMBDA x : ProcessAnswer(x, f, m, TRUE)),
                  {st}, rd.frames)

\* write_tcp_data for write_fd: the server whose TCP connection it is, if
\* that server has data queued, gets one send(); wr is what send()
\* returned, in whole requests; 0 stands for a would-block error and -1
\* for a hard one.
TcpServerOf(st, f) == {s \in Servers : st.tcpConn[s] = f /\ st.tcpSend[s] # <<>>}

WriteTcpData(st, f, wr) ==
  IF f = SOCKET_BAD \/ TcpServerOf(st, f) = {} THEN {st}
  ELSE LET s   == CHOOSE s \in TcpServerOf(st, f) : TRUE
           buf == st.tcpSend[s]
       IN CASE wr = 0 -> {st}
            [] wr = -1 -> HandleError(st, f)
            [] wr > 0 ->
                 {[st EXCEPT !.xmit[f] = @ \cup ToSet(SubSeq(buf, 1, wr)),
                             !.tcpSend[s] = SubSeq(buf, wr + 1, Len(buf)),
                             !.wantWrite[f] = IF wr = Len(buf) THEN FALSE ELSE @]}

\* Reading the connection of socket f, by its transport.
ReadConn(st, f, rd) ==
  IF st.cinfo[f].tcp THEN ReadTcp(st, f, rd) ELSE ReadUdp(st, f, rd.frames, rd.res)

\* read_packets for read_fd: nothing if it is not in connnode_by_socket.
ReadPackets(st, f, rd) ==
  IF f = SOCKET_BAD \/ f \notin st.open THEN {st} ELSE ReadConn(st, f, rd)

\* The socket number process_timeouts reads through query->conn: freed
\* memory when that connection has been closed, which may hold any number.
ConnFd(st, q) == IF st.qs[q].conn = Freed THEN Fds \cup {SOCKET_BAD}
                 ELSE {st.qs[q].conn}

\* process_timeouts: every query at the head of the deadline order whose
\* deadline has passed counts a timeout and moves to the next server; the
\* connection it was on may then be cleaned up.
RECURSIVE ProcessTimeouts(_)

\* A slip in process_timeouts: the request is resent to the same server
\* without next_server, so try_count never advances.
ProcessTimeoutsResend(st) ==
  IF st.byTimeout = <<>> \/ st.dl[Head(st.byTimeout)] > 0 THEN {st}
  ELSE LET q == Head(st.byTimeout) IN
       Bind(SendQuery([st EXCEPT !.qs[q].err = "ETIMEOUT"], q),
            LAMBDA x : ProcessTimeouts(x))

ProcessTimeouts(st) ==
  IF st.byTimeout = <<>> \/ st.dl[Head(st.byTimeout)] > 0 THEN {st}
  ELSE LET q == Head(st.byTimeout) IN
       Bind(ConnFd(st, q), LAMBDA fd :
         Bind(NextServer([st EXCEPT !.qs[q].err = "ETIMEOUT"], q),
              LAMBDA x : ProcessTimeouts(CheckCleanupConn(x, fd))))

-----------------------------------------------------------------------------
(* What a server may send back on socket f: an answer of any kind to any   *)
(* request it received there, at any time and any number of times.         *)

Messages(st, f) ==
  [q : st.xmit[f], kind : IF st.cinfo[f].tcp THEN Kinds \ {"spoofed"} ELSE Kinds]

Bursts(st, f) == UNION {[1 .. n -> Messages(st, f)] : n \in 1 .. MaxBurst}

\* What one send() on write_fd may return.
WriteInputs(st, f) ==
  IF f = SOCKET_BAD \/ TcpServerOf(st, f) = {} THEN {0}
  ELSE -1 .. Len(st.tcpSend[CHOOSE s \in TcpServerOf(st, f) : TRUE])

\* What reading read_fd may find: for TCP one recv() that would block,
\* reports EOF or an error, or holds some complete frames; for UDP some
\* datagrams, then a recvfrom() that would block or fails.
ReadInputs(st, f) ==
  IF f = SOCKET_BAD \/ f \notin st.open THEN {[res |-> "EAGAIN", frames |-> <<>>]}
  ELSE IF st.cinfo[f].tcp
       THEN [res : {"EAGAIN", "EOF", "ERROR"}, frames : {<<>>}]
              \cup [res : {"DATA"}, frames : Bursts(st, f)]
       ELSE [res : {"EAGAIN", "ERROR"},
             frames : UNION {[1 .. n -> Messages(st, f)] : n \in 0 .. MaxBurst}]

-----------------------------------------------------------------------------
(* ares_process: the same steps driven by fd_sets.  The sets are consumed  *)
(* as the code goes (FD_CLR), so a socket number handled once is not       *)
(* handled again in the same call.                                         *)

\* write_tcp_data over write_fds: the servers in index order, each with
\* queued data whose TCP socket is still in the set gets one send().
RECURSIVE WriteTcpServers(_, _, _)
WriteTcpServers(st, W, i) ==
  IF i = NServers THEN {st}
  ELSE LET f == st.tcpConn[i] IN
       IF st.tcpSend[i] = <<>> \/ f = SOCKET_BAD \/ f \notin W
       THEN WriteTcpServers(st, W, i + 1)
       ELSE Bind(-1 .. Len(st.tcpSend[i]), LAMBDA wr :
              Bind(WriteTcpData(st, f, wr), LAMBDA x : WriteTcpServers(x, W \ {f}, i + 1)))

\* channel_socket_list: the sockets of every server's connection list,
\* servers in index order.
ChannelSocketList(st) ==
  FoldLeft(LAMBDA l, i : l \o st.sconns[i - 1], <<>>, [i \in 1 .. NServers |-> i])

\* One turn of the loop of read_packets over the socket list, on the set of
\* [st, R, done] it may have reached (R is what is left of read_fds): a
\* socket in R is cleared from it and looked up; one no longer in
\* connnode_by_socket makes read_packets return at once, without
\* ares_free(socketlist) and without looking at the sockets after it.
ReadListedSocket(acc, fd) ==
  UNION {IF a.done \/ fd \notin a.R THEN {a}
         ELSE IF fd \notin a.st.open THEN {[a EXCEPT !.done = TRUE]}
         ELSE {[st |-> x, R |-> a.R \ {fd}, done |-> FALSE] :
                 x \in UNION {ReadConn(a.st, fd, rd) : rd \in ReadInputs(a.st, fd)}} :
           a \in acc}

\* read_packets with read_fds: the socket list is taken after the writes,
\* walked, and freed when the walk completes.  When channel_socket_list
\* cannot allocate or grow the list it returns NULL with no sockets, and
\* nothing is read.
ReadPacketsSet(st, R) ==
  {st} \cup
  {IF a.done THEN a.st ELSE [a.st EXCEPT !.socketLists = @ - 1] :
     a \in FoldLeft(ReadListedSocket,
                    {[st |-> [st EXCEPT !.socketLists = @ + 1], R |-> R, done |-> FALSE]},
                    ChannelSocketList(st))}

-----------------------------------------------------------------------------
(* Initial state: ares_init_options with nservers servers, no queries.     *)

Init ==
  /\ submitted = {}
  /\ live = {}
  /\ qs = [q \in Queries |-> NewQueryState]
  /\ byTimeout = <<>>
  /\ dl = [q \in Queries |-> 0]
  /\ onConn = [f \in Fds |-> <<>>]
  /\ open = {}
  /\ cinfo = [f \in Fds |-> FreeConn]
  /\ sconns = [s \in Servers |-> <<>>]
  /\ tcpConn = [s \in Servers |-> SOCKET_BAD]
  /\ tcpSend = [s \in Servers |-> <<>>]
  /\ edns = ("EDNS" \in Flags)
  /\ cb = [q \in Queries |-> <<>>]
  /\ xmit = [f \in Fds |-> {}]
  /\ wantWrite = [f \in Fds |-> FALSE]
  /\ socketLists = 0

-----------------------------------------------------------------------------
(* Actions: the library's entry points.                                    *)

\* ares_send: the query enters all_queries and queries_by_qid, starts at
\* server 0 (no rotation) with error_status ECONNREFUSED, and is sent.
Submit(q) ==
  /\ q \notin submitted
  /\ \E st \in SendQuery([Pack EXCEPT !.submitted = @ \cup {q}, !.live = @ \cup {q},
                                      !.qs[q] = NewQueryState], q) :
       Unpack(st)

\* ares_process_fd(channel, read_fd, write_fd) / processfds: write_tcp_data,
\* then read_packets, then process_timeouts.  The application passes a
\* socket it polls as readable, a socket it was asked to watch for writes,
\* or ARES_SOCKET_BAD for either.
ProcessFd(rf, wf) ==
  /\ rf \in open \cup {SOCKET_BAD}
  /\ wf \in {f \in open : wantWrite[f]} \cup {SOCKET_BAD}
  /\ \E wr \in WriteInputs(Pack, wf) : \E x \in WriteTcpData(Pack, wf, wr) :
       \E rd \in ReadInputs(x, rf) : \E y \in ReadPackets(x, rf, rd) :
         \E z \in ProcessTimeouts(y) : Unpack(z)

\* ares_process(channel, read_fds, write_fds) / processfds: the application
\* passes the sockets select() found readable among those it watches, and
\* the writable ones among those it was asked to watch for writes.
ProcessFds(R, W) ==
  /\ R \subseteq open /\ W \subseteq {f \in open : wantWrite[f]}
  /\ \E x \in WriteTcpServers(Pack, W, 0) : \E y \in ReadPacketsSet(x, R) :
       \E z \in ProcessTimeouts(y) : Unpack(z)

\* ares_cancel (not in src/; spec.md 5, "Cancellation and timeouts"): every
\* query of all_queries gets no_retries, then a timeout sweep runs at once.
\* A query whose deadline has not passed ends at its next expiry, when
\* next_server sees no_retries and ends it with its error_status.
Cancel ==
  /\ live # {}
  /\ \E z \in ProcessTimeouts([Pack EXCEPT
                                 !.qs = [q \in Queries |->
                                          IF q \in live THEN [@[q] EXCEPT !.noRetries = TRUE]
                                          ELSE @[q]]]) :
       Unpack(z)

\* Time passes.
Tick ==
  /\ \E q \in live : dl[q] > 0
  /\ dl' = [q \in Queries |-> IF q \in live /\ dl[q] > 0 THEN dl[q] - 1 ELSE dl[q]]
  /\ UNCHANGED <<submitted, live, qs, byTimeout, onConn, open, cinfo, sconns,
                 tcpConn, tcpSend, edns, cb, xmit, wantWrite, socketLists>>

Next ==
  \/ \E q \in Queries : Submit(q)
  \/ \E rf, wf \in Fds \cup {SOCKET_BAD} : ProcessFd(rf, wf)
  \/ FdSets /\ \E R, W \in SUBSET Fds : ProcessFds(R, W)
  \/ Cancels /\ Cancel
  \/ Tick

\* The application calls ares_process_fd when a deadline passes, and time
\* advances; reads and writes are not assumed to ever happen.
Spec == Init /\ [][Next]_vars /\ WF_vars(ProcessFd(SOCKET_BAD, SOCKET_BAD)) /\ WF_vars(Tick)

-----------------------------------------------------------------------------
(* Properties.                                                             *)

TypeOK ==
  /\ submitted \subseteq Queries /\ live \subseteq submitted
  /\ qs \in [Queries -> QueryRecord]
  /\ cinfo \in [Fds -> ConnRecord]
  /\ byTimeout \in Seq(Queries) /\ dl \in [Queries -> Nat]
  /\ onConn \in [Fds -> Seq(Queries)] /\ open \subseteq Fds
  /\ sconns \in [Servers -> Seq(Fds)]
  /\ tcpConn \in [Servers -> Fds \cup {SOCKET_BAD}]
  /\ tcpSend \in [Servers -> Seq(Queries)]
  /\ edns \in BOOLEAN
  /\ cb \in [Queries -> Seq([status : Statuses, answer : BOOLEAN])]
  /\ xmit \in [Fds -> SUBSET Queries] /\ wantWrite \in [Fds -> BOOLEAN]
  /\ socketLists \in Nat

\* The channel's indexes agree (spec 3): a query is live exactly when it is
\* in queries_by_timeout, once, and that list is in deadline order; the
\* queries_to_conn lists hold live queries only, each on at most one list
\* of an open connection; server->connections lists exactly the server's
\* open sockets; tcp_conn is the server's one open TCP connection.  Every
\* entry point (ares__send_query, handle_error, process_answer's
\* detach-then-requeue, end_query, close) must keep all of these in step.
RegistryConsistent ==
  /\ IsInjective(byTimeout) /\ ToSet(byTimeout) = live
  /\ \A i \in 1 .. Len(byTimeout) - 1 : dl[byTimeout[i]] <= dl[byTimeout[i + 1]]
  /\ \A f \in Fds :
       /\ IsInjective(onConn[f]) /\ ToSet(onConn[f]) \subseteq live
       /\ f \notin open => onConn[f] = <<>>
  /\ \A f, g \in Fds : f # g => ToSet(onConn[f]) \cap ToSet(onConn[g]) = {}
  /\ \A s \in Servers :
       /\ IsInjective(sconns[s])
       /\ ToSet(sconns[s]) = {f \in open : cinfo[f].server = s}
       /\ {f \in open : cinfo[f].server = s /\ cinfo[f].tcp} =
            IF tcpConn[s] = SOCKET_BAD THEN {} ELSE {tcpConn[s]}

\* handle_error asserts (ares_process.c:651) that every query it takes off a
\* failed connection was sent to that connection's server; more, such a
\* query's query->conn names that connection.  A late answer from a server
\* the query has moved away from must not leave it filed wrongly.
QueryOnConnMatchesServer ==
  \A f \in open : \A q \in ToSet(onConn[f]) :
     qs[q].conn = f /\ cinfo[f].server = qs[q].server

\* A live query's query->conn never names a closed connection:
\* process_timeouts dereferences it (query->conn->fd, ares_process.c:507)
\* when the query's deadline passes.
LiveQueryConnValid ==
  \A q \in live : qs[q].conn # Freed

\* read_packets frees the socket list it took (ares_process.c:484): its
\* early return (:471), taken when a listed socket in read_fds is no longer
\* in connnode_by_socket, leaks the list and leaves the later readable
\* sockets unread.  Nothing the engine does while reading one socket may
\* close another socket of the list: handle_error and
\* ares__check_cleanup_conn must only ever close the socket being read.
SocketListFreed == socketLists = 0

\* A request waiting in a server's TCP send buffer is one the application
\* has been asked (sock_state_cb, write = 1) to report writability for;
\* otherwise ares_process_fd is never called to flush it.
PendingTcpDataWatched ==
  \A s \in Servers : tcpConn[s] # SOCKET_BAD /\ tcpSend[s] # <<>> =>
                      wantWrite[tcpConn[s]]

\* When handle_error tears down a TCP connection, a query on it that still
\* has attempts left and has skipped no server is sent again, not ended:
\* the per-server generation exists so that "if the server closes on us
\* and we re-open the connection, then we do want to re-send"
\* (ares_private.h:196-199; spec.md 5, "Resource policy").
TcpRetryAfterReconnect ==
  [][\A q \in live :
       LET f == qs[q].conn IN
       ( /\ f \in open /\ cinfo[f].tcp /\ q \in ToSet(onConn[f]) /\ f \notin open'
         /\ qs[q].try + 1 < NServers * Tries /\ \A s \in Servers : ~qs[q].skip[s] )
       => q \in live']_vars

\* Refinement mapping: the abstract queries are those ares_send took, and the
\* abstract callbacks are the calls end_query made to query->callback.
QL == INSTANCE QueryLifecycle
        WITH Queries <- Queries, Statuses <- Statuses,
             submitted <- submitted, cb <- cb

\* The engine implements the query lifecycle of QueryLifecycle: each query
\* ares_send accepted is called back once (end_query, whichever of an
\* answer, a timeout, a connection error or an exhausted retry count comes
\* first), with an answer exactly on ARES_SUCCESS.
ImplementsLifecycleSafety == QL!SafetySpec

\* ... and, with process_timeouts run whenever a deadline has passed, every
\* query is eventually called back: next_server bounds the attempts by
\* nservers * tries and each attempt has a deadline.
ImplementsLifecycle == QL!Spec

=============================================================================
