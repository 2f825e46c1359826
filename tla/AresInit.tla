------------------------------ MODULE AresInit ------------------------------
(***************************************************************************)
(* Channel initialisation, ares_init_options (ares_init.c): the            *)
(* configuration is filled from four sources, highest precedence first:   *)
(* the caller's options (ares__init_by_options), the environment           *)
(* (init_by_environment), the resolver files (init_by_resolv_conf) and the *)
(* built-in defaults (init_by_defaults); then ARES_FLAG_PRIMARY trims the  *)
(* servers and ares__init_servers_state sets up each server.  Each of      *)
(* these calls is one step; pc says which comes next.  The inputs (options, *)
(* environment, file contents, host name) are chosen in Init and kept in  *)
(* in.  Allocation failures are chosen where the code allocates.           *)
(*                                                                         *)
(* After a successful init the application may call ares_set_sortlist.    *)
(***************************************************************************)
EXTENDS AresConfigText, FiniteSets

CONSTANTS
  Options,       \* ares_options records the caller may pass
  LocalDomains,  \* getenv("LOCALDOMAIN"): strings, <<>> for unset
  ResOptions,    \* getenv("RES_OPTIONS")
  ResolvConfs,   \* /etc/resolv.conf: a sequence of lines, or an errno
  LookupFiles,   \* /etc/nsswitch.conf, host.conf, svc.conf: lines or ENOENT
  HostDomains,   \* what follows the first '.' of gethostname(), <<>> if none
  SortStrings,   \* strings the application passes to ares_set_sortlist
  AllocFails     \* whether ares_malloc / ares_realloc may return NULL

VARIABLES
  pc,   \* the next call of ares_init_options, "done" once it has returned
  in,   \* the inputs of this run
  ch,   \* the channel's configuration fields
  st,   \* status, the local variable of ares_init_options
  rc    \* what ares_init_options returned, "none" before

vars == <<pc, in, ch, st, rc>>

Loopback == [family |-> "INET", addr |-> "127.0.0.1", port |-> 0]
DEFAULT_TIMEOUT == 2000
DEFAULT_TRIES == 3
NAMESERVER_PORT == 53
EDNSPACKETSZ == 1280

\* The channel after memset(channel, 0, ...): every field unset.
EmptyChannel ==
  [timeout |-> 0, tries |-> 0, ndots |-> 0, rotate |-> FALSE, optmask |-> {},
   primary |-> FALSE, servers |-> <<>>, domains |-> <<>>, ndomains |-> 0,
   lookups |-> <<>>, sortlist |-> <<>>, udp_port |-> 0, tcp_port |-> 0,
   ednspsz |-> 0, serversReady |-> FALSE]

\* ARES_CONFIG_CHECK (ares_private.h): nothing more needs to be read.
ARES_CONFIG_CHECK(c) ==
  c.lookups # <<>> /\ c.servers # <<>> /\ c.ndots > 0 /\ c.timeout > 0 /\ c.tries > 0

(***************************************************************************)
(* ares__init_by_options (ares_options.c, outside src/): each field the    *)
(* optmask names is copied from the caller's options.                      *)
(***************************************************************************)
InitByOptions(o) ==
  LET m == o.optmask
  IN [EmptyChannel EXCEPT
        !.optmask  = m,
        !.ndots    = IF "NDOTS" \in m THEN o.ndots ELSE 0,
        !.timeout  = IF "TIMEOUTMS" \in m THEN o.timeout ELSE 0,
        !.tries    = IF "TRIES" \in m THEN o.tries ELSE 0,
        !.rotate   = "ROTATE" \in m,
        !.primary  = "PRIMARY" \in m,
        !.servers  = IF "SERVERS" \in m THEN o.servers ELSE <<>>,
        !.domains  = IF "DOMAINS" \in m THEN o.domains ELSE <<>>,
        !.ndomains = IF "DOMAINS" \in m THEN Len(o.domains) ELSE 0,
        !.lookups  = IF "LOOKUPS" \in m THEN o.lookups ELSE <<>>,
        !.sortlist = IF "SORTLIST" \in m THEN o.sortlist ELSE <<>>]

(***************************************************************************)
(* init_by_environment: LOCALDOMAIN gives the search domains unless some   *)
(* are set already; RES_OPTIONS goes through set_options.                  *)
(***************************************************************************)
InitByEnvironment(c, localdomain, res_options, ok) ==
  LET c1 == IF localdomain # <<>> /\ c.ndomains = 0
            THEN set_search(c, localdomain, ok) ELSE c
  IN set_options(c1, res_options)

(***************************************************************************)
(* init_by_resolv_conf, the file-based branch.  r holds the channel and    *)
(* the function's locals: the servers and sortlist read so far, which only *)
(* reach the channel once every line has been read, and the status.  The  *)
(* other fields (domains, lookups, options) are written to the channel     *)
(* line by line.  Line failAt is the one whose allocation fails.           *)
(***************************************************************************)
\* The status and channel (or local list) a configuration call leaves.
WithCh(r, x) == [r EXCEPT !.ch = x.ch, !.status = x.status]
WithServers(r, x) == [r EXCEPT !.servers = x.servers, !.status = x.status]
WithSortlist(r, x) == [r EXCEPT !.sortlist = x.sortlist, !.status = x.status]

\* The if/else-if chain of the read loop over the values try_config found
\* for each keyword (<<>> where the line is not that keyword's).
ResolvChain(r, dm, lk, se, ns, sl, op, upd, ok) ==
  IF dm # <<>> /\ upd THEN [r EXCEPT !.ch = config_domain(r.ch, dm, ok)]
  ELSE IF lk # <<>> /\ r.ch.lookups = <<>>
    THEN WithCh(r, config_lookup(r.ch, lk, "b", "b", "f", ok))
  ELSE IF se # <<>> /\ upd THEN [r EXCEPT !.ch = set_search(r.ch, se, ok)]
  ELSE IF ns # <<>> /\ r.ch.servers = <<>>
    THEN WithServers(r, config_nameserver(r.servers, ns, ok))
  ELSE IF sl # <<>> /\ "SORTLIST" \notin r.ch.optmask
    THEN WithSortlist(r, config_sortlist(sl, ok))
  ELSE IF op # <<>> THEN [r EXCEPT !.ch = set_options(r.ch, op)]
  ELSE r

ResolvLine(r, line, upd, ok) ==
  ResolvChain(r, try_config(line, "domain", ";"), try_config(line, "lookup", ";"),
              try_config(line, "search", ";"), try_config(line, "nameserver", ";"),
              try_config(line, "sortlist", ";"), try_config(line, "options", ";"), upd, ok)

\* while (ares__read_line(...) == ARES_SUCCESS) { ...; if (status) break; }
RECURSIVE ReadResolvConf(_, _, _, _, _)
ReadAfter(r2, lines, i, upd, failAt) ==
  IF r2.status # "SUCCESS" THEN r2 ELSE ReadResolvConf(r2, lines, i + 1, upd, failAt)
ReadResolvConf(r, lines, i, upd, failAt) ==
  IF i > Len(lines) THEN [r EXCEPT !.status = "EOF"]
  ELSE ReadAfter(ResolvLine([r EXCEPT !.status = "SUCCESS"], lines[i], upd, i # failAt),
                 lines, i, upd, failAt)

\* The fall-back files for the lookup order, read while the status is EOF
\* and no lookup order is set: config_lookup's errors are ignored there.
LookupLine(c, p, chs) ==
  IF p # <<>> /\ c.lookups = <<>> THEN config_lookup(c, p, chs[1], chs[2], chs[3], TRUE).ch ELSE c

RECURSIVE LookupLines(_, _, _, _)
LookupLines(c, lines, opt, chs) ==
  IF lines = <<>> THEN c
  ELSE LookupLines(LookupLine(c, try_config(Head(lines), opt, NUL), chs), Tail(lines), opt, chs)

LookupFallback(c, status, file, opt, chs) ==
  IF status = "EOF" /\ c.lookups = <<>> /\ file.errno = "none"
  THEN LookupLines(c, file.lines, opt, chs) ELSE c

ResolvConfResult(r1, c3) ==
  IF r1.status # "EOF" THEN [ch |-> c3, status |-> r1.status]
  ELSE [ch |-> [c3 EXCEPT
                  !.servers  = IF r1.servers # <<>> THEN r1.servers ELSE @,
                  !.sortlist = IF r1.sortlist # <<>> THEN r1.sortlist ELSE @],
        status |-> "SUCCESS"]

\* After the read: the lookup fall-backs, then "Handle errors" (the local
\* servers and sortlist are dropped) or the fill-in of those found.
ResolvConfDone(r1, files) ==
  LET c1 == LookupFallback(r1.ch, r1.status, files.nsswitch, "hosts:", <<"d", "r", "f">>)
      c2 == LookupFallback(c1, r1.status, files.hostconf, "order", <<"b", "b", "h">>)
  IN ResolvConfResult(r1, LookupFallback(c2, r1.status, files.svcconf, "hosts=", <<"b", "b", "l">>))

InitByResolvConf(c, conf, files, failAt) ==
  LET r0 == [ch |-> c, servers |-> <<>>, sortlist |-> <<>>, status |-> "SUCCESS"]
  IN IF ARES_CONFIG_CHECK(c) THEN [ch |-> c, status |-> "SUCCESS"]
     ELSE ResolvConfDone(
            IF conf.errno = "none"
            THEN ReadResolvConf(r0, conf.lines, 1, c.ndomains = 0, failAt)
            ELSE [r0 EXCEPT !.status = IF conf.errno = "ENOENT" THEN "EOF" ELSE "EFILE"],
            files)

(***************************************************************************)
(* init_by_defaults: every field still unset gets its default.  fail names *)
(* the allocation that fails, "none" if none does; on failure the error    *)
(* path frees the servers, the search domains and the lookup order (and    *)
(* sets nservers to 0, but not ndomains).                                  *)
(***************************************************************************)
DefaultFailPoints(c, hostdom) ==
  {"none"}
  \cup (IF c.servers = <<>> THEN {"servers"} ELSE {})
  \cup (IF c.ndomains = 0 THEN {"hostname"} ELSE {})
  \cup (IF c.ndomains = 0 /\ hostdom # <<>> THEN {"domains", "strdup"} ELSE {})
  \cup (IF c.lookups = <<>> THEN {"lookups"} ELSE {})

InitByDefaults(c, hostdom, fail) ==
  LET Or0(v, d) == IF v = 0 THEN d ELSE v
      c1 == [c EXCEPT !.timeout  = Or0(@, DEFAULT_TIMEOUT),
                      !.tries    = Or0(@, DEFAULT_TRIES),
                      !.ndots    = Or0(@, 1),
                      !.udp_port = Or0(@, NAMESERVER_PORT),
                      !.tcp_port = Or0(@, NAMESERVER_PORT),
                      !.ednspsz  = Or0(@, EDNSPACKETSZ),
                      !.servers  = IF @ = <<>> THEN <<Loopback>> ELSE @,
                      !.domains  = IF c.ndomains = 0 THEN hostdom ELSE @,
                      !.ndomains = IF @ = 0 THEN Len(hostdom) ELSE @,
                      !.lookups  = IF @ = <<>> THEN <<"f", "b">> ELSE @]
      \* goto error stops the function where the allocation failed
      c2 == CASE fail = "servers" -> [c1 EXCEPT !.servers = c.servers, !.domains = c.domains,
                                          !.ndomains = c.ndomains, !.lookups = c.lookups]
              [] fail \in {"hostname", "domains", "strdup"} ->
                                         [c1 EXCEPT !.domains = c.domains,
                                          !.ndomains = c.ndomains, !.lookups = c.lookups]
              [] OTHER -> [c1 EXCEPT !.lookups = c.lookups]
  IN IF fail = "none" THEN [ch |-> c1, status |-> "SUCCESS"]
     ELSE [ch |-> [c2 EXCEPT !.servers = <<>>, !.domains = <<>>, !.lookups = <<>>],
           status |-> "ENOMEM"]

(***************************************************************************)
(* The steps of ares_init_options.                                         *)
(***************************************************************************)
FileInputs == [nsswitch : LookupFiles, hostconf : LookupFiles, svcconf : LookupFiles]

Init ==
  /\ pc = "options"
  /\ in \in [opts : Options, localdomain : LocalDomains, res_options : ResOptions,
             conf : ResolvConfs, files : FileInputs, hostdom : HostDomains]
  /\ ch = EmptyChannel
  /\ st = "SUCCESS"
  /\ rc = "none"

Oks == IF AllocFails THEN BOOLEAN ELSE {TRUE}

\* The channel and status a configuration source leaves.
Leaves(r) == ch' = r.ch /\ st' = r.status

\* ares__init_by_options; a failure there would end the init at once.
ByOptions ==
  /\ pc = "options"
  /\ ch' = InitByOptions(in.opts)
  /\ pc' = "environment"
  /\ UNCHANGED <<in, st, rc>>

\* init_by_environment; its status decides whether resolv.conf is read,
\* and it is always SUCCESS (set_search and set_options never fail).
ByEnvironment ==
  /\ pc = "environment"
  /\ \E ok \in Oks : ch' = InitByEnvironment(ch, in.localdomain, in.res_options, ok)
  /\ st' = "SUCCESS"
  /\ pc' = "resolv_conf"
  /\ UNCHANGED <<in, rc>>

\* init_by_resolv_conf: its failure is only logged.
ByResolvConf ==
  /\ pc = "resolv_conf"
  /\ \E failAt \in IF AllocFails THEN 0..Len(in.conf.lines) ELSE {0} :
       Leaves(InitByResolvConf(ch, in.conf, in.files, failAt))
  /\ pc' = "defaults"
  /\ UNCHANGED <<in, rc>>

\* init_by_defaults, whatever happened before; its status is only logged.
ByDefaults ==
  /\ pc = "defaults"
  /\ \E fail \in IF AllocFails THEN DefaultFailPoints(ch, in.hostdom) ELSE {"none"} :
       Leaves(InitByDefaults(ch, in.hostdom, fail))
  /\ pc' = "servers_state"
  /\ UNCHANGED <<in, rc>>

\* The ARES_FLAG_PRIMARY trim, then ares__init_servers_state, whose status
\* is the one ares_init_options returns; on failure (done:) the channel is
\* freed.  A server's buffers and lists are allocated one after another.
ServersState ==
  /\ pc = "servers_state"
  /\ LET c == IF ch.primary /\ Len(ch.servers) > 1
              THEN [ch EXCEPT !.servers = <<ch.servers[1]>>] ELSE ch
     IN \E ok \in IF c.servers = <<>> THEN {TRUE} ELSE Oks :
          IF ok THEN ch' = [c EXCEPT !.serversReady = TRUE] /\ st' = "SUCCESS" /\ rc' = "SUCCESS"
          ELSE ch' = EmptyChannel /\ st' = "ENOMEM" /\ rc' = "ENOMEM"
  /\ pc' = "done"
  /\ UNCHANGED in

SortlistSet(c, r) ==
  IF r.status = "SUCCESS" /\ r.sortlist # <<>> THEN [c EXCEPT !.sortlist = r.sortlist] ELSE c

\* ares_set_sortlist on an initialised channel: the sortlist is replaced
\* only by a successfully parsed, non-empty one.
SetSortlist(s) ==
  /\ pc = "done" /\ rc = "SUCCESS"
  /\ \E ok \in Oks : ch' = SortlistSet(ch, config_sortlist(s, ok))
  /\ UNCHANGED <<pc, in, st, rc>>

Next ==
  \/ ByOptions \/ ByEnvironment \/ ByResolvConf \/ ByDefaults \/ ServersState
  \/ \E s \in SortStrings : SetSortlist(s)

Spec == Init /\ [][Next]_vars

-----------------------------------------------------------------------------
(***************************************************************************)
(* Properties.                                                             *)
(***************************************************************************)
Server == [family : {"INET", "INET6"}, addr : V4 \cup V6 \cup {"127.0.0.1"}, port : 0..65535]

TypeOK ==
  /\ pc \in {"options", "environment", "resolv_conf", "defaults", "servers_state", "done"}
  /\ rc \in {"none", "SUCCESS", "ENOMEM"}
  /\ st \in {"SUCCESS", "EOF", "EFILE", "EBADSTR", "ENOMEM", "ENOTINITIALIZED"}
  /\ \A i \in 1..Len(ch.servers) : ch.servers[i] \in Server
  /\ ch.lookups \in Seq({"b", "f"}) /\ Len(ch.lookups) <= 2
  /\ ch.ndomains \in Nat /\ ch.timeout \in Nat /\ ch.tries \in Nat /\ ch.ndots \in Nat

\* The fields a lower-precedence source may fill, and whether each holds a
\* value: ares_init.c takes 0, NULL and an empty list to mean "not given".
Given(c) ==
  [timeout |-> c.timeout # 0, tries |-> c.tries # 0, ndots |-> c.ndots # 0,
   servers |-> c.servers # <<>>, domains |-> c.ndomains # 0,
   lookups |-> c.lookups # <<>>, sortlist |-> c.sortlist # <<>>]

\* Precedence (spec.md 3, "Configuration precedence"): init_by_environment,
\* init_by_resolv_conf and init_by_defaults only fill fields that are
\* still unset, and leave a rotate setting the caller gave alone.  Every
\* guard of set_options, of the resolv.conf line chain and of
\* init_by_defaults takes part.
FillOnlyUnset ==
  [][(pc \in {"environment", "resolv_conf", "defaults"}) =>
       (\A f \in DOMAIN Given(ch) : Given(ch)[f] => ch'[f] = ch[f])
       /\ (ch.optmask \cap {"ROTATE", "NOROTATE"} # {} => ch'.rotate = ch.rotate)]_vars

\* The search domains the resolver file gives: those of its last "domain"
\* or "search" line.
RECURSIVE FileDomains(_)
FileDomains(lines) ==
  IF lines = <<>> THEN <<>>
  ELSE LET l  == lines[Len(lines)]
           dm == try_config(l, "domain", ";")
           se == try_config(l, "search", ";")
       IN IF dm # <<>> THEN config_domain(EmptyChannel, dm, TRUE).domains
          ELSE IF se # <<>> THEN set_search(EmptyChannel, se, TRUE).domains
          ELSE FileDomains(SubSeq(lines, 1, Len(lines) - 1))

\* Precedence for the search domains: when neither the caller nor
\* LOCALDOMAIN gives any, the channel uses those of resolv.conf.  The
\* ARES_CONFIG_CHECK shortcut of init_by_resolv_conf skips the file as soon
\* as servers, lookups, ndots, timeout and tries are set.
SearchFromResolvConf ==
  (pc = "done" /\ rc = "SUCCESS" /\ "DOMAINS" \notin in.opts.optmask
   /\ in.localdomain = <<>> /\ in.conf.errno = "none" /\ FileDomains(in.conf.lines) # <<>>)
  => ch.domains = FileDomains(in.conf.lines)

\* A channel ares_init_options returns with ARES_SUCCESS is usable: it has
\* a server and a lookup order, and ndomains counts the search domains it
\* holds ("No matter what failed or succeeded, seed defaults").
InitResultUsable ==
  (pc = "done" /\ rc = "SUCCESS") =>
    /\ ch.servers # <<>>
    /\ ch.lookups # <<>>
    /\ ch.ndomains = Len(ch.domains)

=============================================================================
