----------------------------- MODULE MCAresInit -----------------------------
(* Channel initialisation instantiated for TLC: small sets of caller       *)
(* options, environment values, resolver files and host names, written in  *)
(* the atoms of AresConfigText.                                            *)
EXTENDS AresInit

Sv(a, p) == [family |-> IF a \in V4 THEN "INET" ELSE "INET6", addr |-> a, port |-> p]

Opt(mask, nd, to, tr, sv, dm, lk, sl) ==
  [optmask |-> mask, ndots |-> nd, timeout |-> to, tries |-> tr, servers |-> sv,
   domains |-> dm, lookups |-> lk, sortlist |-> sl]

\* No options; everything ARES_CONFIG_CHECK looks at; search domains, a
\* sortlist and ARES_FLAG_PRIMARY.
NoOptions == Opt({}, 0, 0, 0, <<>>, <<>>, <<>>, <<>>)
FullOptions ==
  Opt({"NDOTS", "TIMEOUTMS", "TRIES", "SERVERS", "LOOKUPS"}, 2, 500, 2,
      <<Sv("192.168.1.10", 0)>>, <<>>, <<"b">>, <<>>)
DomainOptions ==
  Opt({"DOMAINS", "SORTLIST", "ROTATE", "PRIMARY"}, 0, 0, 0, <<>>, <<<<"x">>>>, <<>>,
      <<Pattern("INET", "MASK", "192.168.1.10", 0, "255.255.255.0")>>)
MCOptions == {NoOptions, FullOptions, DomainOptions}

MCLocalDomains == {<<>>, <<"example.com", " ", "x">>}
MCResOptions == {<<>>, <<"ndots:", "5", " ", "retry:", "0", " ", "rotate">>}

File(lines) == [errno |-> "none", lines |-> lines]
Missing == [errno |-> "ENOENT", lines |-> <<>>]
Unreadable == [errno |-> "EACCES", lines |-> <<>>]

NS1    == <<"nameserver", " ", "10.0.0.1">>
NS2    == <<"nameserver", " ", "[", "2001:db8::1", "]", ":", "5", "9", " ", "#", "x">>
Search == <<"search", " ", "example.com", ",", "x">>
OptsLn == <<" ", "options", " ", "ndots:", "0", " ", "retrans:", "9">>
SortLn == <<"sortlist", " ", "10.0.0.1", "/", "255.255.0.0", ";", "x">>
BadLookup == <<"lookup", " ", "x">>
LongSort  == <<"sortlist", " ", "2001:db8:85a3::1">>

\* A good file; one whose lookup line names no known source; one whose
\* sortlist item is too long for config_sortlist; none; unreadable.
MCResolvConfs ==
  {File(<<NS1, Search, NS2, OptsLn, SortLn>>), File(<<NS1, BadLookup, Search>>),
   File(<<Search, NS1, LongSort>>), Missing, Unreadable}

MCGoodConfs == {File(<<NS1, Search, NS2, OptsLn, SortLn>>)}
MCLookupFiles == {Missing, File(<<<<"hosts:", " ", "file", " ", "dns", " ", "file">>>>)}
MCHostDomains == {<<>>, <<"example.com">>}
MCSortStrings == {<<"::1", "/", "9", " ", "x">>, <<"x">>}

=============================================================================
