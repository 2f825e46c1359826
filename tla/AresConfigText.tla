--------------------------- MODULE AresConfigText ---------------------------
(***************************************************************************)
(* The text parsers of ares_init.c: the RES_OPTIONS / "options" parser     *)
(* (set_options, try_option), the resolv.conf line matcher (try_config),   *)
(* config_lookup, config_domain, the nameserver string parser              *)
(* (parse_dnsaddrport, config_nameserver) with the IPv6 blacklist, and     *)
(* the sortlist parser (config_sortlist, ip_addr, natural_mask).           *)
(*                                                                         *)
(* A string is a sequence of atoms.  An atom is one character (space,      *)
(* separators, brackets, digits, "x" for any other letter) or one whole    *)
(* word or address literal, such as "10.0.0.1" or "nameserver".  Every     *)
(* character the C code stops at is an atom of its own, so each pointer    *)
(* the code moves lies on an atom boundary, and a pointer is an index into *)
(* the sequence.  Chars gives each atom's length in characters and its     *)
(* first character, which is all the code looks at inside an atom.         *)
(* Indexes past the end read the terminating NUL.                          *)
(***************************************************************************)
EXTENDS Integers, Sequences, SequencesExt, Bitwise, TLC

NUL == "NUL"
NULL == 0             \* a NULL char pointer, as an index

\* Each atom: its length in characters and its first character.
Chars ==
  [a \in {" ", ",", "#", ";", "[", "]", ":", "/", "0", "5", "9", "x"} |->
     [w |-> 1, c |-> a]]
  @@ ("10.0.0.1" :> [w |-> 8, c |-> "1"]) @@ ("192.168.1.10" :> [w |-> 12, c |-> "1"])
  @@ ("255.255.0.0" :> [w |-> 11, c |-> "2"]) @@ ("2001:db8::1" :> [w |-> 11, c |-> "2"])
  @@ ("::1" :> [w |-> 3, c |-> ":"]) @@ ("2001:db8:85a3::1" :> [w |-> 16, c |-> "2"])
  @@ ("fec0::1" :> [w |-> 7, c |-> "f"]) @@ ("example.com" :> [w |-> 11, c |-> "e"])
  @@ ("ndots:" :> [w |-> 6, c |-> "n"]) @@ ("retrans:" :> [w |-> 8, c |-> "r"])
  @@ ("retry:" :> [w |-> 6, c |-> "r"]) @@ ("rotate" :> [w |-> 6, c |-> "r"])
  @@ ("domain" :> [w |-> 6, c |-> "d"]) @@ ("lookup" :> [w |-> 6, c |-> "l"])
  @@ ("search" :> [w |-> 6, c |-> "s"]) @@ ("nameserver" :> [w |-> 10, c |-> "n"])
  @@ ("sortlist" :> [w |-> 8, c |-> "s"]) @@ ("options" :> [w |-> 7, c |-> "o"])
  @@ ("bind" :> [w |-> 4, c |-> "b"]) @@ ("file" :> [w |-> 4, c |-> "f"])
  @@ ("hosts:" :> [w |-> 6, c |-> "h"]) @@ ("dns" :> [w |-> 3, c |-> "d"])
  @@ ("order" :> [w |-> 5, c |-> "o"]) @@ ("hosts=" :> [w |-> 6, c |-> "h"])

Atoms == DOMAIN Chars
Digit == ("0" :> 0) @@ ("5" :> 5) @@ ("9" :> 9)
HexChars == {"0", "1", "2", "5", "9", "a", "b", "c", "d", "e", "f"}

At(s, i) == IF i \in 1..Len(s) THEN s[i] ELSE NUL
Ch(s, i) == IF At(s, i) = NUL THEN NUL ELSE Chars[At(s, i)].c
ISSPACE(a) == a = " "

\* Characters between pointers i (included) and j (excluded): q - p in C.
RECURSIVE Width(_, _, _)
Width(s, i, j) == IF i >= j THEN 0 ELSE Chars[At(s, i)].w + Width(s, i + 1, j)

\* The first index at or after i whose atom is NUL or satisfies Stop: the
\* "while (*p && !stop(*p)) p++" loops of the code.
Upto(s, i, Stop(_)) ==
  LET j == SelectInSubSeq(s, i, Len(s), Stop)
  IN IF j = 0 THEN Len(s) + 1 ELSE j

SkipSpace(s, i) == Upto(s, i, LAMBDA a : ~ISSPACE(a))

\* strtoul(val, NULL, 10): leading white space, then decimal digits.
RECURSIVE DecFrom(_, _, _)
DecFrom(s, i, acc) ==
  IF At(s, i) \in DOMAIN Digit THEN DecFrom(s, i + 1, 10 * acc + Digit[At(s, i)])
  ELSE acc
strtoul(s, i) == DecFrom(s, SkipSpace(s, i), 0)

(***************************************************************************)
(* try_option and set_options: the channel fields an option may set are    *)
(* those of the record c (ndots, timeout, tries, rotate, optmask).         *)
(***************************************************************************)
try_option(s, p, q, opt) ==
  IF Width(s, p, q) >= Chars[opt].w /\ At(s, p) = opt THEN p + 1 ELSE NULL

\* Mutant: the ndots option overrides a value already set.
SetOptionAnyNdots(c, s, p, q) ==
  LET nd == try_option(s, p, q, "ndots:")
  IN IF nd # NULL THEN [c EXCEPT !.ndots = strtoul(s, nd)] ELSE c

\* One token [p, q) of set_options, applied to the channel c.
SetOption(c, s, p, q) ==
  LET nd == try_option(s, p, q, "ndots:")
      rt == try_option(s, p, q, "retrans:")
      ry == try_option(s, p, q, "retry:")
      ro == try_option(s, p, q, "rotate")
      c1 == IF nd # NULL /\ c.ndots = 0 THEN [c EXCEPT !.ndots = strtoul(s, nd)] ELSE c
      c2 == IF rt # NULL /\ c1.timeout = 0 THEN [c1 EXCEPT !.timeout = strtoul(s, rt)] ELSE c1
      c3 == IF ry # NULL /\ c2.tries = 0 THEN [c2 EXCEPT !.tries = strtoul(s, ry)] ELSE c2
  IN IF ro # NULL /\ c3.optmask \cap {"ROTATE", "NOROTATE"} = {}
     THEN [c3 EXCEPT !.rotate = TRUE] ELSE c3

RECURSIVE SetOptionsFrom(_, _, _)
SetOptionsFrom(c, s, p) ==
  IF At(s, p) = NUL THEN c
  ELSE LET q == Upto(s, p, ISSPACE)
       IN SetOptionsFrom(SetOption(c, s, p, q), s, SkipSpace(s, q))

set_options(c, s) == SetOptionsFrom(c, s, 1)

(***************************************************************************)
(* try_config: the value of a configuration line for option opt, with '#'  *)
(* and scc (NUL for none) as comment characters.  The code truncates the   *)
(* line in place and returns a pointer into it; the model returns the      *)
(* truncated rest of the line, and <<>> for NULL (a value is never empty). *)
(***************************************************************************)
OptEndsWithSep == {"hosts:", "hosts="}   \* option names ending in ':' or '='

try_config(s, opt, scc) ==
  LET e == Upto(s, 1, LAMBDA a : a = "#" \/ a = scc)
      k == SelectLastInSubSeq(s, 1, e - 1, LAMBDA a : ~ISSPACE(a))
      t == SubSeq(s, 1, k)                      \* comment and trailing space cut
      p == SkipSpace(t, 1)
  IN IF At(t, p) = NUL \/ At(t, p) # opt \/ At(t, p + 1) = NUL
        \/ (opt \notin OptEndsWithSep /\ ~ISSPACE(At(t, p + 1)))
     THEN <<>>
     ELSE LET v == SkipSpace(t, p + 1)
          IN IF At(t, v) = NUL THEN <<>> ELSE SubSeq(t, v, Len(t))

\* ares__strsplit(str, ", ", &cnt) (ares__addrinfo / ares_strsplit.c): the
\* non-empty pieces between commas and spaces.
RECURSIVE StrSplit(_, _)
StrSplit(s, p) ==
  LET b == Upto(s, p, LAMBDA a : ~(ISSPACE(a) \/ a = ","))
      e == Upto(s, b, LAMBDA a : ISSPACE(a) \/ a = ",")
  IN IF At(s, b) = NUL THEN <<>> ELSE <<SubSeq(s, b, e - 1)>> \o StrSplit(s, e)

\* set_search: the search domains become the pieces of str; when the split
\* fails to allocate (ok FALSE) they become none, and it still succeeds.
set_search(c, str, ok) ==
  LET d == IF ok THEN StrSplit(str, 1) ELSE <<>>
  IN [c EXCEPT !.domains = d, !.ndomains = Len(d)]

\* config_domain: a single search domain, the value up to the first space.
config_domain(c, str, ok) ==
  set_search(c, SubSeq(str, 1, Upto(str, 1, ISSPACE) - 1), ok)

(***************************************************************************)
(* config_lookup: the first character of each word chooses 'b' (bindch or  *)
(* altbindch) or 'f' (filech); at most two are kept, others are ignored.   *)
(* Without any, the status is ENOTINITIALIZED and lookups stays unset.     *)
(***************************************************************************)
IsSep(a) == ISSPACE(a) \/ a = ","

RECURSIVE LookupFrom(_, _, _, _, _, _)

\* Mutant: the bound on lookups[] is off by one (l <= lookups + 2).
LookupFromNoBound(s, p, l, bch, abch, fch) ==
  IF At(s, p) = NUL THEN l
  ELSE LET ch == Ch(s, p)
           l2 == IF ch \in {bch, abch, fch} /\ Len(l) <= 2
                 THEN Append(l, IF ch \in {bch, abch} THEN "b" ELSE "f") ELSE l
           nx == Upto(s, Upto(s, p, IsSep), LAMBDA a : ~IsSep(a))
       IN LookupFrom(s, nx, l2, bch, abch, fch)

LookupFrom(s, p, l, bch, abch, fch) ==
  IF At(s, p) = NUL THEN l
  ELSE LET ch == Ch(s, p)
           l2 == IF ch \in {bch, abch, fch} /\ Len(l) < 2
                 THEN Append(l, IF ch \in {bch, abch} THEN "b" ELSE "f") ELSE l
           nx == Upto(s, Upto(s, p, IsSep), LAMBDA a : ~IsSep(a))
       IN LookupFrom(s, nx, l2, bch, abch, fch)

config_lookup(c, str, bch, abch, fch, ok) ==
  LET l == LookupFrom(str, 1, <<>>, bch, abch, fch)
  IN IF l = <<>> THEN [status |-> "ENOTINITIALIZED", ch |-> c]
     ELSE IF ~ok THEN [status |-> "ENOMEM", ch |-> c]
     ELSE [status |-> "SUCCESS", ch |-> [c EXCEPT !.lookups = l]]

(***************************************************************************)
(* Addresses.  ares_inet_pton (outside src/) accepts a text that is exactly *)
(* one address literal of the family asked for.  Bytes6 gives the network  *)
(* bytes of the IPv6 literals.                                             *)
(***************************************************************************)
V4 == {"10.0.0.1", "192.168.1.10", "255.255.0.0"}
V6 == {"2001:db8::1", "::1", "2001:db8:85a3::1", "fec0::1"}
Z(n) == [i \in 1..n |-> 0]
Bytes6 ==
  ("2001:db8::1" :> <<32, 1, 13, 184>> \o Z(11) \o <<1>>)
  @@ ("::1" :> Z(15) \o <<1>>)
  @@ ("2001:db8:85a3::1" :> <<32, 1, 13, 184, 133, 163>> \o Z(9) \o <<1>>)
  @@ ("fec0::1" :> <<254, 192>> \o Z(13) \o <<1>>)

ares_inet_pton(family, t) ==
  Len(t) = 1 /\ t[1] \in (IF family = "INET" THEN V4 ELSE V6)

\* Mutant: the partial byte is shifted one bit too far.
SubnetMaskShiftOff(netmask) ==
  [i \in 1..16 |-> IF i - 1 < netmask \div 8 THEN 255
                   ELSE IF i - 1 = netmask \div 8 /\ netmask % 8 # 0
                        THEN (255 * 2^(7 - (netmask % 8))) % 256
                        ELSE 0]

\* The netmask bytes ares_ipv6_subnet_matches builds: netmask / 8 bytes of
\* 0xFF, then 0xff << (8 - netmask % 8) cut to an unsigned char.
SubnetMask(netmask) ==
  [i \in 1..16 |-> IF i - 1 < netmask \div 8 THEN 255
                   ELSE IF i - 1 = netmask \div 8 /\ netmask % 8 # 0
                        THEN (255 * 2^(8 - (netmask % 8))) % 256
                        ELSE 0]

ares_ipv6_subnet_matches(netbase, netmask, ipaddr) ==
  /\ netmask <= 128
  /\ LET m == SubnetMask(netmask)
     IN \A i \in 1..16 : (netbase[i] & m[i]) = (ipaddr[i] & m[i])

\* fec0::/10, deprecated site-local addresses, are never used as servers.
Blacklist == << [netbase |-> <<254, 192>> \o Z(14), netmask |-> 10] >>

ares_ipv6_server_blacklisted(ipaddr) ==
  \E i \in 1..Len(Blacklist) :
    ares_ipv6_subnet_matches(Blacklist[i].netbase, Blacklist[i].netmask, ipaddr)

(***************************************************************************)
(* parse_dnsaddrport: the token of s from index b to e - 1 (len characters) *)
(* is "ipaddr", "[ipaddr]" or "[ipaddr]:port".  The code reads the         *)
(* character after ']' even when ']' ends the token; that is s[e], the     *)
(* character after the token in the whole string.                          *)
(***************************************************************************)
INET6_ADDRSTRLEN == 46
BadStr == [status |-> "EBADSTR"]

AddrPort(s, as, ae, ps, pe) ==                  \* addr [as, ae), port [ps, pe)
  LET addr == SubSeq(s, as, ae - 1)
      port == IF ps = NULL THEN 0 ELSE DecFrom(s, ps, 0) % 65536
  IN IF Width(s, as, ae) + 1 > INET6_ADDRSTRLEN THEN BadStr
     ELSE IF ps # NULL /\ Width(s, ps, pe) + 1 > 6 THEN BadStr
     ELSE IF ares_inet_pton("INET", addr)
       THEN [status |-> "SUCCESS", family |-> "INET", addr |-> addr[1], port |-> port]
     ELSE IF ares_inet_pton("INET6", addr) /\ ~ares_ipv6_server_blacklisted(Bytes6[addr[1]])
       THEN [status |-> "SUCCESS", family |-> "INET6", addr |-> addr[1], port |-> port]
     ELSE BadStr

parse_dnsaddrport(s, b, e) ==
  LET len == Width(s, b, e)
      r   == SelectInSubSeq(s, b + 1, e - 1, LAMBDA a : a = "]")
  IN IF len = 0 \/ Ch(s, b) \notin {"[", ":"} \cup HexChars THEN BadStr
     ELSE IF At(s, b) # "[" THEN AddrPort(s, b, e, NULL, NULL)
     ELSE IF r = 0 THEN BadStr
     ELSE IF ~(Width(s, b, r) < len) THEN AddrPort(s, b + 1, r, NULL, NULL)
     ELSE IF At(s, r + 1) # ":" THEN BadStr
     ELSE IF Width(s, b, r + 1) = len THEN BadStr
     ELSE AddrPort(s, b + 1, r, r + 2, e)

(***************************************************************************)
(* config_nameserver: the servers of a list separated by commas or spaces, *)
(* appended to servers.  A token that does not parse is skipped.  ok FALSE *)
(* makes the first ares_realloc of the servers array fail.                 *)
(***************************************************************************)
RECURSIVE NameserversFrom(_, _, _, _)
NameserversFrom(servers, s, p, ok) ==
  LET b == Upto(s, p, LAMBDA a : ~IsSep(a))
      e == Upto(s, b, IsSep)
      h == parse_dnsaddrport(s, b, e)
  IN IF At(s, b) = NUL THEN [status |-> "SUCCESS", servers |-> servers]
     ELSE IF h.status # "SUCCESS" THEN NameserversFrom(servers, s, e, ok)
     ELSE IF ~ok THEN [status |-> "ENOMEM", servers |-> servers]
     ELSE NameserversFrom(Append(servers, [family |-> h.family, addr |-> h.addr,
                                           port |-> h.port]), s, e, ok)

config_nameserver(servers, s, ok) == NameserversFrom(servers, s, 1, ok)

(***************************************************************************)
(* The sortlist.  ares_inet_net_pton (outside src/) reads "addr" or        *)
(* "addr/bits" and returns the number of network bits, or -1: an IPv6     *)
(* literal alone has 128, a prefix is a decimal number without leading    *)
(* zeros of at most 128 (IPv6) or 32 (IPv4 needs the prefix).              *)
(***************************************************************************)
AllDigits(t) == t # <<>> /\ \A i \in 1..Len(t) : t[i] \in DOMAIN Digit
Bits(t) == DecFrom(t, 1, 0)

ares_inet_net_pton(family, t) ==
  LET ok(a) == a \in (IF family = "INET" THEN V4 ELSE V6)
      bits  == SubSeq(t, 3, Len(t))
      max   == IF family = "INET" THEN 32 ELSE 128
  IN IF family = "INET6" /\ Len(t) = 1 /\ ok(t[1]) THEN 128
     ELSE IF Len(t) >= 3 /\ ok(t[1]) /\ t[2] = "/" /\ AllDigits(bits)
             /\ (family = "INET" \/ bits[1] # "0" \/ Len(bits) = 1)
             /\ Bits(bits) <= max
          THEN Bits(bits) ELSE -1

\* ip_addr: an IPv4 literal of at most 15 characters.
ip_addr(ipbuf, len) == len <= 15 /\ ares_inet_pton("INET", ipbuf)

\* The first octet of each IPv4 literal.
FirstOctet == ("10.0.0.1" :> 10) @@ ("192.168.1.10" :> 192) @@ ("255.255.0.0" :> 255)

\* Mutant: 192.x.x.x counted as class B.
natural_maskClassB192(addr) ==
  IF FirstOctet[addr] < 128 THEN "255.0.0.0"
  ELSE IF FirstOctet[addr] <= 192 THEN "255.255.0.0"
  ELSE "255.255.255.0"

\* natural_mask: the classful mask of an IPv4 address (its first octet).
natural_mask(addr) ==
  IF FirstOctet[addr] < 128 THEN "255.0.0.0"          \* IN_CLASSA
  ELSE IF FirstOctet[addr] < 192 THEN "255.255.0.0"   \* IN_CLASSB
  ELSE "255.255.255.0"

Pattern(fam, type, addr, bits, mask) ==
  [family |-> fam, type |-> type, addr |-> addr, bits |-> bits, mask |-> mask]

RECURSIVE SortlistFrom(_, _, _, _)

\* sortlist_alloc appends, then the loop goes on after the item; ok FALSE
\* makes the first ares_realloc fail.
SortAppend(l, pat, s, q, ok) ==
  IF ~ok THEN [status |-> "ENOMEM", sortlist |-> <<>>]
  ELSE SortlistFrom(Append(l, pat), s, SkipSpace(s, q), ok)

SortlistFrom(l, s, str, ok) ==
  LET Again(l2, q) == SortlistFrom(l2, s, SkipSpace(s, q), ok)
      q1    == Upto(s, str, LAMBDA a : a \in {"/", ";"} \/ ISSPACE(a))
      ipbuf == SubSeq(s, str, q1 - 1)
      pfx   == At(s, q1) = "/"
      q     == IF pfx THEN Upto(s, q1, LAMBDA a : a = ";" \/ ISSPACE(a)) ELSE q1
      str2  == IF pfx THEN q1 + 1 ELSE str      \* str after the prefix is found
      ipbufpfx == IF pfx THEN SubSeq(s, str, q - 1) ELSE <<>>
      b6 == ares_inet_net_pton("INET6", IF pfx THEN ipbufpfx ELSE ipbuf)
      b4 == IF pfx THEN ares_inet_net_pton("INET", ipbufpfx) ELSE -1
      mk == SubSeq(s, str2, q - 1)              \* the mask text, re-copied
  IN IF At(s, str) = NUL \/ At(s, str) = ";" THEN [status |-> "SUCCESS", sortlist |-> l]
     ELSE IF Width(s, str, q1) >= 16 THEN [status |-> "EBADSTR", sortlist |-> <<>>]
     ELSE IF pfx /\ Width(s, str, q) >= 32 THEN [status |-> "EBADSTR", sortlist |-> <<>>]
     ELSE IF b6 > 0
       THEN SortAppend(l, Pattern("INET6", "CIDR", ipbuf[1], b6, "none"), s, q, ok)
     ELSE IF pfx /\ b4 > 0
       THEN SortAppend(l, Pattern("INET", "CIDR", ipbuf[1], b4, "none"), s, q, ok)
     ELSE IF ip_addr(ipbuf, Width(s, str2, q))
       THEN IF pfx /\ Width(s, str2, q) >= 16 THEN [status |-> "EBADSTR", sortlist |-> <<>>]
            ELSE LET mask == IF pfx /\ ip_addr(mk, Width(s, str2, q)) THEN mk[1]
                             ELSE natural_mask(ipbuf[1])
                 IN SortAppend(l, Pattern("INET", "MASK", ipbuf[1], 0, mask), s, q, ok)
     ELSE Again(l, q)

\* config_sortlist: the patterns of str, up to ';'.  Any item too long for
\* the buffers fails the whole list with EBADSTR; other bad items are skipped.
config_sortlist(s, ok) == SortlistFrom(<<>>, s, 1, ok)

=============================================================================
