--------------------------- MODULE MCAresOperators ---------------------------
(* The parsers of AresConfigText and the time arithmetic of AresTime      *)
(* checked against reference definitions over every input of a bounded    *)
(* size.  The one variable holds the input;                                *)
(* Init enumerates the inputs, each tagged with the parser it is for, and   *)
(* then keeps them.                                                         *)
EXTENDS AresConfigText, AresTime

VARIABLE input

-----------------------------------------------------------------------------
(* ares_ipv6_subnet_matches against "the first netmask bits agree".        *)

\* Bit k (0 = most significant) of a 16-byte address.
Bit(a, k) == (a[k \div 8 + 1] \div 2^(7 - (k % 8))) % 2

PrefixAgrees(netbase, netmask, ipaddr) ==
  netmask <= 128 /\ \A k \in 0..netmask - 1 : Bit(netbase, k) = Bit(ipaddr, k)

Bases == {Blacklist[1].netbase, Bytes6["2001:db8::1"]}
ByteEdges == {0, 63, 64, 191, 192, 255}

SubnetCases ==
  {[netbase |-> b, netmask |-> m, ipaddr |-> [b EXCEPT ![j] = v]] :
     b \in Bases, m \in 0..130, j \in 1..16, v \in ByteEdges}

\* ares_ipv6_subnet_matches compares exactly the first netmask bits (the
\* whole bytes memset to 0xFF and the partial byte 0xff << (8 - netmask %
\* 8)), and refuses a netmask above 128; the blacklist relies on it.
SubnetMatchesPrefix ==
  LET c == input.subnet
  IN input.kind = "subnet"
       => ares_ipv6_subnet_matches(c.netbase, c.netmask, c.ipaddr)
            = PrefixAgrees(c.netbase, c.netmask, c.ipaddr)

-----------------------------------------------------------------------------
(* config_nameserver against the server address grammar of spec.md 3:     *)
(* addr | [addr] | [addr]:port, separated by commas or white space.        *)

UsableAddr(a) == a \in V4 \/ (a \in V6 /\ ~ares_ipv6_server_blacklisted(Bytes6[a]))
Srv(a, port) == [family |-> IF a \in V4 THEN "INET" ELSE "INET6", addr |-> a, port |-> port]

GrammarServer(t) ==
  IF Len(t) = 1 /\ UsableAddr(t[1]) THEN <<Srv(t[1], 0)>>
  ELSE IF Len(t) = 3 /\ t[1] = "[" /\ UsableAddr(t[2]) /\ t[3] = "]" THEN <<Srv(t[2], 0)>>
  ELSE IF Len(t) >= 5 /\ t[1] = "[" /\ UsableAddr(t[2]) /\ t[3] = "]" /\ t[4] = ":"
          /\ AllDigits(SubSeq(t, 5, Len(t))) /\ Bits(SubSeq(t, 5, Len(t))) <= 65535
       THEN <<Srv(t[2], Bits(SubSeq(t, 5, Len(t))))>>
  ELSE <<>>

GrammarServers(s) == FoldLeft(LAMBDA acc, t : acc \o GrammarServer(t), <<>>, StrSplit(s, 1))

NsAlphabet == {"[", "]", ":", " ", "::1", "10.0.0.1", "fec0::1", "9"}
InitNameserver == input \in SeqOf(NsAlphabet, 5)

\* config_nameserver yields, in order, one server per item of the list that
\* follows the grammar, with port 0 when none is given, and skips the rest
\* (blacklisted IPv6 addresses included).
NameserverListGrammar ==
  config_nameserver(<<>>, input, TRUE) = [status |-> "SUCCESS", servers |-> GrammarServers(input)]

-----------------------------------------------------------------------------
(* config_sortlist against the sortlist grammar of spec.md 3: ip,          *)
(* ip/prefix or ip/mask, separated by white space, up to ';'.              *)

\* The mask of the address's class: A (first octet below 128), B (below
\* 192), C (the rest).
ClassfulMask(a) ==
  CASE FirstOctet[a] \in 0..127   -> "255.0.0.0"
    [] FirstOctet[a] \in 128..191 -> "255.255.0.0"
    [] OTHER                      -> "255.255.255.0"

GrammarPattern(t) ==
  LET a == t[1]
      b == Bits(SubSeq(t, 3, Len(t)))
  IN IF Len(t) = 1 /\ a \in V4 THEN {Pattern("INET", "MASK", a, 0, ClassfulMask(a))}
     ELSE IF Len(t) = 1 /\ a \in V6 THEN {Pattern("INET6", "CIDR", a, 128, "none")}
     ELSE IF Len(t) = 3 /\ a \in V4 /\ t[2] = "/" /\ t[3] \in V4
       THEN {Pattern("INET", "MASK", a, 0, t[3])}
     ELSE IF Len(t) >= 3 /\ a \in V4 \cup V6 /\ t[2] = "/" /\ AllDigits(SubSeq(t, 3, Len(t)))
             /\ 1 <= b /\ b <= (IF a \in V4 THEN 32 ELSE 128)
       THEN {Pattern(IF a \in V4 THEN "INET" ELSE "INET6", "CIDR", a, b, "none")}
     ELSE {}

SortItems(s) ==
  LET e == Upto(s, 1, LAMBDA x : x = ";") IN StrSplit(SubSeq(s, 1, e - 1), 1)

\* Every item text fits config_sortlist's buffers (ipbuf[17], ipbufpfx[32])
\* with these atoms; an IPv6 item of 16 or more characters would not.
ShortSortAtoms == {"10.0.0.1", "192.168.1.10", "::1", "255.255.0.0", "/", "9", " ", ";"}
SortlistCases == SeqOf(ShortSortAtoms, 5)

\* A sortlist whose every item follows the grammar is accepted, one
\* pattern per item in order; IPv4 items without a mask get the classful
\* natural mask.
SortlistGrammar ==
  LET s == input.sortlist
      items == SortItems(s)
  IN (input.kind = "sortlist" /\ \A i \in 1..Len(items) : GrammarPattern(items[i]) # {})
     => config_sortlist(s, TRUE)
          = [status |-> "SUCCESS",
             sortlist |-> [i \in 1..Len(items) |-> CHOOSE p \in GrammarPattern(items[i]) : TRUE]]

-----------------------------------------------------------------------------
(* The deadline of ares__send_query and the expiry test of                *)
(* process_timeouts against time counted in microseconds, with the        *)
(* reference "timeout << shift when it fits below the sign bit".  The int *)
(* width is MCIntBits, small enough for TLC's integers; the test scales.  *)

MCIntBits == 12
Micros(tv) == tv.sec * USEC_PER_SEC + tv.usec
FromMicros(m) == [sec |-> m \div USEC_PER_SEC, usec |-> m % USEC_PER_SEC]
ShiftRef(timeout, shift) ==
  IF timeout * 2 ^ shift < 2 ^ (MCIntBits - 1) THEN timeout * 2 ^ shift ELSE timeout

TimeCases ==
  [now : [sec : {0, 1}, usec : {0, 1, 500000, 999000, 999999}],
   timeout : {0, 1, 999, 1000, 1001, 1023, 1024, 2047},
   try : 0..4, nservers : {1, 2}, offset : {-1, 0, 1}]

\* A query sent at now with try_count try is timed out by process_timeouts
\* exactly from the microsecond now + (timeout << try / nservers) ms on,
\* the shift taken only when it stays below the sign bit; the deadline
\* timeadd stores is a normalised timeval.
DeadlineExpiresOnTime ==
  LET c  == input.deadline
      dl == Deadline(c.now, c.timeout, c.try, c.nservers, MCIntBits)
      at == Micros(c.now) + 1000 * ShiftRef(c.timeout, c.try \div c.nservers) + c.offset
  IN input.kind = "deadline"
       => /\ dl.usec \in 0..USEC_PER_SEC - 1
          /\ ares__timedout(FromMicros(at), dl) = (c.offset >= 0)

-----------------------------------------------------------------------------
\* The input is kept: each state is one case of the check.
Keep == UNCHANGED input

\* One case of one check; the fields of the other checks are left at fixed
\* placeholders.
NoSubnet == [netbase |-> Z(16), netmask |-> 0, ipaddr |-> Z(16)]
NoDeadline == [now |-> [sec |-> 0, usec |-> 0], timeout |-> 0, try |-> 0, nservers |-> 1, offset |-> 0]

InitText ==
  \/ \E c \in SubnetCases :
       input = [kind |-> "subnet", subnet |-> c, sortlist |-> <<>>, deadline |-> NoDeadline]
  \/ \E c \in SortlistCases :
       input = [kind |-> "sortlist", subnet |-> NoSubnet, sortlist |-> c, deadline |-> NoDeadline]
  \/ \E c \in TimeCases :
       input = [kind |-> "deadline", subnet |-> NoSubnet, sortlist |-> <<>>, deadline |-> c]

TextSpec == InitText /\ [][Keep]_input
NameserverSpec == InitNameserver /\ [][Keep]_input

=============================================================================
