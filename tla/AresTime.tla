------------------------------ MODULE AresTime ------------------------------
(***************************************************************************)
(* The time arithmetic of ares_process.c as pure operators.  A struct     *)
(* timeval is a record [sec, usec]; the code keeps usec in 0..999999.     *)
(* ares__send_query sets a query's deadline to now + timeplus, the        *)
(* channel timeout shifted left once per pass over the servers when the   *)
(* shifted value fits below the sign bit of an int of intBits bits;       *)
(* process_timeouts ends the wait of the queries with ares__timedout.     *)
(***************************************************************************)
EXTENDS Integers

USEC_PER_SEC == 1000000

\* timeadd: whole seconds to tv_sec, the rest as microseconds to tv_usec,
\* and one carry into tv_sec.
timeadd(tv, millisecs) ==
  LET u == tv.usec + (millisecs % 1000) * 1000
      s == tv.sec + millisecs \div 1000
  IN IF u >= USEC_PER_SEC THEN [sec |-> s + 1, usec |-> u - USEC_PER_SEC]
     ELSE [sec |-> s, usec |-> u]

\* ares__timedout: now is the check time or later.
ares__timedout(now, check) ==
  LET secs == now.sec - check.sec
  IN IF secs > 0 THEN TRUE
     ELSE IF secs < 0 THEN FALSE
     ELSE now.usec - check.usec >= 0

\* Mutant: the room test of the shift one bit too generous.
TimeShiftOffByOne(timeout, try, nservers, intBits) ==
  LET shift == try \div nservers
  IN IF shift <= intBits - 1 /\ timeout \div 2 ^ (intBits - shift) = 0
     THEN timeout * 2 ^ shift ELSE timeout

\* timeplus in ares__send_query: shift = try_count / nservers; the shift is
\* made only when every bit shifted out, and the sign bit, stay zero
\* (timeplus >> (sizeof(int) * CHAR_BIT - 1 - shift) == 0).
TimeShift(timeout, try, nservers, intBits) ==
  LET shift == try \div nservers
  IN IF shift <= intBits - 1 /\ timeout \div 2 ^ (intBits - 1 - shift) = 0
     THEN timeout * 2 ^ shift ELSE timeout

\* The deadline ares__send_query gives a query sent at now.
Deadline(now, timeout, try, nservers, intBits) ==
  timeadd(now, TimeShift(timeout, try, nservers, intBits))

=============================================================================
