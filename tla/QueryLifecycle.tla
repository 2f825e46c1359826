--------------------------- MODULE QueryLifecycle ---------------------------
(***************************************************************************)
(* What the c-ares query engine promises the application about one query   *)
(* (ares.h ares_callback, spec.md 4): after ares_send the callback runs     *)
(* exactly once; it carries an answer exactly when the status is           *)
(* ARES_SUCCESS; and, as long as the application keeps calling             *)
(* ares_process_fd once deadlines pass, it runs eventually.  How the       *)
(* library gets there (servers, sockets, retries) is not visible here.     *)
(***************************************************************************)
EXTENDS Sequences

CONSTANTS Queries, Statuses

VARIABLES
  submitted,  \* queries passed to ares_send
  cb          \* the callbacks each query has received, in order

Outcomes ==
  {[status |-> "SUCCESS", answer |-> TRUE]}
    \cup [status : Statuses \ {"SUCCESS"}, answer : {FALSE}]

\* Submitted queries whose callback has not run yet.
Pending == {q \in submitted : cb[q] = <<>>}

Init == submitted = {} /\ cb = [q \in Queries |-> <<>>]

\* The callback of every query in C runs, once each.
Complete(C) ==
  /\ C # {} /\ C \subseteq Pending
  /\ \E o \in [C -> Outcomes] :
       cb' = [q \in Queries |-> IF q \in C THEN <<o[q]>> ELSE cb[q]]

\* ares_send: a new query, which may fail (and call back) at once.
Submit(q) ==
  /\ q \notin submitted
  /\ submitted' = submitted \cup {q}
  /\ \/ cb' = cb
     \/ \E o \in Outcomes : cb' = [cb EXCEPT ![q] = <<o>>]

Next ==
  \/ \E q \in Queries : Submit(q)
  \/ \E C \in SUBSET Queries : Complete(C) /\ UNCHANGED submitted

SafetySpec == Init /\ [][Next]_<<submitted, cb>>

\* Every submitted query is eventually called back.
Spec == SafetySpec
        /\ \A q \in Queries :
             WF_<<submitted, cb>>(\E C \in SUBSET Queries :
                                    q \in C /\ Complete(C) /\ UNCHANGED submitted)

=============================================================================
