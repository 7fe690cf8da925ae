------------------------------ MODULE MailLog ------------------------------
(***************************************************************************)
(* What the mailbox of an island promises an agent that polls it: it is     *)
(* given messages that were sent, addressed to it or to all, each at most   *)
(* once and in the order they were sent.  Messages may be missed: the ring  *)
(* forgets, and a restart may.                                              *)
(***************************************************************************)
EXTENDS Naturals, Sequences

CONSTANTS Readers,     \* agents that poll
          Everyone     \* the address of a broadcast

EveryoneAssumption == Everyone \notin Readers

VARIABLES feed,        \* the addressees of the messages, in the order sent
          given        \* reader -> numbers of the messages it was given

vars == <<feed, given>>

Mine(r) == {n \in 1..Len(feed) : feed[n] \in {r, Everyone}}

Ascending(s) == \A i, k \in 1..Len(s) : i < k => s[i] < s[k]

Init == feed = <<>> /\ given = [r \in Readers |-> <<>>]

Post == /\ \E to \in Readers \cup {Everyone} : feed' = Append(feed, to)
        /\ UNCHANGED given

\* given'[r] extends given[r] by messages of r that came after all of it.
Give(r) ==
  LET old == Len(given[r])
      new == Len(given'[r])
  IN /\ new > old
     /\ SubSeq(given'[r], 1, old) = given[r]
     /\ \A i \in old + 1..new : given'[r][i] \in Mine(r)
     /\ Ascending(given'[r])
     /\ given' = [given EXCEPT ![r] = given'[r]]
     /\ UNCHANGED feed

Next == Post \/ \E r \in Readers : Give(r)

Spec == Init /\ [][Next]_vars
=============================================================================
