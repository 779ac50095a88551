------------------------------- MODULE Peeling -------------------------------
(***************************************************************************)
(* What a fountain decoder promises, with its buffers, queues and limits    *)
(* abstracted away.  A part is the set of source-fragment indexes that are  *)
(* mixed into it.  A fragment can be computed from a part as soon as all    *)
(* the other fragments of that part are known ("peeling").  The decoder     *)
(* takes one part per call and may not return from the call while anything  *)
(* is left to be peeled, unless it gives up for good.                       *)
(***************************************************************************)
EXTENDS FiniteSets

CONSTANT Indices        \* the indexes a source fragment can have

VARIABLES
  got,                  \* the index-sets of the parts taken so far
  known,                \* the indexes of the fragments recovered so far
  status                \* "open" between calls, "busy" in one, "closed" for good

vars == <<got, known, status>>

TypeOK ==
  /\ got \subseteq ((SUBSET Indices) \ {{}})
  /\ known \subseteq Indices
  /\ status \in {"open", "busy", "closed"}

(***************************************************************************)
(* D is closed under peeling the parts R: no part of R has exactly one      *)
(* index that D lacks.                                                      *)
(***************************************************************************)
PeelClosed(R, D) == \A r \in R : \A i \in r : r \ {i} \subseteq D => i \in D

(* D is the least set closed under peeling R.                              *)
IsPeeled(R, D, Universe) ==
  /\ PeelClosed(R, D)
  /\ \A E \in SUBSET Universe : PeelClosed(R, E) => D \subseteq E
-----------------------------------------------------------------------------
Init ==
  /\ got = {}
  /\ known = {}
  /\ status = "open"

(* A call takes a part.                                                    *)
Take(s) ==
  /\ status = "open"
  /\ got' = got \cup {s}
  /\ status' = "busy"
  /\ UNCHANGED known

(* A fragment is recovered: it is the only unknown one of some part.       *)
Learn(i) ==
  /\ status = "busy"
  /\ \E r \in got : r \ known = {i}
  /\ known' = known \cup {i}
  /\ UNCHANGED <<got, status>>

(* The call returns: nothing is left to peel.                              *)
Return ==
  /\ status = "busy"
  /\ PeelClosed(got, known)
  /\ status' = "open"
  /\ UNCHANGED <<got, known>>

(* A limit is exceeded: the decoder refuses everything from here on.       *)
GiveUp ==
  /\ status \in {"open", "busy"}
  /\ status' = "closed"
  /\ UNCHANGED <<got, known>>

Next ==
  \/ \E s \in (SUBSET Indices) \ {{}} : Take(s)
  \/ \E i \in Indices : Learn(i)
  \/ Return
  \/ GiveUp

Spec == Init /\ [][Next]_vars
=============================================================================
