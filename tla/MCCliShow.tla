------------------------------ MODULE MCCliShow ------------------------------
(***************************************************************************)
(* Instances of CliShow for TLC.                                            *)
(***************************************************************************)
EXTENDS CliShow, MCCliEncode

(* A terminal of 24 lines, the least that shows the same codes, and one    *)
(* that shows none.                                                        *)
MCSizes == {<<80, 24>>, <<43, 23>>, <<20, 10>>}

(* All modes, with a given fragment length; and limits around the lengths  *)
(* at which an encoding grows, from hopeless to generous, with none; and    *)
(* those taken from a terminal, one with a single URI just above it.       *)
MCRequests ==
  {Request(n, c, f, a, q, None) :
     n \in {0, 1, 24}, c \in {0, 60, 75},
     f \in {0, 1, 40}, a \in BOOLEAN, q \in BOOLEAN}
  \cup {Request(n, c, None, TRUE, FALSE, None) :
          n \in {0, 2, 23, 24}, c \in {0, 40, 57, 58, 59, 60, 62, 64, 66}}
  \cup {Request(n, c, None, a, TRUE, None) :
          n \in {26, 30}, c \in {58} \cup {DefaultMaxChars(s, TRUE, TRUE) : s \in MCSizes},
          a \in BOOLEAN}
=============================================================================
