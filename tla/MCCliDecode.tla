----------------------------- MODULE MCCliDecode -----------------------------
(***************************************************************************)
(* Instances of CliDecode for TLC.                                          *)
(***************************************************************************)
EXTENDS CliDecode, MCFountainDecoder, TLC

CONSTANTS
  alpha, beta,            \* two types
  notType                 \* a token that is no type

MCTypeLen == (alpha :> 5) @@ (beta :> 4)

(* Mixtures of three fragments: a number of one digit and one of two.      *)
MCMixThree(seq, count, crc) ==
  IF count = 1 THEN <<0>> ELSE IF seq % 2 = 0 THEN <<1, 0>> ELSE <<1, 2, 0>>

One(seq) == MultiUri(alpha, Made(seq, 3, 5, 7, 2))

Payload1 == SingleUri(alpha, [len |-> 3, id |-> 1])

(* Lines of one encoder, some in capitals.                                 *)
Own ==
  {Printed(One(1), FALSE), Printed(One(2), TRUE), Printed(One(3), FALSE),
   Printed(One(4), TRUE), Printed(One(11), FALSE)}

(* Lines of others: a part under the same header with another type, one of *)
(* another message, one of a single fragment, single parts.                *)
Others ==
  {Printed(u, FALSE) :
     u \in {MultiUri(beta, Made(2, 3, 5, 7, 2)), MultiUri(alpha, Made(2, 3, 5, 9, 2)),
            MultiUri(alpha, Made(1, 1, 2, 5, 2)), Payload1,
            SingleUri(alpha, [len |-> 3, id |-> 2]), SingleUri(beta, [len |-> 3, id |-> 1]),
            SingleUri(alpha, [len |-> 9, id |-> 3])}}

WithPath(path) == [Printed(One(1), FALSE) EXCEPT !.path = path]

(* Strings that nobody prints, and some of them are read all the same.     *)
Odd ==
  {[Printed(Payload1, FALSE) EXCEPT !.scheme = "uri"],
   [Printed(Payload1, FALSE) EXCEPT !.slash = FALSE],
   [Printed(Payload1, FALSE) EXCEPT !.type = notType],
   [Printed(Payload1, FALSE) EXCEPT !.body = None],
   [Printed(One(2), FALSE) EXCEPT !.body = None],
   WithPath(<<"+", "1", "-", "0", "3">>), WithPath(<<"2", "-", "3">>),
   WithPath(<<"0", "-", "3">>), WithPath(<<"1", "-">>), WithPath(<<"1">>), WithPath(<<>>),
   WithPath(<<"-", "1", "-", "3">>), WithPath(<<"1", "-", "3", "/", "1">>),
   WithPath(<<"3", "2", "-", "3">>), WithPath(<<"+", "-", "3">>)}

Few == {Printed(One(1), FALSE), Printed(One(2), TRUE), Printed(One(3), FALSE)}

Texts(strings, n) == UNION {[1 .. k -> strings] : k \in 0 .. n}

MCInputs ==
  [lines : Texts(Own, 4), type : {None}]
    \cup [lines : Texts(Few \cup Others \cup Odd, 2), type : {None, alpha, beta, notType}]
    \cup [lines : {a \o <<b>> \o c : a \in Texts(Few, 2), b \in Others \cup Odd, c \in Texts(Few, 1)},
          type : {None, alpha}]

MCLines == Own \cup Few \cup Others \cup Odd

(* What the strings are read as, and what they have been printed from.     *)
MCDecodeUris == {Parse(s) : s \in MCLines} \cup {One(n) : n \in {1, 2, 3, 4, 11}}

MCDecodeParts == {u.body : u \in {w \in MCDecodeUris : w.kind = "MultiPart"}} \ {None}

ASSUME IndicesReadBackAssumption == IndicesReadBack
=============================================================================
