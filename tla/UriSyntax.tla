------------------------------ MODULE UriSyntax ------------------------------
(***************************************************************************)
(* The strings of crates/bcur/src/ur/mod.rs: how a URI is printed and how   *)
(* one is parsed.  A string is cut at the scheme, at its first slash and at *)
(* its last one.  Only the path between the slashes is kept letter by       *)
(* letter; the type is a token and the body what the codecs make of it.     *)
(***************************************************************************)
EXTENDS UriForms

CONSTANTS
  MaxIndex        \* u32::MAX

(* Strings: the scheme, whether any letter is in upper case, whether there *)
(* is a slash, the token before the first one, the letters between that    *)
(* and the last one, or None, the body, and the length.                    *)
IsString(s) ==
  /\ DOMAIN s = {"scheme", "upper", "slash", "type", "path", "body", "len"}
  /\ s.upper \in BOOLEAN
  /\ s.slash \in BOOLEAN
  /\ s.path # None => s.path \in Seq(STRING)
-----------------------------------------------------------------------------
(* Numbers in decimal.                                                     *)

Letters == <<"0", "1", "2", "3", "4", "5", "6", "7", "8", "9">>

Decimal(n) ==
  [i \in 1 .. Digits(n) |-> Letters[1 + ((n \div PowersOfTen[Digits(n) - i + 1]) % 10)]]

ValueOf(letters) ==
  FoldLeft(LAMBDA n, d : 10 * n + SelectInSeq(Letters, LAMBDA l : l = d) - 1, 0, letters)

(* str::parse::<u32>: a plus sign and leading zeros are no errors.         *)
ParseU32(letters) ==
  LET digits == IF letters # <<>> /\ Head(letters) = "+" THEN Tail(letters) ELSE letters
  IN  IF digits # <<>> /\ Range(digits) \subseteq Range(Letters) /\ ValueOf(digits) <= MaxIndex
      THEN ValueOf(digits) ELSE None

(* The path of a part, "seq-count"; neither number is zero.                *)
DecodeIndices(path) ==
  LET dash == SelectInSeq(path, LAMBDA l : l = "-")
      seq == ParseU32(SubSeq(path, 1, dash - 1))
      count == ParseU32(SubSeq(path, dash + 1, Len(path)))
  IN  IF dash = 0 \/ {seq, count} \cap {None, 0} # {} THEN None ELSE <<seq, count>>
-----------------------------------------------------------------------------
FaultyNormalize(s) == s                 \* only lower case is read

Normalize(s) == [s EXCEPT !.upper = FALSE]

IsType(token) == token \in Types

(* parse_lowered: the scheme, the type and the path have to be right.      *)
Parses(s) ==
  /\ s.scheme = "ur" /\ ~s.upper
  /\ s.slash
  /\ IsType(s.type)
  /\ s.path # None => DecodeIndices(s.path) # None

(* The URI that receive makes of a string.                                 *)
Parse(string) ==
  LET s == Normalize(string)
  IN  [len |-> s.len, parsed |-> Parses(s),
       type |-> IF IsType(s.type) THEN s.type ELSE CHOOSE t \in Types : TRUE,
       kind |-> IF s.path = None THEN "SinglePart" ELSE "MultiPart",
       indices |-> IF s.path = None THEN None ELSE DecodeIndices(s.path),
       body |-> s.body]

(* The path of a part, as it is printed.                                   *)
IndicesOf(u) == Decimal(u.indices[1]) \o <<"-">> \o Decimal(u.indices[2])

(* A URI as an encoder prints it, or in capitals as it is in a QR code.    *)
Printed(u, upper) ==
  [scheme |-> "ur", upper |-> upper, slash |-> TRUE, type |-> u.type,
   path |-> IF u.kind = "SinglePart" THEN None ELSE IndicesOf(u),
   body |-> u.body, len |-> u.len]
=============================================================================
