------------------------------ MODULE UriBody ------------------------------
(***************************************************************************)
(* The body of a URI: the bytes of a part, or a payload, as minimal          *)
(* bytewords (crates/bcur/src/ur/mod.rs), and the texts and tokens that the  *)
(* other styles and canonicalize_byteword read.  Nothing is kept between     *)
(* calls; `heard' is the last one.                                          *)
(***************************************************************************)
EXTENDS PartWire, Bytewords

CONSTANTS
  Payloads,           \* bytes to write
  Alterations,        \* characters that replace others, or are added
  Tokens              \* tokens to canonicalize

VARIABLE heard        \* the call: what it was made of (a set of at most one), its text,
                      \* its style, and its result

bodyVars == <<wireVars, heard>>

Silence ==
  [made |-> {}, text |-> << >>, style |-> "None", result |-> Rejected("None"), words |-> {}]

Hear(made, text, style) ==
  heard' = [made |-> made, text |-> text, style |-> style,
            result |-> DecodeText(text, style), words |-> {}]

BodyInit == WireInit /\ heard = Silence

(* to_cbor; the content of a fragment does not matter here.                *)
ToCbor(p) == EncodePart(p).head \o [k \in 1 .. p.data.len |-> 0]

UpperOf == [c \in ToSet(LowerCase) |-> UpperCase[CHOOSE i \in 1 .. 26 : LowerCase[i] = c]]

UpperText(text) ==
  [k \in DOMAIN text |-> IF text[k] \in DOMAIN UpperOf THEN UpperOf[text[k]] ELSE text[k]]

ASSUME BodyAssumption ==
  /\ UpperOf \in [ToSet(LowerCase) -> ToSet(UpperCase)]
  /\ \A c \in ToSet(LowerCase) : LowerOf[UpperOf[c]] = c
  /\ \A data \in Payloads : data \in Seq(Byte)
  /\ Alterations \subseteq Characters
  /\ \A token \in Tokens : token \in Seq(Characters)

(* The body of a part that has been emitted, as it is or from a QR code.    *)
ReceiveBody ==
  /\ \E p \in emitted :
       LET text == EncodeText(ToCbor(p), "Minimal")
       IN  \E t \in {text, UpperText(text)} : Hear({ToCbor(p)}, t, "Minimal")
  /\ UNCHANGED wireVars

Idle == enc = NoEncoder /\ read = NoReading

DecodeOwn ==
  /\ Idle
  /\ \E data \in Payloads, style \in Styles : Hear({data}, EncodeText(data, style), style)
  /\ UNCHANGED wireVars

(* One character replaced, lost or added, or another style expected.        *)
Altered(text) ==
  {text, Front(text)}
    \cup {Append(text, c) : c \in Alterations}
    \cup {[text EXCEPT ![k] = c] : k \in DOMAIN text, c \in Alterations}

DecodeAltered ==
  /\ Idle
  /\ \E data \in Payloads, style \in Styles :
       /\ Len(data) > 1
       /\ \E text \in Altered(EncodeText(data, style)), s \in Styles : Hear({}, text, s)
  /\ UNCHANGED wireVars

Canonicalize ==
  /\ Idle
  /\ \E token \in Tokens :
       heard' = [made |-> {}, text |-> token, style |-> "Token",
                 result |-> Rejected("None"), words |-> CanonicalizeByteword(token)]
  /\ UNCHANGED wireVars

Forget == heard # Silence /\ heard' = Silence /\ UNCHANGED wireVars

BodyNext ==
  \/ Forget
  \/ heard = Silence /\ (ReceiveBody \/ DecodeOwn \/ DecodeAltered \/ Canonicalize)
  \/ heard = Silence /\ WireNext /\ UNCHANGED heard

BodySpec == BodyInit /\ [][BodyNext]_bodyVars
-----------------------------------------------------------------------------
(* Properties.                                                             *)

(* What is read as some bytes is, up to case, the one text encode writes    *)
(* for them in that style, and that text is read: the hash of two letters   *)
(* never lets another word through, and no style takes the text of another. *)
TextsExact ==
  heard.style \in Styles =>
    /\ heard.result.error = "None" =>
         Lowered(heard.text) = EncodeText(heard.result.data, heard.style)
    /\ \A data \in heard.made : heard.result = [error |-> "None", data |-> data]

(* A token stands for a word only if it is the word, its ends, its first or *)
(* its last three letters, and of no other word.                           *)
Abbreviations(w) == {w, <<w[1], w[4]>>, SubSeq(w, 1, 3), SubSeq(w, 2, 4)}

TokensExact ==
  heard.style = "Token" =>
    LET meant == {b \in Byte : Lowered(heard.text) \in Abbreviations(WordAt[b])}
    IN  heard.words = IF Cardinality(meant) = 1 THEN {WordAt[b] : b \in meant} ELSE {}

OneMeaning == TextsExact /\ TokensExact
=============================================================================
