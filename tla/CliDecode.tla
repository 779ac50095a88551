------------------------------ MODULE CliDecode ------------------------------
(***************************************************************************)
(* `bcur decode' of crates/bcur-cli/src/decode.rs: the lines of a text are  *)
(* given to one UR session, in their order, until it is complete or refuses *)
(* one of them.                                                            *)
(***************************************************************************)
EXTENDS UrDecoder, UriSyntax

CONSTANTS
  Inputs          \* command lines and their texts, [type, lines]

VARIABLES
  input,          \* the command line and the text
  at,             \* where run is
  next,           \* the line that is its turn
  ending,         \* what run returned
  output          \* what has been written, or None

decode == <<input, at, next, ending, output>>
decodeVars == <<urVars, decode>>

ASSUME InputsAssumption ==
  \A n \in Inputs :
    /\ Len(n.lines) \in Nat /\ DOMAIN n.lines = 1 .. Len(n.lines)
    /\ \A i \in DOMAIN n.lines : IsString(n.lines[i]) /\ Parse(n.lines[i]) \in Uris

(* The numbers of a part are u32, of at most ten digits; and None is none   *)
(* of the values that it is held apart from.                               *)
ASSUME PathsAssumption ==
  /\ MaxIndex \in Nat /\ MaxIndex \div 1000000000 < 10
  /\ \A u \in Uris :
       u.kind = "MultiPart" /\ u.body # None => u.body.seq <= MaxIndex /\ u.body.count <= MaxIndex
  /\ None \notin Nat /\ None \notin Nat \X Nat /\ None \notin Seq(Range(Letters) \cup {"-"})

DecodeInit ==
  /\ UrInit
  /\ input \in Inputs
  /\ at = "read"
  /\ next = 1
  /\ ending = "None"
  /\ output = None
-----------------------------------------------------------------------------
Goto(place) == at' = place /\ UNCHANGED <<input, next, ending, output>>

Stop(v) ==
  /\ at' = "done" /\ ending' = v
  /\ UNCHANGED <<urVars, input, next, output>>

(* read_text; blank lines are not among the lines.                         *)
ReadText ==
  /\ at = "read"
  /\ \/ Stop("Io")
     \/ Stop("NotUtf8")
     \/ input.lines = <<>> /\ Stop("NoLines")
     \/ input.lines # <<>> /\ Goto("type") /\ UNCHANGED urVars

SetType ==
  /\ at = "type"
  /\ \/ input.type = None /\ Goto("lines") /\ UNCHANGED urVars
     \/ IsType(input.type) /\ WithExpectedType(input.type) /\ Goto("lines")
     \/ input.type # None /\ ~IsType(input.type) /\ Stop("InvalidType")

ReceiveLine ==
  /\ at = "lines" /\ next <= Len(input.lines)
  /\ UrReceive(Parse(input.lines[next]))
  /\ Goto("receive")

InReceive == at = "receive" /\ Conclude /\ UNCHANGED decode

Received == at = "receive" /\ call = None

(* Decoder::complete                                                       *)
SessionComplete == single # None \/ Complete

Refused == Received /\ answer # "Ok" /\ Stop(answer)

NextLine ==
  /\ Received /\ answer = "Ok" /\ ~SessionComplete
  /\ at' = "lines" /\ next' = next + 1
  /\ UNCHANGED <<urVars, input, ending, output>>

(* message() fails on what is complete and damaged.                        *)
TakeMessage ==
  /\ Received /\ answer = "Ok" /\ SessionComplete
  /\ \/ Readable /\ Goto("write") /\ UNCHANGED urVars
     \/ ~Readable /\ Stop(Message)

NoMoreLines == at = "lines" /\ next > Len(input.lines) /\ Stop("Incomplete")

WriteBytes ==
  /\ at = "write"
  /\ \/ /\ at' = "done" /\ ending' = "Written"
        /\ output' = Content
        /\ UNCHANGED <<urVars, input, next>>
     \/ Stop("Io")

Exit == at = "done" /\ UNCHANGED decodeVars

DecodeNext ==
  \/ ReadText \/ SetType \/ ReceiveLine \/ InReceive \/ Refused \/ NextLine
  \/ TakeMessage \/ NoMoreLines \/ WriteBytes \/ Exit

DecodeSpec == DecodeInit /\ [][DecodeNext]_decodeVars
-----------------------------------------------------------------------------
(* Properties.                                                             *)

(* What encoders print, within the limits of the session.                  *)
Emitted ==
  {u \in Uris :
     /\ u.parsed /\ u.body # None /\ u.len <= MaxUriLen
     /\ u.kind = "SinglePart" => u.body.len <= MaxMessageLength /\ u.indices = None
     /\ u.kind = "MultiPart" =>
          /\ WellFormed(u.body) /\ LengthFits(u.body) /\ Geometry(u.body) /\ IsHonest(u.body)
          /\ u.indices = <<u.body.seq, u.body.count>>}

(* The two numbers of a path are read as they have been printed.           *)
IndicesReadBack ==
  \A u \in Emitted :
    u.kind = "MultiPart" =>
      /\ u.indices # None /\ IndicesOf(u) # None
      /\ DecodeIndices(IndicesOf(u)) = u.indices

SenderOf(u) ==
  <<u.type, u.kind, IF u.kind = "SinglePart" THEN u.body ELSE MetaOf(u.body)>>

Lines == DOMAIN input.lines

(* What an encoder may have printed as line i.                             *)
PrintedAs(i) == {u \in Emitted : input.lines[i] \in {Printed(u, c) : c \in BOOLEAN}}

(* The URIs of one encoder that the lines are, in either case; {} if they  *)
(* are not all of one.                                                     *)
OwnUris ==
  LET all == UNION {PrintedAs(i) : i \in Lines}
  IN  IF (\A i \in Lines : PrintedAs(i) # {}) /\ Cardinality({SenderOf(u) : u \in all}) = 1
      THEN all ELSE {}

(* The parts determine every fragment by peeling.                          *)
Determined(uris) ==
  \A u \in uris : u.kind = "MultiPart" =>
    LET all == 0 .. u.body.count - 1
        sets == {Range(Indexes(w.body)) : w \in uris}
    IN  \A known \in SUBSET all : Peel!PeelClosed(sets, known) => known = all

(* A text of the lines of one encoder, some of them, in any order, again    *)
(* and in capitals or not, is never refused, and whether it is decoded      *)
(* depends only on whether it determines the message.  One refused line    *)
(* would have ended it.                                                    *)
OwnLinesDecide ==
  /\ ending \notin {"None", "Io", "NotUtf8"}
  /\ OwnUris # {}
  /\ \A u \in OwnUris : input.type \in {None, u.type}
  /\ Cardinality(OwnUris) <= MaxReceivedParts /\ Cardinality(OwnUris) <= MaxBufferParts
  => ending = IF Determined(OwnUris) THEN "Written" ELSE "Incomplete"

(* What is written is the message of one encoder, of the type that was      *)
(* asked for, and every line up to the last one that was read is of that   *)
(* encoder, even those that brought nothing new.                           *)
OneSenderWritten ==
  ending = "Written" =>
    LET last == Parse(input.lines[next])
    IN  /\ \A i \in 1 .. next : SenderOf(Parse(input.lines[i])) = SenderOf(last)
        /\ input.type \in {None, last.type}
        /\ output = IF last.kind = "SinglePart" THEN last.body
                    ELSE StreamMessage[MetaOf(last.body)]
=============================================================================
