----------------------------- MODULE Bytewords -----------------------------
(***************************************************************************)
(* The text of bytes: crates/bcur/src/bytewords/mod.rs and the tables of     *)
(* crates/bcur/src/constants.rs.  A text is a sequence of characters; what   *)
(* the tables hold is computed from the words.                              *)
(***************************************************************************)
EXTENDS Naturals, SequencesExt

CONSTANT
  Checksum(_)         \* CRC-32 of some bytes, as four bytes

Byte == 0 .. 255

WORDS ==
  <<
    "able", "acid", "also", "apex", "aqua", "arch", "atom", "aunt", "away", "axis", "back",
    "bald", "barn", "belt", "beta", "bias", "blue", "body", "brag", "brew", "bulb", "buzz",
    "calm", "cash", "cats", "chef", "city", "claw", "code", "cola", "cook", "cost", "crux",
    "curl", "cusp", "cyan", "dark", "data", "days", "deli", "dice", "diet", "door", "down",
    "draw", "drop", "drum", "dull", "duty", "each", "easy", "echo", "edge", "epic", "even",
    "exam", "exit", "eyes", "fact", "fair", "fern", "figs", "film", "fish", "fizz", "flap",
    "flew", "flux", "foxy", "free", "frog", "fuel", "fund", "gala", "game", "gear", "gems",
    "gift", "girl", "glow", "good", "gray", "grim", "guru", "gush", "gyro", "half", "hang",
    "hard", "hawk", "heat", "help", "high", "hill", "holy", "hope", "horn", "huts", "iced",
    "idea", "idle", "inch", "inky", "into", "iris", "iron", "item", "jade", "jazz", "join",
    "jolt", "jowl", "judo", "jugs", "jump", "junk", "jury", "keep", "keno", "kept", "keys",
    "kick", "kiln", "king", "kite", "kiwi", "knob", "lamb", "lava", "lazy", "leaf", "legs",
    "liar", "limp", "lion", "list", "logo", "loud", "love", "luau", "luck", "lung", "main",
    "many", "math", "maze", "memo", "menu", "meow", "mild", "mint", "miss", "monk", "nail",
    "navy", "need", "news", "next", "noon", "note", "numb", "obey", "oboe", "omit", "onyx",
    "open", "oval", "owls", "paid", "part", "peck", "play", "plus", "poem", "pool", "pose",
    "puff", "puma", "purr", "quad", "quiz", "race", "ramp", "real", "redo", "rich", "road",
    "rock", "roof", "ruby", "ruin", "runs", "rust", "safe", "saga", "scar", "sets", "silk",
    "skew", "slot", "soap", "solo", "song", "stub", "surf", "swan", "taco", "task", "taxi",
    "tent", "tied", "time", "tiny", "toil", "tomb", "toys", "trip", "tuna", "twin", "ugly",
    "undo", "unit", "urge", "user", "vast", "very", "veto", "vial", "vibe", "view", "visa",
    "void", "vows", "wall", "wand", "warm", "wasp", "wave", "waxy", "webs", "what", "when",
    "whiz", "wolf", "work", "yank", "yawn", "yell", "yoga", "yurt", "zaps", "zero", "zest",
    "zinc", "zone", "zoom">>

(* A word or a token, letter by letter.                                    *)
Letters(word) == [k \in 1 .. Len(word) |-> SubSeq(word, k, k)]

LowerCase == Letters("abcdefghijklmnopqrstuvwxyz")
UpperCase == Letters("ABCDEFGHIJKLMNOPQRSTUVWXYZ")
NonAscii == "non-ascii"         \* any character that is not ASCII

(* The code of a character: letters after to_ascii_lowercase, separators.   *)
CodeOf ==
  [c \in ToSet(LowerCase) |-> 96 + CHOOSE k \in 1 .. 26 : LowerCase[k] = c]
    @@ (" " :> 32) @@ ("-" :> 45)

LowerOf == [c \in ToSet(UpperCase) |-> LowerCase[CHOOSE k \in 1 .. 26 : UpperCase[k] = c]]

(* to_ascii_lowercase                                                      *)
Lowered(text) ==
  [k \in DOMAIN text |-> IF text[k] \in DOMAIN LowerOf THEN LowerOf[text[k]] ELSE text[k]]

IsAscii(text) == NonAscii \notin ToSet(text)

Ascii == ToSet(LowerCase) \cup {" ", "-"}           \* after to_ascii_lowercase
Characters == Ascii \cup ToSet(UpperCase) \cup {NonAscii}
-----------------------------------------------------------------------------
WordAt == [b \in Byte |-> Letters(WORDS[b + 1])]

(* MINIMALS: the first and the last letter.                                *)
MinimalAt == [b \in Byte |-> <<WordAt[b][1], WordAt[b][4]>>]

Hash(first, last) == (25 * CodeOf[first] + 11 * CodeOf[last]) % 628

(* BYTES_INDEXED_BY_HASH: the byte whose word has that hash, if any.        *)
BytesIndexedByHash ==
  [h \in 0 .. 627 |-> {b \in Byte : Hash(WordAt[b][1], WordAt[b][4]) = h}]

Expected(b, minimal) == IF minimal THEN MinimalAt[b] ELSE WordAt[b]

(* The word of that hash is not compared with the letters that were read.   *)
FaultyEncodedByte(part, minimal) ==
  IF Len(part) = (IF minimal THEN 2 ELSE 4)
    THEN BytesIndexedByHash[Hash(part[1], part[Len(part)])]
    ELSE {}

(* Of the tables, no more than this matters: four letters make a word, and  *)
(* no other word has its hash.                                             *)
ASSUME TablesAssumption ==
  /\ CodeOf \in [Ascii -> Nat]
  /\ LowerOf \in [ToSet(UpperCase) -> ToSet(LowerCase)]
  /\ ToSet(LowerCase) \cap {" ", "-", NonAscii} = {}
  /\ ToSet(UpperCase) \cap (Ascii \cup {NonAscii}) = {}
  /\ \A b \in Byte : WordAt[b] \in [1 .. 4 -> ToSet(LowerCase)]
  /\ \A b \in Byte : BytesIndexedByHash[Hash(WordAt[b][1], WordAt[b][4])] = {b}

(* Some byte, or none: a set of at most one.                               *)
EncodedByte(part, minimal) ==
  IF Len(part) = (IF minimal THEN 2 ELSE 4)
    THEN {b \in BytesIndexedByHash[Hash(part[1], part[Len(part)])] : part = Expected(b, minimal)}
    ELSE {}
-----------------------------------------------------------------------------
(* encode, decode                                                          *)

Styles == {"Standard", "Uri", "Minimal"}
Separator(style) == IF style = "Standard" THEN " " ELSE "-"

EncodeWords(bytes, style) ==
  FlattenSeq([k \in DOMAIN bytes |->
    IF style = "Minimal" THEN MinimalAt[bytes[k]]
    ELSE IF k = 1 THEN WordAt[bytes[k]]
    ELSE <<Separator(style)>> \o WordAt[bytes[k]]])

EncodeText(data, style) == EncodeWords(data \o Checksum(data), style)

(* str::split: the pieces between the separators, empty ones included.      *)
SplitAt(text, separator) ==
  FoldLeft(LAMBDA pieces, c : IF c = separator THEN Append(pieces, << >>)
                              ELSE [pieces EXCEPT ![Len(pieces)] = Append(@, c)],
           << << >> >>, text)

Pairs(text) == [k \in 1 .. Len(text) \div 2 |-> SubSeq(text, 2 * k - 1, 2 * k)]

Rejected(error) == [error |-> error, data |-> << >>]

StripChecksum(bytes) ==
  LET data == SubSeq(bytes, 1, Len(bytes) - 4)
  IN  IF Len(bytes) < 4 \/ Checksum(data) # SubSeq(bytes, Len(bytes) - 3, Len(bytes))
        THEN Rejected("InvalidBytewordsChecksum")
        ELSE [error |-> "None", data |-> data]

DecodeParts(parts, minimal) ==
  LET bytes == [k \in DOMAIN parts |-> EncodedByte(parts[k], minimal)]
  IN  IF {} \in ToSet(bytes) THEN Rejected("InvalidWord")
      ELSE StripChecksum([k \in DOMAIN bytes |-> CHOOSE b \in bytes[k] : TRUE])

DecodeText(text, style) ==
  IF ~IsAscii(text) THEN Rejected("NonAscii")
  ELSE IF style # "Minimal" THEN DecodeParts(SplitAt(Lowered(text), Separator(style)), FALSE)
  ELSE IF Len(text) % 2 # 0 THEN Rejected("InvalidBytewordsLength")
  ELSE DecodeParts(Pairs(Lowered(text)), TRUE)
-----------------------------------------------------------------------------
(* canonicalize_byteword: some word, or none.                              *)

WordsWith(three) ==
  {b \in Byte : three \in {SubSeq(WordAt[b], 1, 3), SubSeq(WordAt[b], 2, 4)}}

CanonicalizeThreeLetter(three) ==
  IF Cardinality(WordsWith(three)) = 1 THEN WordsWith(three) ELSE {}

CanonicalizeByteword(token) ==
  LET lower == Lowered(token)
      byte == IF ~IsAscii(token) THEN {}
              ELSE IF Len(token) = 3 THEN CanonicalizeThreeLetter(lower)
              ELSE IF Len(token) \in {2, 4} THEN EncodedByte(lower, Len(token) = 2)
              ELSE {}
  IN  {WordAt[b] : b \in byte}
=============================================================================
