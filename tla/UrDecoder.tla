------------------------------ MODULE UrDecoder ------------------------------
(***************************************************************************)
(* The UR session decoder of crates/bcur/src/ur/mod.rs, around the fountain *)
(* decoder it owns.                                                         *)
(*                                                                         *)
(* A call of receive that reaches the fountain decoder makes one call of    *)
(* fountain::Decoder::receive: `call' holds the URI until that call has     *)
(* returned and its result is dealt with.                                  *)
(***************************************************************************)
EXTENDS FountainDecoder, UriForms

CONSTANTS
  Uris,           \* the strings that can be presented to receive
  MaxUriLen       \* DecoderLimits.max_uri_len

VARIABLES
  expected,       \* the type every part is required to have, or None
  seen,           \* the type pinned by the first success, or None
  single,         \* the payload of a single-part URI, or None
  urPoisoned,     \* why the session is dead, or Alive
  call,           \* the URI whose part the fountain decoder has, or None
  answer          \* what the last call returned

ur == <<expected, seen, single, urPoisoned, call, answer>>
urVars == <<vars, ur>>

ASSUME UrisAssumption ==
  /\ MaxUriLen \in Nat
  /\ None \notin Types
  /\ None \notin Uris
  /\ \A u \in Uris :
       /\ u = [len |-> u.len, parsed |-> u.parsed, type |-> u.type, kind |-> u.kind,
               indices |-> u.indices, body |-> u.body]
       /\ u.len \in Nat
       /\ u.parsed \in BOOLEAN
       /\ u.type \in Types
       /\ u.kind \in {"SinglePart", "MultiPart"}
       /\ u.kind = "MultiPart" /\ u.body # None => u.body \in Parts
       /\ u.kind = "SinglePart" /\ u.body # None => u.body.len \in Nat

UrInit ==
  /\ Init
  /\ expected = None
  /\ seen = None
  /\ single = None
  /\ urPoisoned = Alive
  /\ call = None
  /\ answer = "None"
-----------------------------------------------------------------------------
WithExpectedType(t) ==
  /\ call = None
  /\ expected' = t
  /\ UNCHANGED <<vars, seen, single, urPoisoned, call, answer>>

FaultyCheckType(t) ==                   \* the pinned type is not compared
  expected # None => t = expected

CheckType(t) ==
  /\ expected # None => t = expected
  /\ seen # None => t = seen

(* A call that ends here: with an answer only, or with a poisoned session. *)
UrAnswer(a) ==
  answer' = a /\ UNCHANGED <<vars, expected, seen, single, urPoisoned, call>>

UrPoison(kind) ==
  /\ urPoisoned' = kind
  /\ answer' = kind
  /\ UNCHANGED <<vars, expected, seen, single, call>>

Open == call = None /\ urPoisoned = Alive

Parsed(u) == Open /\ u.len <= MaxUriLen /\ u.parsed

Typed(u, kind) == Parsed(u) /\ CheckType(u.type) /\ u.kind = kind

AnswerUrPoisoned == call = None /\ urPoisoned # Alive /\ UrAnswer(urPoisoned)

PoisonUri(u) == Open /\ u.len > MaxUriLen /\ UrPoison("UriLen")

RejectUri(u) == Open /\ u.len <= MaxUriLen /\ ~u.parsed /\ UrAnswer("InvalidUri")

RejectType(u) == Parsed(u) /\ ~CheckType(u.type) /\ UrAnswer("UnexpectedType")
-----------------------------------------------------------------------------
(* receive_single                                                          *)

FountainStarted == meta.mlen # 0        \* resolved_fragment_count().is_some()

RejectSingle(u) ==
  Typed(u, "SinglePart") /\ FountainStarted /\ UrAnswer("InconsistentPart")

IgnoreSingle(u) ==
  /\ Typed(u, "SinglePart") /\ ~FountainStarted
  /\ single # None
  /\ UrAnswer("Ok")

FaultyFirstSingle(u) ==                 \* a second payload replaces the first
  Typed(u, "SinglePart") /\ ~FountainStarted

FirstSingle(u) == Typed(u, "SinglePart") /\ ~FountainStarted /\ single = None

GarbledSingle(u) == FirstSingle(u) /\ u.body = None /\ UrAnswer("InvalidBody")

PoisonSingle(u) ==
  /\ FirstSingle(u) /\ u.body # None
  /\ u.body.len > MaxMessageLength
  /\ UrPoison("MessageLength")

FaultyTakeSingle(u) ==                  \* the type is not pinned
  /\ FirstSingle(u) /\ u.body # None
  /\ u.body.len <= MaxMessageLength
  /\ single' = u.body
  /\ answer' = "Ok"
  /\ UNCHANGED <<vars, expected, seen, urPoisoned, call>>

TakeSingle(u) ==
  /\ FirstSingle(u) /\ u.body # None
  /\ u.body.len <= MaxMessageLength
  /\ seen' = u.type
  /\ single' = u.body
  /\ answer' = "Ok"
  /\ UNCHANGED <<vars, expected, urPoisoned, call>>

ReceiveSingle(u) ==
  \/ RejectSingle(u) \/ IgnoreSingle(u) \/ GarbledSingle(u)
  \/ PoisonSingle(u) \/ TakeSingle(u)
-----------------------------------------------------------------------------
(* receive_fountain, up to the call of the fountain decoder.  The part      *)
(* codec looks at the limits in its own order.                             *)

RejectMulti(u) ==
  Typed(u, "MultiPart") /\ single # None /\ UrAnswer("InconsistentPart")

FaultyFirstForm(u) ==                   \* a stream joins a single-part session
  Typed(u, "MultiPart")

FirstForm(u) == Typed(u, "MultiPart") /\ single = None

GarbledPart(u) == FirstForm(u) /\ u.body = None /\ UrAnswer("InvalidBody")

CodecData(u) ==
  FirstForm(u) /\ u.body # None /\ u.body.data.len <= MaxFragmentData

Codec(u) ==
  CodecData(u) /\ WellFormed(u.body) /\ u.body.count <= MaxFragmentCount

PoisonPartData(u) ==
  /\ FirstForm(u) /\ u.body # None
  /\ u.body.data.len > MaxFragmentData
  /\ UrPoison("FragmentData")

RejectPart(u) ==
  /\ CodecData(u) /\ ~WellFormed(u.body)
  /\ UrAnswer(IF u.body.seq = 0 THEN "InvalidSequence" ELSE "EmptyPart")

PoisonPartCount(u) ==
  /\ CodecData(u) /\ WellFormed(u.body)
  /\ u.body.count > MaxFragmentCount
  /\ UrPoison("FragmentCount")

RejectIndices(u) ==
  Codec(u) /\ u.indices # <<u.body.seq, u.body.count>> /\ UrAnswer("InvalidIndices")

CallFountain(u) ==
  /\ Codec(u)
  /\ u.indices = <<u.body.seq, u.body.count>>
  /\ AnswerPoisoned \/ AnswerComplete \/ Receive(u.body)
  /\ call' = u
  /\ UNCHANGED <<expected, seen, single, urPoisoned, answer>>

ReceiveFountain(u) ==
  \/ RejectMulti(u) \/ GarbledPart(u) \/ PoisonPartData(u) \/ RejectPart(u)
  \/ PoisonPartCount(u) \/ RejectIndices(u) \/ CallFountain(u)
-----------------------------------------------------------------------------
(* The call of the fountain decoder, and what is made of its result.       *)

FountainStep == call # None /\ (Ingest \/ Drain) /\ UNCHANGED ur

Returned == call # None /\ phase = "idle"

Pin ==
  /\ Returned /\ outcome \in {"Accepted", "Ignored"}
  /\ seen' = IF seen = None THEN call.type ELSE seen
  /\ call' = None
  /\ answer' = "Ok"
  /\ UNCHANGED <<vars, expected, single, urPoisoned>>

FaultyEscalate ==                       \* the error is passed on, and no more
  /\ Returned /\ outcome \in Poisons
  /\ call' = None
  /\ answer' = outcome
  /\ UNCHANGED <<vars, expected, seen, single, urPoisoned>>

Escalate ==
  /\ Returned /\ outcome \in Poisons
  /\ urPoisoned' = outcome
  /\ call' = None
  /\ answer' = outcome
  /\ UNCHANGED <<vars, expected, seen, single>>

FaultyPassOn ==                         \* a rejected part pins its type
  /\ Returned /\ outcome \notin Poisons \cup {"Accepted", "Ignored"}
  /\ seen' = IF seen = None THEN call.type ELSE seen
  /\ call' = None
  /\ answer' = outcome
  /\ UNCHANGED <<vars, expected, single, urPoisoned>>

PassOn ==
  /\ Returned /\ outcome \notin Poisons \cup {"Accepted", "Ignored"}
  /\ call' = None
  /\ answer' = outcome
  /\ UNCHANGED <<vars, expected, seen, single, urPoisoned>>

Conclude == FountainStep \/ Pin \/ Escalate \/ PassOn

UrReceive(u) ==
  \/ PoisonUri(u) \/ RejectUri(u) \/ RejectType(u)
  \/ ReceiveSingle(u) \/ ReceiveFountain(u)

UrNext ==
  \/ \E t \in Types : WithExpectedType(t)
  \/ AnswerUrPoisoned
  \/ \E u \in Uris : UrReceive(u)
  \/ Conclude

(* One synchronous call runs to its end.                                   *)
UrSpec == UrInit /\ [][UrNext]_urVars /\ WF_urVars(Conclude)
-----------------------------------------------------------------------------
(* Decoder::message, and MultipartDecoder::message of the typed layer.      *)

Readable == urPoisoned = Alive /\ (single # None \/ Message = "Message")

Content ==
  IF single # None THEN single ELSE [i \in Fragments |-> decoded[i]]

TypedMessage ==
  CASE urPoisoned # Alive                  -> urPoisoned
    [] urPoisoned = Alive /\ ~Readable      -> Message
    [] urPoisoned = Alive /\ Readable       ->
         IF seen = None THEN "DecoderState" ELSE "Message"
-----------------------------------------------------------------------------
(* Properties.                                                             *)

(* Every variable of the session stays in its type, and the part that the  *)
(* fountain decoder works on is the one of the URI that was presented.     *)
UrTypeOK ==
  /\ TypeOK
  /\ expected \in Types \cup {None}
  /\ seen \in Types \cup {None}
  /\ single \in {u.body : u \in Uris} \cup {None}
  /\ urPoisoned \in Poisons \cup {Alive, "UriLen"}
  /\ call \in {u \in Uris : u.kind = "MultiPart"} \cup {None}

(* A session takes a single payload or a stream, never parts of both.      *)
OneForm == single # None => ~FountainStarted /\ received = {} /\ call = None

(* Between calls the type is pinned exactly when the session holds content:*)
(* neither a rejected URI nor a part that failed half-way pins it.         *)
PinnedWithContent ==
  call = None /\ urPoisoned = Alive =>
    (seen # None <=> single # None \/ received # {})

(* Whatever enters a session has the type it is pinned to and the type the *)
(* caller asked for, and the pin is never moved.                           *)
OneType ==
  [][/\ seen # None => seen' = seen
     /\ received' # received =>
          call'.type \in (IF seen # None THEN {seen} ELSE Types)
                          \cap (IF expected # None THEN {expected} ELSE Types)
     /\ single' # single /\ expected # None => seen' = expected]_urVars

(* A message that can be read stays readable and stays the same, unless    *)
(* the session is closed by a limit.                                       *)
MessageKept ==
  [][Readable => urPoisoned' # Alive \/ (Readable' /\ Content' = Content)]_urVars

(* A dead session stays as it is.                                          *)
FailClosed ==
  [][urPoisoned # Alive => UNCHANGED <<session, seen, single, urPoisoned>>]_urVars

(* When a call has returned, the death of the fountain decoder is that of  *)
(* the session: is_poisoned() and message() agree on it.                   *)
PoisonSurfaces == call = None /\ poisoned # Alive => urPoisoned = poisoned

(* The typed layer never meets a complete session without a type.          *)
TypedComplete == call = None => TypedMessage # "DecoderState"

(* The session as its caller sees it.                                      *)
StreamMessage ==
  [h \in {MetaOf(p) : p \in Parts} |->
     [i \in 0 .. h.count - 1 |-> [len |-> h.len, sum |-> Mixture(h, {i})]]]

Caller == INSTANCE UrSession WITH
            Singles <- {u.body : u \in {w \in Uris : w.kind = "SinglePart"}} \ {None},
            Headers <- {MetaOf(p) : p \in Parts},
            Joined <- StreamMessage,
            wanted <- expected,
            type <- seen,
            form <- IF single # None THEN "single"
                    ELSE IF received # {} THEN "stream" ELSE "nothing",
            header <- IF received # {} THEN meta ELSE None,
            message <- IF Readable THEN Content ELSE None,
            open <- urPoisoned = Alive

(* The UR decoder, with the fountain decoder inside it, implements the      *)
(* session: one content of one type, no message but the one of the stream   *)
(* that was joined, and nothing readable taken back but by a limit.         *)
ImplementsSession == Caller!Spec

(* The part codec is given the limits of the fountain decoder: what it     *)
(* lets through never fails the fountain decoder's own checks of the same. *)
CodecShields ==
  outcome \notin {"EmptyPart", "InvalidSequence", "FragmentData", "FragmentCount"}
-----------------------------------------------------------------------------
(* The inductive invariant behind the properties.                          *)

(* What the fountain decoder has answered, as long as nobody has looked.    *)
AnswerOK ==
  call # None /\ phase = "idle" =>
    /\ poisoned # Alive => outcome = poisoned
    /\ poisoned = Alive => outcome \notin Poisons

(* A call in progress belongs to a live session of the multi-part form, and *)
(* only its success is still to be pinned.                                 *)
InFlight ==
  call # None =>
    /\ urPoisoned = Alive
    /\ single = None
    /\ seen # None => received # {}
    /\ phase # "idle" \/ outcome \in {"Accepted", "Ignored"} => received # {}
    /\ phase = "idle" /\ outcome \notin Poisons \cup {"Accepted", "Ignored"} =>
         (seen # None <=> received # {})

UrIInv ==
  /\ IInv
  /\ UrTypeOK
  /\ OneForm
  /\ PinnedWithContent
  /\ PoisonSurfaces
  /\ CodecShields
  /\ AnswerOK
  /\ InFlight
  /\ call = None => phase = "idle"
=============================================================================
