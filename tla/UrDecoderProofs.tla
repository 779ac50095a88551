--------------------------- MODULE UrDecoderProofs ---------------------------
(***************************************************************************)
(* The invariant of the UR session decoder, for all URIs and all limits.    *)
(* The steps of the session that reach the fountain decoder are steps of    *)
(* FountainDecoder, so its invariant carries over as it is.                 *)
(***************************************************************************)
EXTENDS UrDecoder, FountainDecoderProofs

Shielded == {"EmptyPart", "InvalidSequence", "FragmentData", "FragmentCount"}

(* Every step of the session is a step of the fountain decoder inside it,  *)
(* or leaves that decoder alone.                                           *)
LEMMA SessionStep == UrNext => [Next]_vars
<1> SUFFICES ASSUME UrNext PROVE [Next]_vars
  OBVIOUS
<1>1. CASE (\E t \in Types : WithExpectedType(t)) \/ AnswerUrPoisoned
  BY <1>1 DEF WithExpectedType, AnswerUrPoisoned, UrAnswer
<1>2. ASSUME NEW u \in Uris, UrReceive(u)
      PROVE  [Next]_vars
  <2>1. CASE PoisonUri(u) \/ RejectUri(u) \/ RejectType(u)
    BY <2>1 DEF PoisonUri, RejectUri, RejectType, UrAnswer, UrPoison
  <2>2. CASE ReceiveSingle(u)
    BY <2>2 DEF ReceiveSingle, RejectSingle, IgnoreSingle, GarbledSingle, PoisonSingle,
       TakeSingle, UrAnswer, UrPoison
  <2>3. CASE ReceiveFountain(u)
    <3>1. CASE CallFountain(u)
      <4>1. u.kind = "MultiPart" /\ u.body # None
        BY <3>1 DEF CallFountain, Codec, CodecData, FirstForm, Typed
      <4>2. u.body \in Parts
        BY <4>1, UrisAssumption
      <4> QED BY <3>1, <4>2 DEF CallFountain, Next
    <3>2. CASE ~CallFountain(u)
      BY <2>3, <3>2 DEF ReceiveFountain, RejectMulti, GarbledPart, PoisonPartData,
         RejectPart, PoisonPartCount, RejectIndices, UrAnswer, UrPoison
    <3> QED BY <3>1, <3>2
  <2> QED BY <1>2, <2>1, <2>2, <2>3 DEF UrReceive
<1>3. CASE Conclude
  BY <1>3 DEF Conclude, FountainStep, Pin, Escalate, PassOn, Next
<1> QED BY <1>1, <1>2, <1>3 DEF UrNext

LEMMA SessionStepIInv == IInv /\ [UrNext]_urVars => IInv'
BY SessionStep, NextIInv DEF urVars
-----------------------------------------------------------------------------
(* What a call into the fountain decoder does at once, and what it does     *)
(* while it runs.                                                          *)

LEMMA CallShape ==
  ASSUME UrIInv, NEW u \in Uris, CallFountain(u)
  PROVE  /\ poisoned = Alive /\ urPoisoned = Alive /\ call = None /\ phase = "idle"
         /\ single = None /\ CheckType(u.type)
         /\ u \in {w \in Uris : w.kind = "MultiPart"}
         /\ outcome' \notin Shielded
         /\ phase' = "ingest" => received' # {}
         /\ phase' # "ingest" =>
              /\ phase' = "idle" /\ received' = received
              /\ outcome' \in {"Accepted", "Ignored"} => received # {}
              /\ poisoned' # Alive => outcome' = poisoned'
              /\ poisoned' = Alive => outcome' \notin Poisons
<1>1. /\ call = None /\ urPoisoned = Alive /\ single = None /\ CheckType(u.type)
      /\ u.kind = "MultiPart" /\ u.body # None
      /\ ~IsEmpty(u.body) /\ DataFits(u.body) /\ CountFits(u.body) /\ u.body.seq # 0
  BY DEF CallFountain, Codec, CodecData, FirstForm, Typed, Parsed, Open, WellFormed,
     DataFits, CountFits
<1>2. poisoned = Alive /\ phase = "idle"
  BY <1>1 DEF UrIInv, PoisonSurfaces
<1>3. ~AnswerPoisoned /\ ~RejectEmpty(u.body) /\ ~RejectSequence(u.body)
      /\ ~PoisonData(u.body) /\ ~PoisonCount(u.body)
  BY <1>1, <1>2 DEF AnswerPoisoned, RejectEmpty, RejectSequence, PoisonData, PoisonCount
<1>4. CASE AnswerComplete
  <2>1. received # {}
    BY <1>4 DEF AnswerComplete, Complete, UrIInv, IInv, Pinned
  <2> QED BY <1>1, <1>2, <1>4, <2>1
      DEF AnswerComplete, Answer, session, Shielded, Poisons, Limits, Alive
<1>5. CASE RejectInconsistent(u.body) \/ IgnoreDuplicate(u.body)
  BY <1>1, <1>2, <1>5
  DEF RejectInconsistent, IgnoreDuplicate, IsDuplicate, Answer, session, Shielded, Poisons, Limits, Alive
<1>6. CASE PoisonLength(u.body) \/ PoisonReceived(u.body)
  BY <1>1, <1>2, <1>6
  DEF PoisonLength, PoisonReceived, Poison, Unaltered, Shielded, Poisons, Limits, Alive
<1>7. CASE Accept(u.body)
  BY <1>1, <1>2, <1>7 DEF Accept, Shielded
<1> QED BY <1>3, <1>4, <1>5, <1>6, <1>7 DEF CallFountain, Receive

LEMMA RunShape ==
  ASSUME UrIInv, FountainStep
  PROVE  /\ phase # "idle" /\ poisoned = Alive
         /\ received' = received
         /\ outcome' = outcome \/ outcome' \notin Shielded
         /\ phase' = "idle" =>
              /\ poisoned' # Alive => outcome' = poisoned'
              /\ poisoned' = Alive => outcome' = "Accepted"
<1>1. phase # "idle"
  BY DEF FountainStep, Ingest, Drain, IngestKnown, IngestNew, StripKnown, PopSimple, Return, Reduce
<1>2. poisoned = Alive
  BY <1>1 DEF UrIInv, IInv, Control
<1>3. ASSUME NEW rest, NEW vec, NEW data, UNCHANGED <<received, meta>>,
             \/ Overflow(rest, vec)
             \/ /\ Resolve(rest, vec, data) \/ Discard(rest, vec) \/ Keep(rest, vec, data)
                /\ UNCHANGED outcome /\ phase' # "idle"
      PROVE  /\ received' = received
             /\ outcome' = outcome \/ outcome' \notin Shielded
             /\ phase' = "idle" => poisoned' # Alive /\ outcome' = poisoned'
  BY <1>3 DEF Overflow, Poison, Shielded, Alive
<1>4. ASSUME NEW rest, InternalError(rest)
      PROVE  /\ received' = received /\ outcome' \notin Shielded
             /\ poisoned' # Alive /\ outcome' = poisoned'
  BY <1>4 DEF InternalError, Poison, Shielded, Alive
<1>5. CASE IngestKnown \/ PopSimple \/ Return
  BY <1>1, <1>2, <1>5 DEF IngestKnown, EnterDrain, PopSimple, Return, session, Shielded
<1>6. CASE IngestNew
  BY <1>1, <1>2, <1>3, <1>6 DEF IngestNew, EnterDrain
<1>7. ASSUME NEW i \in KnownOf(part.vec), StripKnown(i)
      PROVE  /\ received' = received
             /\ outcome' = outcome \/ outcome' \notin Shielded
             /\ phase' = "idle" => poisoned' # Alive /\ outcome' = poisoned'
  BY <1>1, <1>4, <1>7 DEF StripKnown, session
<1>8. ASSUME NEW v \in todo, Reduce(v)
      PROVE  /\ received' = received
             /\ outcome' = outcome \/ outcome' \notin Shielded
             /\ phase' = "idle" => poisoned' # Alive /\ outcome' = poisoned'
  BY <1>1, <1>3, <1>4, <1>8 DEF Reduce
<1> QED BY <1>1, <1>2, <1>5, <1>6, <1>7, <1>8 DEF FountainStep, Ingest, Drain
-----------------------------------------------------------------------------
(* The inductive invariant.                                                *)

LEMMA UrInitIInv == UrInit => UrIInv
<1> SUFFICES ASSUME UrInit PROVE UrIInv
  OBVIOUS
<1>1. IInv
  BY InitIInv DEF UrInit
<1>2. UrTypeOK
  BY <1>1 DEF UrInit, UrTypeOK, IInv
<1>3. PinnedWithContent /\ PoisonSurfaces /\ OneForm
  BY DEF UrInit, Init, PinnedWithContent, PoisonSurfaces, OneForm
<1>4. CodecShields
  BY DEF UrInit, Init, CodecShields
<1> QED BY <1>1, <1>2, <1>3, <1>4 DEF UrInit, Init, UrIInv, AnswerOK, InFlight

(* A call that ends at a check changes no more than an answer, or poisons. *)
LEMMA UrAnswerIInv ==
  ASSUME UrIInv, NEW a, UrAnswer(a)
  PROVE  UrIInv'
<1>1. IInv'
  BY SessionStepIInv, NextIInv DEF UrAnswer, UrIInv
<1> QED
  BY <1>1 DEF UrAnswer, vars, session, UrIInv, UrTypeOK, IInv, OneForm, FountainStarted,
     PinnedWithContent, PoisonSurfaces, CodecShields, AnswerOK, InFlight

LEMMA UrPoisonIInv ==
  ASSUME UrIInv, Open, NEW kind \in Poisons \cup {"UriLen"}, UrPoison(kind)
  PROVE  UrIInv'
<1>1. IInv'
  BY NextIInv DEF UrPoison, UrIInv
<1>2. kind # Alive
  BY DEF Poisons, Limits, Alive
<1>3. poisoned = Alive
  BY DEF Open, UrIInv, PoisonSurfaces
<1> QED
  BY <1>1, <1>2, <1>3 DEF UrPoison, Open, vars, session, UrIInv, UrTypeOK, IInv, OneForm,
     FountainStarted, PinnedWithContent, PoisonSurfaces, CodecShields, AnswerOK, InFlight

LEMMA TakeSingleIInv ==
  ASSUME UrIInv, NEW u \in Uris, TakeSingle(u)
  PROVE  UrIInv' /\ seen = None /\ (expected # None => u.type = expected)
<1>1. /\ call = None /\ urPoisoned = Alive /\ single = None /\ ~FountainStarted
      /\ u.body # None /\ CheckType(u.type) /\ UNCHANGED vars
      /\ seen' = u.type /\ single' = u.body /\ UNCHANGED <<expected, urPoisoned, call>>
  BY DEF TakeSingle, FirstSingle, Typed, Parsed, Open
<1>2. IInv'
  BY <1>1, NextIInv DEF UrIInv
<1>3. received = {}
  BY <1>1 DEF FountainStarted, UrIInv, IInv, Pinned
<1>4. seen = None
  BY <1>1, <1>3 DEF UrIInv, PinnedWithContent
<1>5. u.type \in Types /\ u.type # None
  BY UrisAssumption
<1>6. UrTypeOK'
  BY <1>1, <1>2, <1>5 DEF UrIInv, UrTypeOK, IInv
<1>7. OneForm' /\ PinnedWithContent' /\ PoisonSurfaces' /\ CodecShields'
  BY <1>1, <1>3, <1>5 DEF vars, session, UrIInv, OneForm, FountainStarted, PinnedWithContent,
     PoisonSurfaces, CodecShields
<1> QED
  BY <1>1, <1>2, <1>4, <1>6, <1>7 DEF vars, session, UrIInv, AnswerOK, InFlight, CheckType

LEMMA CallFountainIInv ==
  ASSUME UrIInv, NEW u \in Uris, CallFountain(u)
  PROVE  UrIInv'
<1>1. CallFountain(u) => UrNext
  BY DEF UrNext, UrReceive, ReceiveFountain
<1>2. IInv'
  BY <1>1, SessionStepIInv DEF UrIInv
<1>3. /\ call' = u /\ u # None
      /\ UNCHANGED <<expected, seen, single, urPoisoned, answer>>
  BY UrisAssumption DEF CallFountain
<1>4. UrTypeOK'
  BY <1>2, <1>3, CallShape DEF UrIInv, UrTypeOK, IInv
<1>5. OneForm' /\ PinnedWithContent' /\ PoisonSurfaces'
  BY <1>3, CallShape DEF OneForm, PinnedWithContent, PoisonSurfaces
<1>6. CodecShields'
  BY CallShape DEF CodecShields, Shielded
<1>7. AnswerOK'
  BY <1>3, CallShape DEF AnswerOK
<1>8. seen # None <=> received # {}
  BY CallShape DEF UrIInv, PinnedWithContent
<1>9. InFlight'
  BY <1>3, <1>8, CallShape DEF InFlight
<1> QED BY <1>2, <1>3, <1>4, <1>5, <1>6, <1>7, <1>9 DEF UrIInv

LEMMA FountainStepIInv ==
  ASSUME UrIInv, FountainStep
  PROVE  UrIInv'
<1>1. IInv'
  BY SessionStepIInv DEF UrIInv, UrNext, Conclude
<1>2. call # None /\ UNCHANGED ur
  BY DEF FountainStep
<1>3. UrTypeOK'
  BY <1>1, <1>2 DEF ur, UrIInv, UrTypeOK, IInv
<1>4. OneForm' /\ PinnedWithContent' /\ PoisonSurfaces'
  BY <1>2 DEF ur, UrIInv, InFlight, OneForm, PinnedWithContent, PoisonSurfaces
<1>5. CodecShields'
  BY RunShape DEF UrIInv, CodecShields, Shielded
<1>6. AnswerOK'
  <2>1. "Accepted" \notin Poisons
    BY DEF Poisons, Limits
  <2> QED BY <1>2, <2>1, RunShape DEF AnswerOK
<1>7. InFlight'
  <2>1. received # {}
    BY <1>2, RunShape DEF UrIInv, InFlight
  <2>2. poisoned' \in Poisons \cup {Alive}
    BY <1>1 DEF IInv, TypeOK, FlightOK
  <2>3. phase' = "idle" => outcome' \in Poisons \cup {"Accepted"}
    BY <2>2, RunShape
  <2>4. received' = received /\ UNCHANGED <<seen, single, urPoisoned, call>>
    BY <1>2, RunShape DEF ur
  <2> QED BY <1>2, <2>1, <2>3, <2>4 DEF UrIInv, InFlight
<1> QED BY <1>1, <1>2, <1>3, <1>4, <1>5, <1>6, <1>7 DEF ur, UrIInv

LEMMA ReturnedIInv ==
  ASSUME UrIInv, Pin \/ Escalate \/ PassOn
  PROVE  UrIInv'
<1>1. IInv'
  BY NextIInv DEF UrIInv, Pin, Escalate, PassOn
<1>2. /\ call # None /\ phase = "idle" /\ call' = None /\ UNCHANGED vars
      /\ UNCHANGED <<expected, single>>
      /\ urPoisoned = Alive /\ single = None /\ call.type \in Types /\ call.type # None
  BY UrisAssumption DEF Pin, Escalate, PassOn, Returned, UrIInv, InFlight, UrTypeOK
<1>3. UNCHANGED <<session, phase, outcome>>
  BY <1>2 DEF vars
<1>4. CASE Pin
  <2>1. outcome \notin Poisons /\ outcome \in {"Accepted", "Ignored"}
    BY <1>4 DEF Pin, Poisons, Limits
  <2>2. poisoned = Alive /\ received # {}
    BY <1>2, <2>1 DEF UrIInv, AnswerOK, InFlight, IInv, TypeOK, FlightOK
  <2>3. seen' \in Types /\ seen' # None /\ urPoisoned' = Alive
    BY <1>2, <1>4, UrisAssumption DEF Pin, UrIInv, UrTypeOK
  <2> QED BY <1>1, <1>2, <1>3, <2>2, <2>3
      DEF session, UrIInv, UrTypeOK, IInv, OneForm, FountainStarted, PinnedWithContent,
          PoisonSurfaces, CodecShields, AnswerOK, InFlight
<1>5. CASE Escalate
  <2>1. outcome \in Poisons /\ urPoisoned' = outcome /\ UNCHANGED seen
    BY <1>5 DEF Escalate
  <2>2. poisoned = outcome /\ outcome # Alive
    BY <1>2, <2>1 DEF UrIInv, AnswerOK, Poisons, Limits, Alive
  <2> QED BY <1>1, <1>2, <1>3, <2>1, <2>2
      DEF session, UrIInv, UrTypeOK, IInv, OneForm, FountainStarted, PinnedWithContent,
          PoisonSurfaces, CodecShields, AnswerOK, InFlight
<1>6. CASE PassOn
  <2>1. outcome \notin Poisons \cup {"Accepted", "Ignored"} /\ UNCHANGED <<seen, urPoisoned>>
    BY <1>6 DEF PassOn
  <2>2. poisoned = Alive /\ (seen # None <=> received # {})
    BY <1>2, <2>1 DEF UrIInv, AnswerOK, InFlight, IInv, TypeOK, FlightOK
  <2> QED BY <1>1, <1>2, <1>3, <2>1, <2>2
      DEF session, UrIInv, UrTypeOK, IInv, OneForm, FountainStarted, PinnedWithContent,
          PoisonSurfaces, CodecShields, AnswerOK, InFlight
<1> QED BY <1>4, <1>5, <1>6

LEMMA WithExpectedTypeIInv ==
  ASSUME UrIInv, NEW t \in Types, WithExpectedType(t)
  PROVE  UrIInv'
<1>1. IInv'
  BY NextIInv DEF WithExpectedType, UrIInv
<1> QED
  BY <1>1 DEF WithExpectedType, vars, session, UrIInv, UrTypeOK, IInv, OneForm,
     FountainStarted, PinnedWithContent, PoisonSurfaces, CodecShields, AnswerOK, InFlight

LEMMA UrNextIInv == UrIInv /\ [UrNext]_urVars => UrIInv'
<1> SUFFICES ASSUME UrIInv, [UrNext]_urVars PROVE UrIInv'
  OBVIOUS
<1>1. CASE UNCHANGED urVars
  <2>1. UrAnswer(answer)
    BY <1>1 DEF urVars, ur, UrAnswer
  <2> QED BY <2>1, UrAnswerIInv
<1>2. CASE (\E t \in Types : WithExpectedType(t)) \/ AnswerUrPoisoned
  BY <1>2, WithExpectedTypeIInv, UrAnswerIInv DEF AnswerUrPoisoned
<1>3. ASSUME NEW u \in Uris, UrReceive(u)
      PROVE  UrIInv'
  <2>1. CASE \/ PoisonUri(u) \/ PoisonSingle(u) \/ PoisonPartData(u) \/ PoisonPartCount(u)
    <3>1. /\ Open
          /\ \E kind \in {"UriLen", "MessageLength", "FragmentData", "FragmentCount"} :
               UrPoison(kind)
      BY <2>1 DEF PoisonUri, PoisonSingle, PoisonPartData, PoisonPartCount, CodecData,
         FirstForm, FirstSingle, Typed, Parsed
    <3>2. {"UriLen", "MessageLength", "FragmentData", "FragmentCount"}
            \subseteq Poisons \cup {"UriLen"}
      BY DEF Poisons, Limits
    <3> QED BY <3>1, <3>2, UrPoisonIInv
  <2>2. CASE RejectUri(u) \/ RejectType(u) \/ RejectSingle(u) \/ IgnoreSingle(u)
             \/ GarbledSingle(u) \/ RejectMulti(u) \/ GarbledPart(u) \/ RejectPart(u)
             \/ RejectIndices(u)
    BY <2>2, UrAnswerIInv DEF RejectUri, RejectType, RejectSingle, IgnoreSingle,
       GarbledSingle, RejectMulti, GarbledPart, RejectPart, RejectIndices
  <2>3. CASE TakeSingle(u) \/ CallFountain(u)
    BY <2>3, TakeSingleIInv, CallFountainIInv
  <2> QED BY <1>3, <2>1, <2>2, <2>3 DEF UrReceive, ReceiveSingle, ReceiveFountain
<1>4. CASE Conclude
  BY <1>4, FountainStepIInv, ReturnedIInv DEF Conclude
<1> QED BY <1>1, <1>2, <1>3, <1>4 DEF UrNext

(***************************************************************************)
(* The inductive invariant of the session holds for all URIs and limits:    *)
(* one form, a type exactly with content, and agreement with the decoder    *)
(* inside on who is dead and on which parts are well formed.                *)
(***************************************************************************)
THEOREM UrInvariance == UrSpec => []UrIInv
BY UrInitIInv, UrNextIInv, PTL DEF UrSpec
-----------------------------------------------------------------------------
(* The properties of the session.                                          *)

(* A session never holds both a single payload and parts of a stream.      *)
THEOREM OneFormHolds == UrSpec => []OneForm
<1>1. UrIInv => OneForm
  BY DEF UrIInv
<1> QED BY <1>1, UrInvariance, PTL

(* A type is pinned exactly when content has been accepted.                *)
THEOREM PinnedHolds == UrSpec => []PinnedWithContent
<1>1. UrIInv => PinnedWithContent
  BY DEF UrIInv
<1> QED BY <1>1, UrInvariance, PTL

(* The session reports the death of the fountain decoder inside it.        *)
THEOREM PoisonSurfacesHolds == UrSpec => []PoisonSurfaces
<1>1. UrIInv => PoisonSurfaces
  BY DEF UrIInv
<1> QED BY <1>1, UrInvariance, PTL

(* Parts that pass the codec pass the same checks of the fountain decoder. *)
THEOREM CodecShieldsHolds == UrSpec => []CodecShields
<1>1. UrIInv => CodecShields
  BY DEF UrIInv
<1> QED BY <1>1, UrInvariance, PTL

(* MultipartDecoder::message never lacks the type of a complete session.   *)
NoUrDecoderState == poisoned # "DecoderState" /\ urPoisoned # "DecoderState"

LEMMA UrNextNoDecoderState ==
  UrIInv /\ NoUrDecoderState /\ [UrNext]_urVars => NoUrDecoderState'
<1> SUFFICES ASSUME UrIInv, NoUrDecoderState, [UrNext]_urVars PROVE NoUrDecoderState'
  OBVIOUS
<1>1. poisoned' # "DecoderState"
  BY SessionStep, NextNoDecoderState DEF NoUrDecoderState, NoDecoderState, UrIInv, urVars
<1>2. CASE UNCHANGED urPoisoned
  BY <1>1, <1>2 DEF NoUrDecoderState
<1>3. CASE Escalate
  <2>1. urPoisoned' = poisoned
    BY <1>3 DEF Escalate, Returned, UrIInv, AnswerOK, IInv, TypeOK, FlightOK
  <2> QED BY <1>1, <2>1 DEF NoUrDecoderState
<1>4. ASSUME NEW u \in Uris, UrReceive(u)
      PROVE  urPoisoned' = urPoisoned \/ urPoisoned' # "DecoderState"
  BY <1>4 DEF UrReceive, PoisonUri, RejectUri, RejectType, ReceiveSingle, RejectSingle,
     IgnoreSingle, GarbledSingle, PoisonSingle, TakeSingle, ReceiveFountain, RejectMulti,
     GarbledPart, PoisonPartData, RejectPart, PoisonPartCount, RejectIndices, CallFountain,
     UrAnswer, UrPoison
<1>5. \/ UNCHANGED urPoisoned \/ Escalate
      \/ \E u \in Uris : UrReceive(u)
  BY DEF UrNext, Conclude, FountainStep, Pin, PassOn, WithExpectedType, AnswerUrPoisoned,
     UrAnswer, urVars, ur
<1> QED BY <1>1, <1>2, <1>3, <1>4, <1>5 DEF NoUrDecoderState

LEMMA IInvTypedComplete == UrIInv /\ NoUrDecoderState => TypedComplete
<1> SUFFICES ASSUME UrIInv, NoUrDecoderState, call = None
             PROVE  TypedMessage # "DecoderState"
  BY DEF TypedComplete
<1>1. CASE urPoisoned # Alive
  BY <1>1 DEF TypedMessage, NoUrDecoderState
<1>2. CASE urPoisoned = Alive /\ ~Readable
  <2>1. Message # "DecoderState"
    BY IInvNoInternalError DEF UrIInv, NoUrDecoderState, NoDecoderState, NoInternalError
  <2> QED BY <1>2, <2>1 DEF TypedMessage
<1>3. CASE urPoisoned = Alive /\ Readable
  <2>1. single # None \/ received # {}
    <3>1. CASE Message = "Message"
      <4>1. poisoned = Alive /\ Complete
        BY <3>1 DEF Message, UrIInv, IInv, TypeOK, FlightOK, Poisons, Limits
      <4> QED BY <4>1 DEF Complete, UrIInv, IInv, Pinned
    <3> QED BY <1>3, <3>1 DEF Readable
  <2>2. seen # None
    BY <1>3, <2>1 DEF UrIInv, PinnedWithContent
  <2> QED BY <1>3, <2>2 DEF TypedMessage
<1> QED BY <1>1, <1>2, <1>3

THEOREM TypedCompleteHolds == UrSpec => []TypedComplete
<1>1. UrInit => NoUrDecoderState
  BY DEF UrInit, Init, Alive, NoUrDecoderState
<1> QED BY <1>1, UrNextNoDecoderState, IInvTypedComplete, UrInvariance, PTL DEF UrSpec
-----------------------------------------------------------------------------
(* What a step of a session may never do.                                  *)

TypeStep ==
  /\ seen # None => seen' = seen
  /\ received' # received =>
       call'.type \in (IF seen # None THEN {seen} ELSE Types)
                       \cap (IF expected # None THEN {expected} ELSE Types)
  /\ single' # single /\ expected # None => seen' = expected

LEMMA UrNextType == UrIInv /\ [UrNext]_urVars => TypeStep
<1> SUFFICES ASSUME UrIInv, [UrNext]_urVars PROVE TypeStep
  OBVIOUS
<1>1. CASE received' = received /\ single' = single /\ (seen # None => seen' = seen)
  BY <1>1 DEF TypeStep
<1>2. ASSUME NEW u \in Uris, TakeSingle(u)
      PROVE  TypeStep
  <2>1. /\ seen' = u.type /\ seen = None /\ (expected # None => u.type = expected)
        /\ received' = received
    BY <1>2, TakeSingleIInv DEF TakeSingle, vars, session
  <2> QED BY <2>1 DEF TypeStep
<1>3. ASSUME NEW u \in Uris, CallFountain(u)
      PROVE  TypeStep
  <2>1. /\ CheckType(u.type) /\ call' = u /\ u.type \in Types
        /\ UNCHANGED <<seen, single>>
    BY <1>3, CallShape, UrisAssumption DEF CallFountain
  <2> QED BY <2>1 DEF TypeStep, CheckType
<1>4. CASE FountainStep
  BY <1>1, <1>4, RunShape DEF FountainStep, ur
<1>5. ASSUME NEW u \in Uris, UrReceive(u), ~TakeSingle(u), ~CallFountain(u)
      PROVE  UNCHANGED <<received, single, seen>>
  BY <1>5 DEF UrReceive, PoisonUri, RejectUri, RejectType, ReceiveSingle, RejectSingle,
     IgnoreSingle, GarbledSingle, PoisonSingle, ReceiveFountain, RejectMulti, GarbledPart,
     PoisonPartData, RejectPart, PoisonPartCount, RejectIndices, UrAnswer, UrPoison,
     vars, session
<1>6. CASE \/ UNCHANGED urVars \/ AnswerUrPoisoned \/ (\E t \in Types : WithExpectedType(t))
           \/ Pin \/ Escalate \/ PassOn
  BY <1>1, <1>6 DEF urVars, ur, AnswerUrPoisoned, UrAnswer, WithExpectedType, Pin, Escalate,
     PassOn, vars, session
<1> QED BY <1>1, <1>2, <1>3, <1>4, <1>5, <1>6 DEF UrNext, Conclude

(***************************************************************************)
(* A session is of one type: the pin never moves, and nothing of another    *)
(* type, or of a type the caller did not ask for, ever enters.              *)
(***************************************************************************)
THEOREM OneTypeHolds == UrSpec => OneType
BY UrInvariance, UrNextType, PTL DEF UrSpec, OneType, TypeStep

ClosedStep == urPoisoned # Alive => UNCHANGED <<session, seen, single, urPoisoned>>

LEMMA UrNextClosed == UrIInv /\ [UrNext]_urVars => ClosedStep
<1> SUFFICES ASSUME UrIInv, [UrNext]_urVars, urPoisoned # Alive
             PROVE  UNCHANGED <<session, seen, single, urPoisoned>>
  BY DEF ClosedStep
<1>1. call = None
  BY DEF UrIInv, InFlight
<1>2. ~Conclude
  BY <1>1 DEF Conclude, FountainStep, Pin, Escalate, PassOn, Returned
<1>3. ASSUME NEW u \in Uris, UrReceive(u)
      PROVE  FALSE
  BY <1>3 DEF UrReceive, PoisonUri, RejectUri, RejectType, ReceiveSingle, RejectSingle,
     IgnoreSingle, GarbledSingle, PoisonSingle, TakeSingle, ReceiveFountain, RejectMulti,
     GarbledPart, PoisonPartData, RejectPart, PoisonPartCount, RejectIndices, CallFountain,
     Codec, CodecData, FirstForm, FirstSingle, Typed, Parsed, Open
<1> QED BY <1>2, <1>3 DEF UrNext, AnswerUrPoisoned, UrAnswer, WithExpectedType, urVars, ur,
    vars

(* A session that is dead stays exactly as it is.                          *)
THEOREM FailClosedHolds == UrSpec => FailClosed
BY UrInvariance, UrNextClosed, PTL DEF UrSpec, FailClosed, ClosedStep
-----------------------------------------------------------------------------
(* A message that has become readable.                                     *)

LEMMA CompleteLives ==
  ASSUME IInv, BoundInv, poisoned = Alive, Complete, [Next]_vars
  PROVE  poisoned' = Alive
<1>1. CASE phase = "drain"
  BY <1>1, DrainStep
<1>2. CASE phase = "ingest"
  <2>1. Range(part.vec) \subseteq DOMAIN decoded
    BY CompleteJoinable DEF Joinable, IInv, TypeOK, FlightOK, Range
  <2>2. KnownOf(part.vec) # {}
    <3>1. part.vec # << >> /\ part.vec \in Seq(0 .. meta.count - 1)
      BY <1>2 DEF IInv, Control, IsIndexVector
    <3>2. part.vec[1] \in Range(part.vec)
      BY <3>1 DEF Range
    <3> QED BY <2>1, <3>2 DEF KnownOf
  <2>3. CASE IngestKnown \/ UNCHANGED vars
    BY <2>3 DEF IngestKnown, session, vars
  <2>4. ~(\E p \in Parts : Receive(p)) /\ ~AnswerPoisoned /\ ~AnswerComplete /\ ~Drain
    BY <1>2 DEF Receive, RejectEmpty, RejectSequence, RejectInconsistent, PoisonData, PoisonCount,
       PoisonLength, PoisonReceived, IgnoreDuplicate, Accept, Listening, AnswerPoisoned,
       AnswerComplete, Drain, PopSimple, Return, Reduce
  <2> QED BY <2>1, <2>2, <2>3, <2>4 DEF Next, Ingest, IngestNew, StripKnown
<1>3. CASE phase = "idle"
  <2>1. ~(\E p \in Parts : Receive(p)) /\ ~Ingest /\ ~Drain
    BY <1>3 DEF Receive, RejectEmpty, RejectSequence, RejectInconsistent, PoisonData, PoisonCount,
       PoisonLength, PoisonReceived, IgnoreDuplicate, Accept, Listening, Ingest, IngestKnown,
       IngestNew, StripKnown, Drain, PopSimple, Return, Reduce
  <2> QED BY <2>1 DEF Next, AnswerPoisoned, AnswerComplete, Answer, session, vars
<1> QED BY <1>1, <1>2, <1>3 DEF IInv, TypeOK, FlightOK

LEMMA CompleteStays ==
  ASSUME IInv, BoundInv, [Next]_vars, Message = "Message"
  PROVE  /\ Message' = "Message" /\ meta' = meta
         /\ \A i \in Fragments : decoded'[i] = decoded[i]
<1>1. poisoned = Alive /\ Complete /\ Representable /\ Joinable /\ Intact
  BY DEF Message, IInv, TypeOK, FlightOK, Poisons, Limits
<1>2. poisoned' = Alive
  BY <1>1, CompleteLives
<1>3. IInv'
  BY NextIInv
<1>4. /\ meta' = meta
      /\ \A i \in DOMAIN decoded : i \in DOMAIN decoded' /\ decoded'[i] = decoded[i]
  BY <1>1, NextKept DEF Complete, Kept, IInv, Pinned
<1>5. Fragments' = Fragments
  BY <1>4 DEF Fragments
<1>6. DOMAIN decoded = Fragments /\ DOMAIN decoded' = Fragments
  BY <1>1, <1>3, <1>4, <1>5 DEF Joinable, IInv, TypeOK, StoreOK
<1>7. Complete' /\ Representable' /\ Joinable' /\ Intact'
  BY <1>1, <1>4, <1>5, <1>6 DEF Complete, Representable, Joinable, Intact
<1>8. Message' = "Message"
  BY <1>2, <1>7 DEF Message
<1> QED BY <1>4, <1>6, <1>8

ReadableStep == Readable => urPoisoned' # Alive \/ (Readable' /\ Content' = Content)

LEMMA UrNextReadable == UrIInv /\ BoundInv /\ [UrNext]_urVars => ReadableStep
<1> SUFFICES ASSUME UrIInv, BoundInv, [UrNext]_urVars, Readable, urPoisoned' = Alive
             PROVE  Readable' /\ Content' = Content
  BY DEF ReadableStep
<1>1. single' = single \/ (\E u \in Uris : TakeSingle(u))
  BY DEF UrNext, UrReceive, PoisonUri, RejectUri, RejectType, ReceiveSingle, RejectSingle,
     IgnoreSingle, GarbledSingle, PoisonSingle, ReceiveFountain, RejectMulti, GarbledPart,
     PoisonPartData, RejectPart, PoisonPartCount, RejectIndices, CallFountain, Conclude,
     FountainStep, Pin, Escalate, PassOn, WithExpectedType, AnswerUrPoisoned, UrAnswer,
     UrPoison, urVars, ur
<1>2. CASE single # None
  <2>1. single' = single
    BY <1>1, <1>2 DEF TakeSingle, FirstSingle
  <2> QED BY <1>2, <2>1 DEF Readable, Content
<1>3. CASE single = None
  <2>1. Message = "Message"
    BY <1>3 DEF Readable
  <2>2. FountainStarted
    BY <2>1 DEF Message, Complete, FountainStarted, UrIInv, IInv, TypeOK, FlightOK, Poisons, Limits
  <2>3. single' = None
    BY <1>1, <1>3, <2>2 DEF TakeSingle, FirstSingle
  <2>4. /\ Message' = "Message" /\ meta' = meta
        /\ \A i \in Fragments : decoded'[i] = decoded[i]
    BY <2>1, SessionStep, CompleteStays DEF UrIInv, urVars
  <2>5. Content' = Content
    BY <1>3, <2>3, <2>4 DEF Content, Fragments
  <2> QED BY <2>4, <2>5 DEF Readable
<1> QED BY <1>2, <1>3

LEMMA UrNextBound == UrIInv /\ BoundInv /\ [UrNext]_urVars => BoundInv'
BY SessionStep, NextBound DEF UrIInv, urVars

(***************************************************************************)
(* Nothing that is presented after a message has become readable changes    *)
(* it; only a limit can take it away, by closing the session.               *)
(***************************************************************************)
THEOREM MessageKeptHolds == UrSpec => MessageKept
<1>1. UrInit => BoundInv
  BY InitBound DEF UrInit
<1> QED BY <1>1, UrNextBound, UrNextReadable, UrInvariance, PTL DEF UrSpec, MessageKept, ReadableStep
-----------------------------------------------------------------------------
(* The session as its caller sees it.                                      *)

Yields == Message = "Message"

(* What the fountain decoder's step can be to the session around it.        *)
StaysEmpty == received = {} /\ received' = {} /\ ~Yields /\ ~Yields'

Begins ==
  /\ received = {} /\ received' # {} /\ ~Yields /\ ~Yields'
  /\ \E p \in Parts : meta' = MetaOf(p)

GoesOn == received # {} /\ received' # {} /\ meta' = meta /\ (Yields' => Yields)

Ends ==
  /\ received # {} /\ received' # {} /\ meta' = meta /\ ~Yields /\ Yields'
  /\ decoded' = [i \in Fragments |-> [len |-> meta.len, sum |-> Mixture(meta, {i})]]

LEMMA FirstReceived ==
  ASSUME [Next]_vars, received = {}, received' # {}
  PROVE  \E p \in Parts : Accept(p)
<1>1. ASSUME NEW p \in Parts, Receive(p)
      PROVE  Accept(p)
  BY <1>1 DEF Receive, RejectEmpty, RejectSequence, RejectInconsistent, PoisonData, PoisonCount,
     PoisonLength, PoisonReceived, IgnoreDuplicate, Answer, Unaltered, session
<1>2. CASE UNCHANGED received
  BY <1>2
<1>3. CASE Ingest
  BY <1>2, <1>3 DEF Ingest, IngestKnown, IngestNew, StripKnown, session, InternalError
<1>4. CASE Drain
  BY <1>2, <1>4 DEF Drain, PopSimple, Return, Reduce, session, InternalError
<1> QED BY <1>1, <1>2, <1>3, <1>4 DEF Next, AnswerPoisoned, AnswerComplete, Answer, session, vars

LEMMA NothingYields == IInv /\ received = {} => ~Yields
<1> SUFFICES ASSUME IInv, received = {}, Yields PROVE FALSE
  OBVIOUS
<1>1. poisoned = Alive /\ Complete
  BY DEF Yields, Message, IInv, TypeOK, FlightOK, Poisons, Limits
<1> QED BY <1>1 DEF Complete, IInv, Pinned

(* The fragments of the message of the pinned stream.                      *)
TrueMessage ==
  decoded = [i \in Fragments |-> [len |-> meta.len, sum |-> Mixture(meta, {i})]]

LEMMA YieldsExactly == IInv /\ Yields => TrueMessage
<1> SUFFICES ASSUME IInv, Yields PROVE TrueMessage
  OBVIOUS
<1>1. poisoned = Alive /\ Complete /\ Joinable /\ Intact
  BY DEF Yields, Message, IInv, TypeOK, FlightOK, Poisons, Limits
<1>2. DOMAIN decoded = Fragments /\ decoded = [i \in DOMAIN decoded |-> decoded[i]]
  BY <1>1 DEF Joinable, IInv, TypeOK, StoreOK, IsMap
<1>3. ASSUME NEW i \in Fragments
      PROVE  decoded[i] = [len |-> meta.len, sum |-> Mixture(meta, {i})]
  <2>1. decoded[i] \in Payload /\ decoded[i].len = meta.len
    BY <1>2 DEF IInv, TypeOK, StoreOK, SameLength
  <2>2. decoded[i].sum = Mixture(meta, {i})
    BY <1>1 DEF Intact
  <2> QED BY <2>1, <2>2 DEF Payload
<1> QED BY <1>2, <1>3 DEF TrueMessage

LEMMA FountainCases ==
  ASSUME IInv, BoundInv, [Next]_vars
  PROVE  StaysEmpty \/ Begins \/ GoesOn \/ Ends
<1>1. IInv' /\ Kept
  BY NextIInv, NextKept
<1>2. CASE received' = {}
  <2>1. received = {}
    BY <1>1, <1>2 DEF Kept
  <2>2. poisoned' # Alive \/ ~Complete'
    BY <1>1, <1>2 DEF Complete, IInv, Pinned
  <2>3. ~Yields'
    BY <1>1, <2>2 DEF Yields, Message, IInv, TypeOK, FlightOK, Poisons, Limits
  <2> QED BY <1>2, <2>1, <2>3, NothingYields DEF StaysEmpty
<1>3. CASE received = {} /\ received' # {}
  <2>1. PICK p \in Parts : Accept(p)
    BY <1>3, FirstReceived
  <2>2. ~Yields'
    <3>1. decoded' = decoded /\ DOMAIN decoded = {}
      BY <1>3, <2>1 DEF Accept, IInv, Pinned
    <3>2. meta'.count # 0
      BY <1>1, <1>3 DEF IInv, Pinned
    <3>3. ~Complete'
      BY <3>1, <3>2, FS_EmptySet DEF Complete
    <3> QED BY <1>1, <3>3 DEF Yields, Message, IInv, TypeOK, FlightOK, Poisons, Limits
  <2> QED BY <1>3, <2>1, <2>2, NothingYields DEF Begins, Accept
<1>4. CASE received # {} /\ received' # {}
  <2>1. meta' = meta
    BY <1>1, <1>4 DEF Kept
  <2>2. CASE ~Yields /\ Yields'
    <3>1. TrueMessage'
      BY <1>1, <2>2, YieldsExactly, PTL
    <3> QED BY <1>4, <2>1, <2>2, <3>1 DEF Ends, TrueMessage, Fragments
  <2> QED BY <1>4, <2>1, <2>2 DEF GoesOn
<1> QED BY <1>2, <1>3, <1>4

CallTyped == call # None => CheckType(call.type)

(* The header is that of a presented part; a call in progress has the type  *)
(* of the session.                                                         *)
CallerInv ==
  /\ received # {} => \E p \in Parts : meta = MetaOf(p)
  /\ CallTyped

LEMMA UrNextCallerInv == UrIInv /\ BoundInv /\ CallerInv /\ [UrNext]_urVars => CallerInv'
<1> SUFFICES ASSUME UrIInv, BoundInv, CallerInv, [UrNext]_urVars PROVE CallerInv'
  OBVIOUS
<1>1. received' # {} => \E p \in Parts : meta' = MetaOf(p)
  <2>1. StaysEmpty \/ Begins \/ GoesOn \/ Ends
    BY SessionStep, FountainCases DEF UrIInv, urVars
  <2> QED BY <2>1 DEF StaysEmpty, Begins, GoesOn, Ends, CallerInv
<1>2. CallTyped'
  <2>1. CASE UNCHANGED <<call, expected, seen>>
    BY <2>1 DEF CallerInv, CallTyped, CheckType
  <2>2. CASE call' = None
    BY <2>2 DEF CallTyped
  <2>3. ASSUME NEW u \in Uris, CallFountain(u)
        PROVE  CallTyped'
    <3>1. CheckType(u.type) /\ call' = u /\ UNCHANGED <<expected, seen>>
      BY <2>3 DEF CallFountain, Codec, CodecData, FirstForm, Typed
    <3> QED BY <3>1 DEF CallTyped, CheckType
  <2>4. ASSUME NEW u \in Uris, UrReceive(u), ~CallFountain(u)
        PROVE  call' = None
    <3>1. call = None
      BY <2>4 DEF UrReceive, PoisonUri, RejectUri, RejectType, ReceiveSingle, RejectSingle,
         IgnoreSingle, GarbledSingle, PoisonSingle, TakeSingle, ReceiveFountain, RejectMulti,
         GarbledPart, PoisonPartData, RejectPart, PoisonPartCount, RejectIndices,
         FirstSingle, Codec, CodecData, FirstForm, Typed, Parsed, Open
    <3>2. call' = call
      BY <2>4 DEF UrReceive, PoisonUri, RejectUri, RejectType, ReceiveSingle, RejectSingle,
         IgnoreSingle, GarbledSingle, PoisonSingle, TakeSingle, ReceiveFountain, RejectMulti,
         GarbledPart, PoisonPartData, RejectPart, PoisonPartCount, RejectIndices, UrAnswer,
         UrPoison
    <3> QED BY <3>1, <3>2
  <2>5. CASE (\E t \in Types : WithExpectedType(t)) \/ Pin \/ Escalate \/ PassOn
    BY <2>2, <2>5 DEF WithExpectedType, Pin, Escalate, PassOn
  <2>6. CASE FountainStep \/ AnswerUrPoisoned \/ UNCHANGED urVars
    BY <2>1, <2>6 DEF FountainStep, AnswerUrPoisoned, UrAnswer, urVars, ur
  <2> QED BY <2>2, <2>3, <2>4, <2>5, <2>6 DEF UrNext, Conclude
<1> QED BY <1>1, <1>2 DEF CallerInv

CallerStep == [Caller!Next]_(Caller!vars)

(* What the caller sees of a live session without a single payload.        *)
LEMMA FountainCallerStep ==
  ASSUME UrIInv, CallerInv, StaysEmpty \/ Begins \/ GoesOn \/ Ends,
         urPoisoned = Alive, single = None, UNCHANGED <<expected, seen, single, urPoisoned>>,
         Yields => Yields' /\ Content' = Content
  PROVE  CallerStep
<1> USE DEF CallerStep
<1>0. (Readable <=> Yields) /\ (Readable' <=> Yields')
  BY DEF Readable, Yields
<1>1. CASE StaysEmpty \/ GoesOn
  BY <1>0, <1>1 DEF StaysEmpty, GoesOn, Caller!vars
<1>2. CASE Begins
  <2>1. Caller!Join(meta')
    BY <1>0, <1>2 DEF Begins, Caller!Join
  <2> QED BY <1>2, <2>1 DEF Begins, Caller!Next
<1>3. CASE Ends
  <2>1. meta \in {MetaOf(p) : p \in Parts}
    BY <1>3 DEF Ends, CallerInv
  <2>2. Content' = StreamMessage[meta]
    <3>1. Content' = [i \in Fragments' |-> decoded'[i]]
      BY DEF Content
    <3>2. Fragments' = Fragments /\ Fragments = 0 .. meta.count - 1
      BY <1>3 DEF Ends, Fragments
    <3> QED BY <1>3, <2>1, <3>1, <3>2 DEF Ends, StreamMessage
  <2>3. Caller!Finish
    BY <1>0, <1>3, <2>2 DEF Ends, Caller!Finish
  <2> QED BY <2>3 DEF Caller!Next
<1> QED BY <1>1, <1>2, <1>3

LEMMA UrNextCaller == UrIInv /\ BoundInv /\ CallerInv /\ [UrNext]_urVars => CallerStep
<1> SUFFICES ASSUME UrIInv, BoundInv, CallerInv, [UrNext]_urVars PROVE CallerStep
  OBVIOUS
<1>1. StaysEmpty \/ Begins \/ GoesOn \/ Ends
  BY SessionStep, FountainCases DEF UrIInv, urVars
<1>2. Yields /\ single = None /\ single' = None => Yields' /\ Content' = Content
  <2> SUFFICES ASSUME Yields, single = None, single' = None PROVE Yields' /\ Content' = Content
    OBVIOUS
  <2>1. /\ Message' = "Message" /\ meta' = meta
        /\ \A i \in Fragments : decoded'[i] = decoded[i]
    BY SessionStep, CompleteStays DEF UrIInv, urVars, Yields
  <2> QED BY <2>1 DEF Content, Fragments, Yields
<1>3. ASSUME UNCHANGED <<expected, seen, single, vars, urPoisoned>>
      PROVE  CallerStep
  <2>1. Readable' = Readable /\ Content' = Content
    BY <1>3 DEF Readable, Content, Message, Complete, Representable, Joinable, Intact, Fragments, vars, session
  <2> QED BY <1>3, <2>1 DEF CallerStep, Caller!vars, vars, session
<1>4. ASSUME urPoisoned = Alive, urPoisoned' # Alive, UNCHANGED <<vars, expected, seen, single>>
      PROVE  CallerStep
  <2>1. Caller!Close
    BY <1>4 DEF Caller!Close, Readable, vars, session
  <2> QED BY <2>1 DEF CallerStep, Caller!Next
<1>5. ASSUME NEW t \in Types, WithExpectedType(t)
      PROVE  CallerStep
  <2>1. Readable' = Readable /\ Content' = Content
    BY <1>5 DEF WithExpectedType, Readable, Content, Message, Complete, Representable, Joinable, Intact, Fragments,
       vars, session
  <2>2. Caller!Want(t)
    BY <1>5, <2>1 DEF WithExpectedType, Caller!Want, vars, session
  <2> QED BY <2>2 DEF CallerStep, Caller!Next
<1>6. CASE AnswerUrPoisoned \/ PassOn \/ UNCHANGED urVars
  BY <1>3, <1>6 DEF AnswerUrPoisoned, UrAnswer, PassOn, urVars, ur
<1>7. ASSUME NEW u \in Uris, TakeSingle(u)
      PROVE  CallerStep
  <2>1. /\ u.type \in Types /\ u.body # None /\ u.kind = "SinglePart"
        /\ urPoisoned = Alive /\ single = None /\ received = {} /\ CheckType(u.type)
    BY <1>7, UrisAssumption DEF TakeSingle, FirstSingle, Typed, Parsed, Open, FountainStarted,
       UrIInv, IInv, Pinned
  <2>2. u.body \in {w.body : w \in {x \in Uris : x.kind = "SinglePart"}} \ {None}
    BY <2>1
  <2>3. Readable' /\ Content' = u.body /\ seen' = u.type /\ single' = u.body
    BY <1>7, <2>1 DEF TakeSingle, Readable, Content
  <2>4. Caller!TakeSingle(u.type, u.body)
    BY <1>7, <2>1, <2>3 DEF TakeSingle, Caller!TakeSingle, Caller!IsWanted, CheckType, vars, session
  <2> QED BY <2>1, <2>2, <2>4 DEF CallerStep, Caller!Next
<1>8. ASSUME NEW u \in Uris, CallFountain(u)
      PROVE  CallerStep
  <2>1. urPoisoned = Alive /\ single = None /\ UNCHANGED <<expected, seen, single, urPoisoned>>
    BY <1>8, CallShape DEF CallFountain
  <2> QED BY <1>1, <1>2, <2>1, FountainCallerStep
<1>9. ASSUME NEW u \in Uris, UrReceive(u), ~TakeSingle(u), ~CallFountain(u)
      PROVE  CallerStep
  <2>1. \/ UNCHANGED <<expected, seen, single, vars, urPoisoned>>
        \/ /\ urPoisoned = Alive
           /\ urPoisoned' \in Poisons \cup {"UriLen"}
           /\ UNCHANGED <<vars, expected, seen, single>>
    BY <1>9 DEF UrReceive, PoisonUri, RejectUri, RejectType, ReceiveSingle, RejectSingle,
       IgnoreSingle, GarbledSingle, PoisonSingle, ReceiveFountain, RejectMulti, GarbledPart,
       PoisonPartData, RejectPart, PoisonPartCount, RejectIndices, UrAnswer, UrPoison,
       FirstSingle, CodecData, FirstForm, Typed, Parsed, Open, Poisons, Limits
  <2>2. Alive \notin Poisons \cup {"UriLen"}
    BY DEF Alive, Poisons, Limits
  <2> QED BY <1>3, <1>4, <2>1, <2>2
<1>10. CASE FountainStep
  <2>1. urPoisoned = Alive /\ single = None /\ UNCHANGED <<expected, seen, single, urPoisoned>>
    BY <1>10 DEF FountainStep, UrIInv, InFlight, ur
  <2> QED BY <1>1, <1>2, <2>1, FountainCallerStep
<1>11. CASE Pin
  <2>1. /\ urPoisoned = Alive /\ single = None /\ received # {} /\ CheckType(call.type)
        /\ call.type \in Types
    BY <1>11, UrisAssumption DEF Pin, Returned, UrIInv, UrTypeOK, InFlight, CallerInv, CallTyped
  <2>2. CASE seen = None
    <3>1. Readable' = Readable /\ Content' = Content
      BY <1>11 DEF Pin, Readable, Content, Message, Complete, Representable, Joinable, Intact, Fragments,
         vars, session
    <3>2. Caller!Name(call.type)
      BY <1>11, <2>1, <2>2, <3>1 DEF Pin, Caller!Name, Caller!IsWanted, CheckType, vars, session
    <3> QED BY <2>1, <3>2 DEF CallerStep, Caller!Next
  <2>3. CASE seen # None
    BY <1>3, <1>11, <2>3 DEF Pin
  <2> QED BY <2>2, <2>3
<1>12. CASE Escalate
  <2>1. urPoisoned = Alive /\ urPoisoned' # Alive
    BY <1>12 DEF Escalate, Returned, UrIInv, InFlight, Alive, Poisons, Limits
  <2> QED BY <1>4, <1>12, <2>1 DEF Escalate
<1> QED BY <1>5, <1>6, <1>7, <1>8, <1>9, <1>10, <1>11, <1>12 DEF UrNext, Conclude

(***************************************************************************)
(* The UR decoder, for all URIs and limits, implements the session: it has  *)
(* one content of one type, the message that can be read is that of the     *)
(* stream that was joined, and only a limit takes it back.                  *)
(***************************************************************************)
THEOREM SessionRefinement == UrSpec => ImplementsSession
<1>1. UrInit => Caller!Init /\ BoundInv /\ CallerInv
  <2> SUFFICES ASSUME UrInit PROVE Caller!Init /\ BoundInv /\ CallerInv
    OBVIOUS
  <2>1. ~Readable
    BY DEF UrInit, Init, Readable, Message, Complete, NoMeta, Alive
  <2> QED BY <2>1, InitBound DEF UrInit, Init, Caller!Init, CallerInv, CallTyped
<1> QED BY <1>1, UrNextBound, UrNextCallerInv, UrNextCaller, UrInvariance, PTL
    DEF UrSpec, ImplementsSession, Caller!Spec, CallerStep
=============================================================================
