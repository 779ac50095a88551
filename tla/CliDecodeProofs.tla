--------------------------- MODULE CliDecodeProofs ---------------------------
(***************************************************************************)
(* What `bcur decode' writes, for all texts.  The session inside it takes    *)
(* steps of UrDecoder only, so the invariants of that carry over; what is   *)
(* added relates the lines that have been read to what the session holds.   *)
(* A line is read as the URI it was printed for, its numbers among it.      *)
(***************************************************************************)
EXTENDS CliDecode, UrDecoderProofs

(* The URI that a line is read as, and whether it is of the sender of what  *)
(* the session holds.                                                      *)
Heard(i) == Parse(input.lines[i])

SessionSender ==
  IF single # None THEN <<seen, "SinglePart", single>> ELSE <<seen, "MultiPart", meta>>

FromSender(n) ==
  /\ \A i \in 1 .. n : SenderOf(Heard(i)) = SessionSender
  /\ n # 0 =>
       /\ seen # None /\ (single # None \/ received # {})
       /\ expected # None => seen = expected

(* What holds before the text has been read.                               *)
Fresh ==
  /\ single = None /\ received = {} /\ call = None /\ urPoisoned = Alive
  /\ expected = None /\ next = 1

(* A line on its way into the session.                                     *)
LineInFlight ==
  call # None =>
    /\ call = Heard(next)
    /\ FromSender(next - 1)
    /\ phase # "idle" \/ outcome \in {"Accepted", "Ignored"} => meta = MetaOf(call.body)

LineAnswered == call = None /\ answer = "Ok" => FromSender(next) /\ urPoisoned = Alive

DecodePlace ==
  /\ input \in Inputs /\ next \in Nat \ {0}
  /\ at \in {"read", "type"} => Fresh
  /\ at \in {"lines", "receive", "write"} => expected = input.type
  /\ at = "lines" =>
       /\ call = None /\ urPoisoned = Alive /\ ~SessionComplete
       /\ FromSender(next - 1)
  /\ at = "receive" => next <= Len(input.lines) /\ LineInFlight /\ LineAnswered
  /\ at = "write" => call = None /\ Readable /\ FromSender(next)
  /\ answer # "Written"
  /\ ending = "Written" => at = "done"
  /\ OneSenderWritten

DecodeInv == UrIInv /\ BoundInv /\ CallerInv /\ DecodePlace
-----------------------------------------------------------------------------
(* The steps of run are steps of the session, or leave it alone.           *)

LEMMA LinesRead ==
  ASSUME input \in Inputs, NEW i \in 1 .. Len(input.lines)
  PROVE  Heard(i) \in Uris /\ Len(input.lines) \in Nat
BY InputsAssumption DEF Heard

LEMMA DecodeSide ==
  ASSUME DecodePlace, [DecodeNext]_decodeVars
  PROVE  [UrNext]_urVars
<1>1. CASE SetType
  <2>1. CASE IsType(input.type) /\ WithExpectedType(input.type)
    BY <2>1 DEF IsType, UrNext
  <2> QED BY <1>1, <2>1 DEF SetType, Stop
<1>2. CASE ReceiveLine
  <2>1. next \in 1 .. Len(input.lines) /\ input \in Inputs
    BY <1>2, InputsAssumption DEF ReceiveLine, DecodePlace
  <2>2. Heard(next) \in Uris /\ UrReceive(Heard(next))
    BY <1>2, <2>1, LinesRead DEF ReceiveLine, Heard
  <2> QED BY <2>2 DEF UrNext
<1>3. CASE InReceive
  BY <1>3 DEF InReceive, UrNext
<1>4. CASE ReadText \/ Refused \/ NextLine \/ TakeMessage \/ NoMoreLines \/ WriteBytes \/ Exit
  BY <1>4 DEF ReadText, Refused, NextLine, TakeMessage, NoMoreLines, WriteBytes, Exit, Stop,
     decodeVars
<1> QED BY <1>1, <1>2, <1>3, <1>4 DEF DecodeNext, decodeVars

(* No answer of a session is taken for one of success.                     *)
LEMMA AnswerKnown == UrIInv /\ answer # "Written" /\ [UrNext]_urVars => answer' # "Written"
<1> SUFFICES ASSUME UrIInv, answer # "Written", [UrNext]_urVars PROVE answer' # "Written"
  OBVIOUS
<1>1. outcome # "Written" /\ urPoisoned # "Written"
  BY DEF UrIInv, IInv, TypeOK, FlightOK, UrTypeOK, Answers, Poisons, Limits, Alive
<1>2. ASSUME NEW u \in Uris, UrReceive(u)
      PROVE  answer' # "Written"
  BY <1>2 DEF UrReceive, PoisonUri, RejectUri, RejectType, ReceiveSingle, RejectSingle,
     IgnoreSingle, GarbledSingle, PoisonSingle, TakeSingle, ReceiveFountain, RejectMulti,
     GarbledPart, PoisonPartData, RejectPart, PoisonPartCount, RejectIndices, CallFountain,
     UrAnswer, UrPoison
<1> QED BY <1>1, <1>2 DEF UrNext, WithExpectedType, AnswerUrPoisoned, UrAnswer, Conclude,
    FountainStep, Pin, Escalate, PassOn, urVars, ur

LEMMA MessageKnown == UrIInv => Message # "Written"
BY DEF UrIInv, IInv, TypeOK, FlightOK, Message, Poisons, Limits, Alive

(* As long as the session holds the same, the lines are of its sender.      *)
LEMMA FromSenderKept ==
  ASSUME NEW n \in Nat, FromSender(n), UNCHANGED <<input, expected>>,
         n # 0 => UNCHANGED <<seen, single, received, meta>>
  PROVE  FromSender(n)'
BY DEF FromSender, Heard, SessionSender, SenderOf
-----------------------------------------------------------------------------
(* A line on its way.                                                      *)

LEMMA ParsedLine ==
  ASSUME DecodeInv, ReceiveLine
  PROVE  DecodePlace'
<1> DEFINE u == Heard(next)
<1>1. /\ at = "lines" /\ at' = "receive" /\ next \in 1 .. Len(input.lines)
      /\ UrReceive(u) /\ UNCHANGED <<input, next, ending, output>>
  BY InputsAssumption DEF ReceiveLine, Goto, DecodeInv, DecodePlace, Heard
<1>2. /\ u \in Uris /\ u # None /\ call = None /\ urPoisoned = Alive /\ ~SessionComplete
      /\ FromSender(next - 1) /\ single = None /\ ~Complete /\ next - 1 \in Nat
      /\ input \in Inputs /\ expected = input.type
  BY <1>1, LinesRead, UrisAssumption DEF DecodeInv, DecodePlace, SessionComplete
<1>3. Heard(next)' = u
  BY <1>1 DEF Heard
<1> HIDE DEF u
<1>4. expected' = expected
  BY <1>1 DEF UrReceive, PoisonUri, RejectUri, RejectType, ReceiveSingle, RejectSingle,
     IgnoreSingle, GarbledSingle, PoisonSingle, TakeSingle, ReceiveFountain, RejectMulti,
     GarbledPart, PoisonPartData, RejectPart, PoisonPartCount, RejectIndices, CallFountain,
     UrAnswer, UrPoison
<1>5. answer' # "Written"
  <2>1. UrNext
    BY <1>1, <1>2 DEF UrNext
  <2> QED BY <2>1, AnswerKnown DEF DecodeInv, DecodePlace
<1>6. (LineInFlight /\ LineAnswered)' => DecodePlace'
  BY <1>1, <1>2, <1>4, <1>5 DEF DecodeInv, DecodePlace, OneSenderWritten
<1>7. CASE TakeSingle(u)
  <2>1. /\ seen' = u.type /\ single' = u.body /\ call' = None /\ urPoisoned' = Alive
        /\ u.kind = "SinglePart" /\ u.body # None /\ u.type # None /\ received = {}
        /\ CheckType(u.type)
    BY <1>2, <1>7, UrisAssumption DEF TakeSingle, FirstSingle, Typed, Parsed, Open,
       FountainStarted, DecodeInv, UrIInv, IInv, Pinned
  <2>2. next = 1
    BY <1>1, <1>2, <2>1 DEF FromSender
  <2>3. FromSender(next)'
    <3>1. \A i \in 1 .. next' : Heard(i)' = u
      BY <1>1, <1>3, <2>2
    <3>2. SenderOf(u) = SessionSender'
      BY <2>1 DEF SenderOf, SessionSender
    <3> QED BY <1>4, <2>1, <3>1, <3>2 DEF FromSender, CheckType, SenderOf
  <2> QED BY <1>6, <2>1, <2>3 DEF LineInFlight, LineAnswered
<1>8. CASE CallFountain(u)
  <2>1. call' = u /\ UNCHANGED <<expected, seen, single, urPoisoned>>
    BY <1>8 DEF CallFountain
  <2>2. AnswerPoisoned \/ AnswerComplete \/ Receive(u.body)
    BY <1>8 DEF CallFountain
  <2>3. received # {} => received' # {} /\ meta' = meta
    BY <2>2 DEF AnswerPoisoned, AnswerComplete, Answer, Receive, RejectEmpty,
       RejectSequence, RejectInconsistent, PoisonData, PoisonCount, PoisonLength,
       PoisonReceived, IgnoreDuplicate, Accept, session, Unaltered, Admissible, Validate, First
  <2>4. phase = "idle" /\ poisoned = Alive
    BY <1>2, <1>8, CallShape DEF DecodeInv
  <2>5. phase' # "idle" \/ outcome' \in {"Accepted", "Ignored"} => meta' = MetaOf(u.body)
    BY <1>2, <2>2, <2>4
    DEF AnswerPoisoned, AnswerComplete, Answer, Receive, RejectEmpty,
       RejectSequence, RejectInconsistent, PoisonData, PoisonCount, PoisonLength,
       PoisonReceived, IgnoreDuplicate, IsDuplicate, Accept, session, Unaltered, Admissible,
       Validate, First, Poison
  <2>6. FromSender(next - 1)'
    BY <1>1, <1>2, <2>1, <2>3 DEF FromSender, Heard, SessionSender, SenderOf
  <2> QED BY <1>2, <1>3, <1>6, <2>1, <2>5, <2>6 DEF LineInFlight, LineAnswered
<1>9. CASE ~TakeSingle(u) /\ ~CallFountain(u)
  <2>1. call' = None /\ answer' # "Ok"
    <3>1. UrAnswer(answer') \/ UrPoison(answer')
      BY <1>1, <1>9 DEF UrReceive, PoisonUri, RejectUri, RejectType, ReceiveSingle,
         RejectSingle, IgnoreSingle, GarbledSingle, PoisonSingle, ReceiveFountain, RejectMulti,
         GarbledPart, PoisonPartData, RejectPart, PoisonPartCount, RejectIndices,
         UrAnswer, UrPoison
    <3>2. answer' # "Ok"
      BY <1>1, <1>2, <1>9 DEF UrReceive, PoisonUri, RejectUri, RejectType, ReceiveSingle,
         RejectSingle, IgnoreSingle, GarbledSingle, PoisonSingle, ReceiveFountain, RejectMulti,
         GarbledPart, PoisonPartData, RejectPart, PoisonPartCount, RejectIndices,
         UrAnswer, UrPoison
    <3> QED BY <1>2, <3>1, <3>2 DEF UrAnswer, UrPoison
  <2> QED BY <1>6, <2>1 DEF LineInFlight, LineAnswered
<1> QED BY <1>7, <1>8, <1>9

(* The fountain decoder at work, and its result taken by the session.       *)
LEMMA LineProceeds ==
  ASSUME DecodeInv, InReceive
  PROVE  DecodePlace'
<1>1. /\ at = "receive" /\ at' = at /\ Conclude /\ UNCHANGED decode
      /\ next <= Len(input.lines) /\ LineInFlight /\ input \in Inputs /\ next \in Nat \ {0}
      /\ call # None /\ single = None /\ urPoisoned = Alive /\ expected' = expected
  BY DEF InReceive, decode, DecodeInv, DecodePlace, Conclude, FountainStep, Pin, Escalate, PassOn,
     Returned, UrIInv, InFlight, ur
<1>2. /\ call = Heard(next) /\ FromSender(next - 1) /\ next - 1 \in Nat
      /\ phase # "idle" \/ outcome \in {"Accepted", "Ignored"} => meta = MetaOf(call.body)
      /\ call.kind = "MultiPart" /\ call.type \in Types
  BY <1>1, UrisAssumption DEF LineInFlight, DecodeInv, UrIInv, UrTypeOK
<1>3. \A i : Heard(i)' = Heard(i)
  BY <1>1 DEF decode, Heard
<1>4. answer' # "Written"
  <2>1. UrNext
    BY <1>1 DEF UrNext
  <2> QED BY <2>1, AnswerKnown DEF DecodeInv, DecodePlace
<1>5. (LineInFlight /\ LineAnswered)' => DecodePlace'
  BY <1>1, <1>4 DEF decode, DecodeInv, DecodePlace, OneSenderWritten
<1>6. CASE FountainStep
  <2>1. UNCHANGED ur /\ received' = received /\ phase # "idle"
    BY <1>6, RunShape DEF FountainStep, DecodeInv
  <2>2. meta' = meta
    BY <1>6 DEF FountainStep, Ingest, Drain, IngestKnown, IngestNew, StripKnown, InternalError,
       PopSimple, Return, Reduce, session
  <2>3. FromSender(next - 1)'
    BY <1>1, <1>2, <1>3, <2>1, <2>2 DEF FromSender, SessionSender, SenderOf, ur, decode
  <2>4. (call = Heard(next))'
    BY <1>1, <1>2, <1>3, <2>1 DEF ur, decode
  <2> QED BY <1>1, <1>2, <1>5, <2>1, <2>2, <2>3, <2>4 DEF LineInFlight, LineAnswered, ur
<1>7. CASE Pin
  <2>1. /\ call' = None /\ UNCHANGED <<received, meta, single, urPoisoned, next>>
        /\ seen' = IF seen = None THEN call.type ELSE seen
        /\ meta = MetaOf(call.body) /\ received # {}
    BY <1>1, <1>2, <1>7 DEF Pin, Returned, vars, session, decode, DecodeInv, UrIInv, InFlight
  <2>2. CheckType(call.type) /\ call.type # None
    BY <1>1, <1>2, UrisAssumption DEF DecodeInv, CallerInv, CallTyped
  <2>3. seen' = call.type
    BY <2>1, <2>2 DEF CheckType
  <2>4. SessionSender' = SenderOf(call)
    BY <1>1, <1>2, <2>1, <2>3 DEF SessionSender, SenderOf
  <2>5. \A i \in 1 .. next - 1 : SenderOf(Heard(i)) = SessionSender'
    <3>1. CASE next - 1 = 0
      BY <3>1
    <3>2. CASE next - 1 # 0
      <4>1. seen # None /\ SessionSender' = SessionSender
        BY <1>1, <1>2, <2>1, <3>2 DEF FromSender, SessionSender
      <4> QED BY <1>2, <4>1 DEF FromSender
    <3> QED BY <3>1, <3>2
  <2>6. \A i \in 1 .. next : SenderOf(Heard(i)) = SessionSender'
    <3> SUFFICES ASSUME NEW i \in 1 .. next PROVE SenderOf(Heard(i)) = SessionSender'
      OBVIOUS
    <3>1. i \in 1 .. next - 1 \/ i = next
      BY <1>1
    <3> QED BY <1>2, <2>4, <2>5, <3>1
  <2>7. FromSender(next)'
    BY <1>1, <1>3, <2>1, <2>2, <2>3, <2>6 DEF FromSender, CheckType, SenderOf
  <2> QED BY <1>1, <1>5, <2>1, <2>7 DEF LineInFlight, LineAnswered
<1>8. CASE Escalate \/ PassOn
  <2>1. call' = None /\ answer' = outcome
    BY <1>8 DEF Escalate, PassOn
  <2>2. outcome # "Ok"
    BY DEF DecodeInv, UrIInv, IInv, TypeOK, FlightOK, Answers, Poisons, Limits
  <2> QED BY <1>5, <2>1, <2>2 DEF LineInFlight, LineAnswered
<1> QED BY <1>1, <1>6, <1>7, <1>8 DEF Conclude
-----------------------------------------------------------------------------
(* What is written.                                                        *)

LEMMA StreamContent ==
  ASSUME IInv, Yields, single = None, NEW p \in Parts, meta = MetaOf(p)
  PROVE  Content = StreamMessage[MetaOf(p)]
<1>1. \A i \in Fragments : decoded[i] = [len |-> meta.len, sum |-> Mixture(meta, {i})]
  BY YieldsExactly DEF TrueMessage
<1>2. meta \in {MetaOf(q) : q \in Parts}
  OBVIOUS
<1> QED BY <1>1, <1>2 DEF Content, StreamMessage, Fragments

LEMMA WrittenContent ==
  ASSUME DecodeInv, at = "write"
  PROVE  /\ \A i \in 1 .. next : SenderOf(Heard(i)) = SenderOf(Heard(next))
         /\ input.type \in {None, Heard(next).type}
         /\ Content = IF Heard(next).kind = "SinglePart" THEN Heard(next).body
                      ELSE StreamMessage[MetaOf(Heard(next).body)]
<1> DEFINE u == Heard(next)
<1>1. call = None /\ Readable /\ FromSender(next) /\ expected = input.type /\ next \in Nat \ {0}
  BY DEF DecodeInv, DecodePlace
<1>2. /\ \A i \in 1 .. next : SenderOf(Heard(i)) = SessionSender
      /\ expected # None => seen = expected
  BY <1>1 DEF FromSender
<1>3. SenderOf(u) = SessionSender
  BY <1>1, <1>2
<1> HIDE DEF u
<1>4. u.type = seen
  BY <1>3 DEF SenderOf, SessionSender
<1>5. CASE single # None
  <2>1. u.kind = "SinglePart" /\ u.body = single /\ Content = single
    BY <1>3, <1>5 DEF SenderOf, SessionSender, Content
  <2> QED BY <1>1, <1>2, <1>3, <1>4, <2>1 DEF u
<1>6. CASE single = None
  <2>1. u.kind = "MultiPart" /\ MetaOf(u.body) = meta
    BY <1>3, <1>6 DEF SenderOf, SessionSender
  <2>2. Yields /\ IInv /\ received # {}
    BY <1>1, <1>6 DEF Readable, Yields, DecodeInv, UrIInv, FromSender
  <2>3. PICK p \in Parts : meta = MetaOf(p)
    BY <2>2 DEF DecodeInv, CallerInv
  <2>4. Content = StreamMessage[MetaOf(u.body)]
    BY <1>6, <2>1, <2>2, <2>3, StreamContent
  <2> QED BY <1>1, <1>2, <1>3, <1>4, <2>1, <2>4 DEF u
<1> QED BY <1>5, <1>6

LEMMA DecodeNextPlace == DecodeInv /\ [DecodeNext]_decodeVars => DecodePlace'
<1> SUFFICES ASSUME DecodeInv, [DecodeNext]_decodeVars PROVE DecodePlace'
  OBVIOUS
<1>0. DecodePlace
  BY DEF DecodeInv
<1>1. ASSUME UNCHANGED urVars, input' = input
      PROVE  /\ \A n : FromSender(n)' = FromSender(n)
             /\ \A n : Heard(n)' = Heard(n)
             /\ SessionComplete' = SessionComplete /\ Readable' = Readable
             /\ UNCHANGED <<single, received, call, urPoisoned, expected, answer, seen>>
  BY <1>1 DEF urVars, ur, vars, session, FromSender, Heard, SessionSender, SenderOf,
     SessionComplete, Complete, Readable, Message, Representable, Joinable, Intact, Fragments
<1>2. ASSUME NEW v, Stop(v), v # "Written" PROVE DecodePlace'
  BY <1>0, <1>1, <1>2 DEF Stop, DecodePlace, OneSenderWritten
<1>3. CASE ReadText
  <2>1. CASE Goto("type") /\ UNCHANGED urVars /\ at = "read"
    BY <1>0, <1>1, <2>1 DEF Goto, DecodePlace, Fresh, OneSenderWritten
  <2> QED BY <1>2, <1>3, <2>1 DEF ReadText
<1>4. CASE SetType
  <2>1. Fresh /\ at = "type"
    BY <1>0, <1>4 DEF SetType, DecodePlace
  <2>2. ASSUME Goto("lines"), UNCHANGED <<vars, seen, single, urPoisoned, call, answer>>,
               expected' = input.type
        PROVE  DecodePlace'
    <3>1. ~Complete'
      <4>1. ~Complete
        BY <2>1 DEF Complete, Fresh, DecodeInv, UrIInv, IInv, Pinned, PoisonSurfaces
      <4> QED BY <2>2, <4>1 DEF Complete, vars, session
    <3>2. next' - 1 = 0 /\ FromSender(0)'
      BY <2>1, <2>2 DEF Goto, Fresh, FromSender
    <3> QED BY <1>0, <2>1, <2>2, <3>1, <3>2
        DEF Goto, DecodePlace, Fresh, SessionComplete, OneSenderWritten
  <2>3. CASE input.type = None /\ Goto("lines") /\ UNCHANGED urVars
    BY <2>1, <2>2, <2>3 DEF Fresh, urVars, ur
  <2>4. CASE WithExpectedType(input.type) /\ Goto("lines")
    BY <2>2, <2>4 DEF WithExpectedType
  <2> QED BY <1>2, <1>4, <2>3, <2>4 DEF SetType
<1>5. CASE Refused
  <2>1. answer # "Written" /\ Stop(answer)
    BY <1>0, <1>5 DEF Refused, DecodePlace
  <2> QED BY <1>2, <2>1
<1>6. CASE NextLine
  <2>1. /\ at = "receive" /\ at' = "lines" /\ next' = next + 1 /\ ~SessionComplete
        /\ call = None /\ FromSender(next) /\ urPoisoned = Alive /\ UNCHANGED urVars
        /\ input' = input /\ ending' = ending /\ next \in Nat \ {0}
    BY <1>0, <1>6 DEF NextLine, Received, DecodePlace, LineAnswered
  <2>2. next' - 1 = next /\ next' \in Nat \ {0}
    BY <2>1
  <2>3. /\ ~SessionComplete' /\ call' = None /\ urPoisoned' = Alive
        /\ expected' = expected /\ answer' = answer
    BY <1>1, <2>1
  <2>4. FromSender(next - 1)'
    BY <2>1, <2>2 DEF FromSender, Heard, SessionSender, SenderOf, urVars, ur, vars, session
  <2> QED BY <1>0, <2>1, <2>2, <2>3, <2>4 DEF DecodePlace, OneSenderWritten
<1>7. CASE TakeMessage
  <2>1. FromSender(next) /\ at = "receive" /\ call = None
    BY <1>0, <1>7 DEF TakeMessage, Received, DecodePlace, LineAnswered
  <2>2. CASE Readable /\ Goto("write") /\ UNCHANGED urVars
    BY <1>0, <1>1, <2>1, <2>2 DEF Goto, DecodePlace, OneSenderWritten
  <2> QED BY <1>2, <1>7, <2>2, MessageKnown DEF TakeMessage, DecodeInv
<1>8. CASE NoMoreLines
  BY <1>2, <1>8 DEF NoMoreLines
<1>9. CASE WriteBytes
  <2>1. CASE /\ at' = "done" /\ ending' = "Written" /\ output' = Content
             /\ UNCHANGED <<urVars, input, next>>
    <3>1. OneSenderWritten'
      BY <1>1, <1>9, <2>1, WrittenContent DEF WriteBytes, OneSenderWritten, Heard
    <3> QED BY <1>0, <1>1, <2>1, <3>1 DEF DecodePlace
  <2> QED BY <1>2, <1>9, <2>1 DEF WriteBytes
<1>10. CASE Exit \/ UNCHANGED decodeVars
  <2>1. UNCHANGED <<urVars, input, at, next, ending, output>>
    BY <1>10 DEF Exit, decodeVars, decode
  <2>2. LineInFlight => LineInFlight'
    BY <2>1 DEF LineInFlight, FromSender, Heard, SessionSender, SenderOf, urVars, ur, vars, session
  <2>3. LineAnswered => LineAnswered'
    BY <1>1, <2>1 DEF LineAnswered, FromSender, Heard, SessionSender, SenderOf, urVars, ur, vars,
       session
  <2>4. FromSender(next) => FromSender(next)'
    BY <2>1 DEF FromSender, Heard, SessionSender, SenderOf, urVars, ur, vars, session
  <2>5. FromSender(next - 1) => FromSender(next - 1)'
    BY <2>1 DEF FromSender, Heard, SessionSender, SenderOf, urVars, ur, vars, session
  <2> QED BY <1>0, <1>1, <2>1, <2>2, <2>3, <2>4, <2>5 DEF DecodePlace, Fresh, OneSenderWritten
<1> QED BY <1>3, <1>4, <1>5, <1>6, <1>7, <1>8, <1>9, <1>10, ParsedLine, LineProceeds DEF DecodeNext

LEMMA DecodeInitInv == DecodeInit => DecodeInv
<1> SUFFICES ASSUME DecodeInit PROVE DecodeInv
  OBVIOUS
<1>1. UrIInv /\ BoundInv
  BY UrInitIInv, InitBound DEF DecodeInit, UrInit
<1>2. CallerInv /\ DecodePlace
  BY DEF DecodeInit, UrInit, Init, CallerInv, CallTyped, DecodePlace, Fresh, OneSenderWritten
<1> QED BY <1>1, <1>2 DEF DecodeInv

LEMMA DecodeNextInv == DecodeInv /\ [DecodeNext]_decodeVars => DecodeInv'
<1> SUFFICES ASSUME DecodeInv, [DecodeNext]_decodeVars PROVE DecodeInv'
  OBVIOUS
<1>1. [UrNext]_urVars
  BY DecodeSide DEF DecodeInv
<1> QED BY <1>1, UrNextIInv, UrNextBound, UrNextCallerInv, DecodeNextPlace DEF DecodeInv

(***************************************************************************)
(* Whatever the lines and the limits: what is written is the message of one *)
(* encoder, whole and of the type that was asked for, and every line that   *)
(* has been read is of that encoder, even one that brought nothing new.     *)
(***************************************************************************)
THEOREM OneSenderWrittenHolds == DecodeSpec => []OneSenderWritten
<1>1. DecodeInv => OneSenderWritten
  BY DEF DecodeInv, DecodePlace
<1> QED BY <1>1, DecodeInitInv, DecodeNextInv, PTL DEF DecodeSpec
-----------------------------------------------------------------------------
(* Numbers in decimal.                                                     *)

(* One of ten.                                                             *)
LEMMA TenCases ==
  ASSUME NEW k \in 1 .. 10
  PROVE  \/ k = 1 \/ k = 2 \/ k = 3 \/ k = 4 \/ k = 5
         \/ k = 6 \/ k = 7 \/ k = 8 \/ k = 9 \/ k = 10
BY SMT

LEMMA PowersExact ==
  /\ PowersOfTen[1] = 1 /\ PowersOfTen[2] = 10 /\ PowersOfTen[3] = 100
  /\ PowersOfTen[4] = 1000 /\ PowersOfTen[5] = 10000 /\ PowersOfTen[6] = 100000
  /\ PowersOfTen[7] = 1000000 /\ PowersOfTen[8] = 10000000
  /\ PowersOfTen[9] = 100000000 /\ PowersOfTen[10] = 1000000000
BY SMT DEF PowersOfTen

LEMMA PowersRise ==
  /\ \A k \in 1 .. 10 : PowersOfTen[k] \in Nat \ {0}
  /\ \A j, k \in 1 .. 10 : j <= k => PowersOfTen[j] <= PowersOfTen[k]
<1>1. ASSUME NEW k \in 1 .. 10 PROVE PowersOfTen[k] \in Nat \ {0}
  BY TenCases, PowersExact, SMT
<1>2. ASSUME NEW k \in 1 .. 9 PROVE PowersOfTen[k] <= PowersOfTen[k + 1]
  <2>1. k \in 1 .. 10 /\ k # 10
    OBVIOUS
  <2> QED BY <2>1, TenCases, PowersExact, SMT
<1>3. ASSUME NEW j \in 1 .. 10, NEW k \in 1 .. 10, j <= k PROVE PowersOfTen[j] <= PowersOfTen[k]
  BY <1>3, TenCases, PowersExact, SMT
<1> QED BY <1>1, <1>3

(* Each digit is what the powers on both its sides leave.                  *)
LEMMA TenTimes ==
  ASSUME NEW n \in Nat, NEW p \in Nat \ {0}
  PROVE  n \div p = 10 * (n \div (10 * p)) + ((n \div p) % 10)
<1> DEFINE a == n \div p
           r == n % p
           c == a \div 10
           s == a % 10
           m == 10 * p
           q == n \div m
           t == n % m
<1>1. a \in Nat /\ r \in 0 .. p - 1 /\ n = p * a + r
  BY DivMod
<1>2. c \in Nat /\ s \in 0 .. 9 /\ a = 10 * c + s
  BY <1>1, SMT
<1>3. m \in Nat \ {0}
  OBVIOUS
<1>4. q \in Nat /\ t \in 0 .. m - 1 /\ n = m * q + t
  BY <1>3, DivMod
<1> HIDE DEF a, r, c, s, q, t
<1> DEFINE u == p * s
<1>5. p * a = p * (10 * c) + u
  BY <1>1, <1>2
<1>6. p * (10 * c) = m * c
  BY <1>2
<1>7. u \in Nat /\ u <= p * 9
  BY <1>2
<1>8. p * 9 = 9 * p
  OBVIOUS
<1>9. u + r < m /\ u + r >= 0 /\ u + r \in Nat
  BY <1>1, <1>7, <1>8
<1>10. n = m * c + (u + r)
  BY <1>1, <1>2, <1>3, <1>5, <1>6, <1>7
<1> HIDE DEF u, m
<1>11. q = c
  <2> DEFINE v == u + r
  <2>1. v \in Nat /\ v < m /\ n = m * c + v
    BY <1>9, <1>10
  <2> HIDE DEF v
  <2>2. m * q < m * (c + 1) /\ m * c < m * (q + 1)
    BY <1>2, <1>3, <1>4, <2>1
  <2>3. q < c + 1 /\ c < q + 1
    BY <1>2, <1>3, <1>4, <2>2, TimesReflects
  <2> QED BY <1>2, <1>4, <2>3
<1>12. a = 10 * q + s
  BY <1>2, <1>11
<1> QED BY <1>12 DEF q, m, a, s

LEMMA OneMoreDigit ==
  ASSUME NEW n \in Nat, NEW k \in 1 .. 9
  PROVE  n \div PowersOfTen[k] = 10 * (n \div PowersOfTen[k + 1]) + ((n \div PowersOfTen[k]) % 10)
<1>1. k \in 1 .. 10 /\ k # 10
  OBVIOUS
<1>2. PowersOfTen[k] \in Nat \ {0} /\ PowersOfTen[k + 1] = 10 * PowersOfTen[k]
  BY <1>1, TenCases, PowersExact, SMT
<1> QED BY <1>2, TenTimes

IsWidth(n, d) ==
  /\ d \in 1 .. 10
  /\ d # 1 => PowersOfTen[d] <= n
  /\ d # 10 => n < PowersOfTen[d + 1]

LEMMA WidthExists ==
  ASSUME NEW n \in Nat
  PROVE  \E d \in 1 .. 10 : IsWidth(n, d)
BY PowersExact, SMT DEF IsWidth

LEMMA WidthIsDigits ==
  ASSUME NEW n \in Nat, NEW d \in 1 .. 10, IsWidth(n, d)
  PROVE  Digits(n) = d
<1>1. {k \in 2 .. 10 : PowersOfTen[k] <= n} = 2 .. d
  <2>1. ASSUME NEW k \in 2 .. 10, k <= d PROVE PowersOfTen[k] <= n
    BY <2>1, PowersRise DEF IsWidth
  <2>2. ASSUME NEW k \in 2 .. 10, k > d PROVE PowersOfTen[k] > n
    <3>1. d # 10 /\ d + 1 \in 1 .. 10 /\ k \in 1 .. 10 /\ d + 1 <= k
      BY <2>2
    <3> QED BY <3>1, PowersRise DEF IsWidth
  <2>3. \A k \in 1 .. 10 : PowersOfTen[k] \in Nat
    BY PowersRise
  <2>4. 2 .. d \subseteq 2 .. 10
    OBVIOUS
  <2> QED BY <2>1, <2>2, <2>3, <2>4
<1>2. 2 \in Int /\ d \in Int
  OBVIOUS
<1>3. Cardinality(2 .. d) = IF 2 > d THEN 0 ELSE d - 2 + 1
  BY <1>2, FS_Interval
<1>4. Digits(n) = 1 + Cardinality(2 .. d)
  BY <1>1 DEF Digits
<1> QED BY <1>3, <1>4

Place(l) == SelectInSeq(Letters, LAMBDA m : m = l)

LEMMA LettersApart ==
  /\ Len(Letters) = 10
  /\ \A j, k \in 1 .. 10 : Letters[j] = Letters[k] => j = k
  /\ \A j \in 1 .. 10 : Letters[j] # "+" /\ Letters[j] # "-"
<1>1. Len(Letters) = 10
  BY DEF Letters
<1>2. /\ Letters[1] = "0" /\ Letters[2] = "1" /\ Letters[3] = "2" /\ Letters[4] = "3"
      /\ Letters[5] = "4" /\ Letters[6] = "5" /\ Letters[7] = "6" /\ Letters[8] = "7"
      /\ Letters[9] = "8" /\ Letters[10] = "9"
  BY DEF Letters
<1>3. ASSUME NEW j \in 1 .. 10
      PROVE  Letters[j] # "+" /\ Letters[j] # "-"
  <2>1. Letters[j] # "+"
    BY <1>2, TenCases
  <2>2. Letters[j] # "-"
    BY <1>2, TenCases
  <2> QED BY <2>1, <2>2
<1>4. ASSUME NEW j \in 1 .. 10, NEW k \in 1 .. 10, Letters[j] = Letters[k] PROVE j = k
  BY <1>2, <1>4, TenCases
<1> QED BY <1>1, <1>3, <1>4

LEMMA PlaceOfLetter ==
  ASSUME NEW j \in 1 .. 10
  PROVE  Place(Letters[j]) = j
<1>1. {i \in 1 .. Len(Letters) : Letters[i] = Letters[j]} = {j}
  BY LettersApart
<1>2. Min({j}) = j
  BY DEF Min
<1> HIDE DEF Min
<1> QED BY <1>1, <1>2 DEF Place, SelectInSeq

IsValue(it, letters) ==
  it = [s \in SUBSET (DOMAIN letters) |->
         IF s = {} THEN 0 ELSE 10 * it[s \ {Max(s)}] + Place(letters[Max(s)]) - 1]

(* The value of the letters is that of a prefix and the letter after it.   *)
LEMMA ValueUnfold ==
  ASSUME NEW letters \in Seq({Letters[j] : j \in 1 .. 10})
  PROVE  \E val : /\ val[0] = 0
                  /\ \A i \in 1 .. Len(letters) :
                       val[i] = 10 * val[i - 1] + Place(letters[i]) - 1
                  /\ ValueOf(letters) = val[Len(letters)]
<1> DEFINE n == Len(letters)
           step == [p \in (1 .. n) \X Int |-> 10 * p[2] + Place(letters[p[1]]) - 1]
<1>1. n \in Nat /\ DOMAIN letters = 1 .. n
  BY LenProperties
<1>2. ASSUME NEW i \in 1 .. n PROVE Place(letters[i]) \in 1 .. 10
  <2>1. PICK j \in 1 .. 10 : letters[i] = Letters[j]
    BY <1>1, ElementOfSeq
  <2> QED BY <2>1, PlaceOfLetter
<1>3. step \in [(1 .. n) \X Int -> Int] /\ 0 \in Int
  <2>1. ASSUME NEW i \in 1 .. n, NEW v \in Int PROVE 10 * v + Place(letters[i]) - 1 \in Int
    BY <1>2
  <2> QED BY <2>1
<1> HIDE DEF n
<1>4. PICK some \in [SUBSET (1 .. n) -> Int] : IsLeftFold(some, n, 0, step)
  <2> HIDE DEF step
  <2> QED BY ONLY <1>1, <1>3, LeftFold
<1>5. IsValue(some, letters)
  <2>1. some = [s \in SUBSET (1 .. n) |-> IF s = {} THEN 0 ELSE step[<<Max(s), some[s \ {Max(s)}]>>]]
    BY <1>4 DEF IsLeftFold
  <2>2. ASSUME NEW s \in SUBSET (1 .. n), s # {}
        PROVE  step[<<Max(s), some[s \ {Max(s)}]>>] = 10 * some[s \ {Max(s)}] + Place(letters[Max(s)]) - 1
    <3>1. Max(s) \in s
      BY <1>1, <2>2, MaxExists
    <3>2. Max(s) \in 1 .. n /\ some[s \ {Max(s)}] \in Int
      BY <3>1
    <3> QED BY <3>2
  <2> HIDE DEF step
  <2>3. some = [s \in SUBSET (1 .. n) |->
                 IF s = {} THEN 0 ELSE 10 * some[s \ {Max(s)}] + Place(letters[Max(s)]) - 1]
    BY <2>1, <2>2
  <2> QED BY <1>1, <2>3 DEF IsValue
<1> HIDE DEF step
<1>6. PICK it : IsValue(it, letters) /\ ValueOf(letters) = it[DOMAIN letters]
  BY <1>5 DEF IsValue, Place, ValueOf, FoldLeft, MapThenFoldSet
<1>7. it = [s \in SUBSET (1 .. n) |->
             IF s = {} THEN 0 ELSE 10 * it[s \ {Max(s)}] + Place(letters[Max(s)]) - 1]
  BY <1>1, <1>6 DEF IsValue
<1> DEFINE val == [i \in 0 .. n |-> it[1 .. i]]
<1>8. val[0] = 0
  <2>1. 1 .. 0 = {} /\ {} \in SUBSET (1 .. n) /\ 0 \in 0 .. n
    BY <1>1
  <2> QED BY <1>7, <2>1
<1>9. ASSUME NEW i \in 1 .. n PROVE val[i] = 10 * val[i - 1] + Place(letters[i]) - 1
  <2>1. /\ Max(1 .. i) = i /\ (1 .. i) \ {i} = 1 .. (i - 1) /\ 1 .. i \in SUBSET (1 .. n) /\ 1 .. i # {}
        /\ i \in 0 .. n /\ i - 1 \in 0 .. n
    BY <1>1, Prefix
  <2>2. it[1 .. i] = 10 * it[(1 .. i) \ {Max(1 .. i)}] + Place(letters[Max(1 .. i)]) - 1
    BY ONLY <1>7, <2>1
  <2>3. val[i] = it[1 .. i] /\ val[i - 1] = it[1 .. (i - 1)]
    BY <2>1
  <2> HIDE DEF val
  <2> QED BY <2>1, <2>2, <2>3
<1>10. ValueOf(letters) = val[n]
  BY <1>1, <1>6
<1> QED BY <1>8, <1>9, <1>10 DEF n

(* The digits of a number are at most ten letters, none of them a sign.    *)
LEMMA DecimalLetters ==
  ASSUME NEW n \in Nat
  PROVE  /\ Digits(n) \in 1 .. 10 /\ IsWidth(n, Digits(n))
         /\ Decimal(n) \in Seq({Letters[j] : j \in 1 .. 10})
         /\ Len(Decimal(n)) = Digits(n)
         /\ \A i \in 1 .. Digits(n) :
              /\ (n \div PowersOfTen[Digits(n) - i + 1]) % 10 \in 0 .. 9
              /\ Decimal(n)[i] = Letters[1 + ((n \div PowersOfTen[Digits(n) - i + 1]) % 10)]
<1> DEFINE d == Digits(n)
           C == {Letters[j] : j \in 1 .. 10}
<1>1. d \in 1 .. 10 /\ IsWidth(n, d)
  BY WidthExists, WidthIsDigits
<1> HIDE DEF d
<1>2. ASSUME NEW i \in 1 .. d
      PROVE  /\ (n \div PowersOfTen[d - i + 1]) % 10 \in 0 .. 9
             /\ Letters[1 + ((n \div PowersOfTen[d - i + 1]) % 10)] \in C
  <2>1. PowersOfTen[d - i + 1] \in Nat \ {0}
    BY <1>1, PowersRise
  <2> DEFINE q == n \div PowersOfTen[d - i + 1]
  <2>2. q \in Nat
    BY <2>1, DivMod
  <2> HIDE DEF q
  <2>3. q % 10 \in 0 .. 9 /\ 1 + (q % 10) \in 1 .. 10
    BY <2>2
  <2> QED BY <2>3 DEF q
<1> DEFINE f == [i \in 1 .. d |-> Letters[1 + ((n \div PowersOfTen[d - i + 1]) % 10)]]
<1>3. Decimal(n) = f
  BY DEF Decimal, d
<1> HIDE DEF C
<1>4. f \in [1 .. d -> C] /\ d \in Nat
  BY <1>1, <1>2
<1>5. \A i \in 1 .. d : f[i] = Letters[1 + ((n \div PowersOfTen[d - i + 1]) % 10)]
  OBVIOUS
<1> HIDE DEF f
<1>6. f \in Seq(C) /\ Len(f) = d
  BY <1>4, FunctionIsSeq
<1> QED BY <1>1, <1>2, <1>3, <1>5, <1>6 DEF d, C

TenDigits(n) == n \div 1000000000 < 10

(* What is printed in decimal is read as it was.                           *)
LEMMA DecimalReadBack ==
  ASSUME NEW n \in Nat, TenDigits(n)
  PROVE  ValueOf(Decimal(n)) = n
<1> DEFINE d == Digits(n)
           text == Decimal(n)
           quot == [k \in 1 .. 10 |-> n \div PowersOfTen[k]]
<1>0. ASSUME NEW i \in 1 .. Digits(n)
      PROVE  quot[Digits(n) - i + 1] = n \div PowersOfTen[Digits(n) - i + 1]
  <2>1. Digits(n) \in 1 .. 10
    BY DecimalLetters
  <2>2. Digits(n) - i + 1 \in 1 .. 10
    BY <2>1
  <2> QED BY <2>2
<1>1. /\ d \in 1 .. 10 /\ IsWidth(n, d) /\ text \in Seq({Letters[j] : j \in 1 .. 10}) /\ Len(text) = d
      /\ \A i \in 1 .. d : /\ quot[d - i + 1] % 10 \in 0 .. 9
                           /\ text[i] = Letters[1 + (quot[d - i + 1] % 10)]
  <2> HIDE DEF quot
  <2> QED BY <1>0, DecimalLetters
<1>2. /\ \A k \in 1 .. 10 : quot[k] \in Nat
      /\ quot[1] = n /\ quot[d] < 10
      /\ \A k \in 1 .. 9 : quot[k] = 10 * quot[k + 1] + (quot[k] % 10)
  <2>1. ASSUME NEW k \in 1 .. 10 PROVE quot[k] \in Nat
    BY PowersRise, DivMod
  <2>2. quot[1] = n
    BY PowersExact, SMT
  <2>3. quot[d] < 10
    <3>1. CASE d = 10
      BY <3>1, PowersExact, SMT DEF TenDigits
    <3>2. CASE d # 10
      <4>1. d \in 1 .. 9 /\ PowersOfTen[d] \in Nat \ {0} /\ PowersOfTen[d + 1] = 10 * PowersOfTen[d]
        <5>1. d \in 1 .. 10 /\ d # 10
          BY <1>1, <3>2
        <5> HIDE DEF d
        <5> QED BY <5>1, TenCases, PowersExact, SMT
      <4>2. n < PowersOfTen[d + 1]
        BY <1>1, <3>2 DEF IsWidth
      <4> DEFINE p == PowersOfTen[d]
      <4>3. p \in Nat \ {0} /\ n < 10 * p
        BY <4>1, <4>2
      <4> HIDE DEF p
      <4>4. n \div p \in Nat /\ n = p * (n \div p) + (n % p) /\ n % p \in 0 .. p - 1
        BY <4>3, DivMod
      <4>5. p * (n \div p) < p * 10
        BY <4>3, <4>4
      <4>6. n \div p < 10
        BY <4>3, <4>4, <4>5, TimesReflects
      <4> QED BY <1>1, <4>6 DEF p
    <3> QED BY <3>1, <3>2
  <2>4. ASSUME NEW k \in 1 .. 9 PROVE quot[k] = 10 * quot[k + 1] + (quot[k] % 10)
    BY OneMoreDigit
  <2> QED BY <2>1, <2>2, <2>3, <2>4
<1> HIDE DEF quot, d, text
<1>3. PICK val : /\ val[0] = 0
                 /\ \A i \in 1 .. Len(text) : val[i] = 10 * val[i - 1] + Place(text[i]) - 1
                 /\ ValueOf(text) = val[Len(text)]
  BY <1>1, ValueUnfold
<1>4. ASSUME NEW i \in 1 .. d PROVE Place(text[i]) - 1 = quot[d - i + 1] % 10
  <2>1. 1 + (quot[d - i + 1] % 10) \in 1 .. 10
    BY <1>1
  <2> DEFINE j == 1 + (quot[d - i + 1] % 10)
  <2>2. j \in 1 .. 10 /\ text[i] = Letters[j] /\ j - 1 = quot[d - i + 1] % 10
    BY <1>1, <2>1
  <2> HIDE DEF j
  <2> QED BY <2>2, PlaceOfLetter
<1> DEFINE H == {i \in Nat : i + 1 \in 1 .. d => val[i + 1] = quot[d - i]}
<1>5. 0 \in H
  <2>1. 1 \in 1 .. d /\ d - 1 + 1 = d /\ d - 0 = d
    BY <1>1
  <2>2. val[1] = 10 * val[0] + Place(text[1]) - 1 /\ Place(text[1]) - 1 = quot[d] % 10
    BY <1>1, <1>3, <1>4, <2>1
  <2>3. quot[d] % 10 = quot[d]
    <3> DEFINE q == quot[d]
    <3>1. q \in Nat /\ q < 10
      BY <1>1, <1>2
    <3> HIDE DEF q
    <3>2. q % 10 = q
      BY <3>1
    <3> QED BY <3>2 DEF q
  <2>4. Place(text[1]) \in Int
    <3>1. \E k \in 1 .. 10 : text[1] = Letters[k]
      BY <1>1, <2>1, ElementOfSeq
    <3> QED BY <3>1, PlaceOfLetter
  <2>5. val[1] = quot[d]
    BY <1>3, <2>2, <2>3, <2>4
  <2> QED BY <2>1, <2>5
<1>6. ASSUME NEW i \in Nat, i \in H PROVE i + 1 \in H
  <2>1. CASE i + 2 \in 1 .. d
    <3>1. /\ i + 1 \in 1 .. d /\ d - i - 1 \in 1 .. 9 /\ d - (i + 2) + 1 = d - i - 1
          /\ (d - i - 1) + 1 = d - i /\ (i + 2) - 1 = i + 1 /\ d - i - 1 \in 1 .. 10
      BY <1>1, <2>1
    <3>2. val[i + 1] = quot[d - i]
      BY <1>6, <3>1
    <3>3. val[i + 2] = 10 * val[i + 1] + Place(text[i + 2]) - 1
      BY <1>1, <1>3, <2>1, <3>1
    <3>4. Place(text[i + 2]) - 1 = quot[d - i - 1] % 10
      BY <1>4, <2>1, <3>1
    <3>5. quot[d - i - 1] = 10 * quot[d - i] + (quot[d - i - 1] % 10)
      BY <1>2, <3>1
    <3>6. Place(text[i + 2]) \in Int
      <4>1. \E k \in 1 .. 10 : text[i + 2] = Letters[k]
        BY <1>1, <2>1, ElementOfSeq
      <4> QED BY <4>1, PlaceOfLetter
    <3>7. quot[d - i] \in Nat /\ quot[d - i - 1] \in Nat
      <4>1. d - i \in 1 .. 10
        BY <1>1, <3>1
      <4> QED BY <1>2, <3>1, <4>1
    <3>8. val[i + 2] = quot[d - i - 1]
      BY <3>2, <3>3, <3>4, <3>5, <3>6, <3>7
    <3>9. (i + 1) + 1 = i + 2 /\ d - (i + 1) = d - i - 1
      BY <1>1
    <3> QED BY <3>8, <3>9
  <2>2. CASE i + 2 \notin 1 .. d
    BY <2>2
  <2> QED BY <2>1, <2>2
<1> HIDE DEF H
<1>7. Nat \subseteq H
  BY <1>5, <1>6, Induction
<1>8. val[d] = quot[1]
  <2> DEFINE k == d - 1
  <2>1. k \in Nat /\ k + 1 = d /\ d - k = 1 /\ d \in 1 .. d
    BY <1>1
  <2> HIDE DEF k
  <2>2. k \in H
    BY <1>7, <2>1
  <2>3. k + 1 \in 1 .. d => val[k + 1] = quot[d - k]
    BY ONLY <2>2 DEF H
  <2> QED BY ONLY <2>1, <2>3, Zenon
<1>9. ValueOf(text) = n
  BY <1>1, <1>2, <1>3, <1>8
<1> QED BY <1>9 DEF text

LEMMA DecimalParses ==
  ASSUME NEW n \in Nat, TenDigits(n), n <= MaxIndex
  PROVE  ParseU32(Decimal(n)) = n
<1> DEFINE C == {Letters[j] : j \in 1 .. 10}
           text == Decimal(n)
<1>1. text \in Seq(C) /\ Len(text) \in 1 .. 10 /\ ValueOf(text) = n
  BY DecimalLetters, DecimalReadBack
<1>2. DOMAIN Letters = 1 .. 10 /\ Range(Letters) = C
  BY DEF Letters, Range
<1> HIDE DEF text
<1>3. \A i \in 1 .. Len(text) : text[i] \in C
  BY <1>1, ElementOfSeq
<1>4. \A c \in C : c # "+"
  BY LettersApart
<1> HIDE DEF C
<1>5. text # << >> /\ Head(text) # "+"
  <2>1. text # << >> /\ Head(text) = text[1] /\ 1 \in 1 .. Len(text)
    BY <1>1
  <2> QED BY <1>3, <1>4, <2>1
<1>6. Range(text) \subseteq Range(Letters)
  <2>1. DOMAIN text = 1 .. Len(text)
    BY <1>1, LenProperties
  <2> QED BY <1>2, <1>3, <2>1 DEF Range
<1> QED BY <1>1, <1>5, <1>6 DEF ParseU32, text

DashOf(path) == SelectInSeq(path, LAMBDA l : l = "-")

IsCut(path, a, b, C) ==
  /\ DashOf(path) # 0 /\ path \in Seq(C \cup {"-"})
  /\ SubSeq(path, 1, DashOf(path) - 1) = a
  /\ SubSeq(path, DashOf(path) + 1, Len(path)) = b

(* A path is cut at its dash.                                              *)
LEMMA PathCut ==
  ASSUME NEW C, "-" \notin C, NEW a \in Seq(C), NEW b \in Seq(C)
  PROVE  IsCut(a \o <<"-">> \o b, a, b, C)
<1> DEFINE D == C \cup {"-"}
           head == a \o <<"-">>
           path == head \o b
           m == Len(a) + 1
<1>1. /\ a \in Seq(D) /\ b \in Seq(D) /\ Len(a) \in Nat /\ Len(b) \in Nat
      /\ \A i \in 1 .. Len(a) : a[i] # "-"
      /\ \A i \in 1 .. Len(b) : b[i] # "-"
  BY ElementOfSeq, LenProperties, SeqMonotonic
<1>2. /\ head \in Seq(D) /\ Len(head) = m /\ head[m] = "-"
      /\ \A i \in 1 .. Len(a) : head[i] = a[i]
  BY <1>1
<1> HIDE DEF head
<1>3. /\ path \in Seq(D) /\ Len(path) = m + Len(b)
      /\ \A i \in 1 .. m : path[i] = head[i]
      /\ \A i \in 1 .. Len(b) : path[m + i] = b[i]
  BY <1>1, <1>2
<1> HIDE DEF path
<1>4. {i \in 1 .. Len(path) : path[i] = "-"} = {m}
  <2>1. ASSUME NEW i \in 1 .. Len(path), i < m PROVE path[i] # "-"
    <3>1. i \in 1 .. Len(a) /\ i \in 1 .. m
      BY <1>1, <2>1
    <3>2. path[i] = a[i]
      BY <1>2, <1>3, <3>1
    <3> QED BY <1>1, <3>1, <3>2
  <2>2. ASSUME NEW i \in 1 .. Len(path), i > m PROVE path[i] # "-"
    <3>1. i - m \in 1 .. Len(b) /\ m + (i - m) = i
      BY <1>1, <1>3, <2>2
    <3> QED BY <1>1, <1>3, <3>1
  <2>3. m \in 1 .. Len(path) /\ path[m] = "-"
    BY <1>1, <1>2, <1>3
  <2> QED BY <1>1, <2>1, <2>2, <2>3
<1>5. Min({m}) = m
  BY <1>1 DEF Min
<1> HIDE DEF Min
<1>6. DashOf(path) = m
  BY <1>4, <1>5 DEF SelectInSeq, DashOf
<1>7. SubSeq(path, 1, m - 1) = a
  <2>1. m - 1 = Len(a) /\ \A i \in 1 .. Len(a) : path[i] = a[i]
    BY <1>1, <1>2, <1>3
  <2>2. SubSeq(path, 1, Len(a)) \in Seq(D) /\ Len(SubSeq(path, 1, Len(a))) = Len(a)
        /\ \A i \in 1 .. Len(a) : SubSeq(path, 1, Len(a))[i] = path[i]
    BY <1>1, <1>3
  <2> HIDE DEF m
  <2> QED BY <1>1, <2>1, <2>2, SeqEqual
<1>8. SubSeq(path, m + 1, Len(path)) = b
  <2> DEFINE rest == SubSeq(path, m + 1, Len(path))
  <2>1. /\ rest \in Seq(D) /\ Len(rest) = Len(b)
        /\ \A i \in 1 .. Len(b) : rest[i] = path[m + i]
    BY <1>1, <1>3
  <2> HIDE DEF m, rest
  <2>2. \A i \in 1 .. Len(b) : rest[i] = b[i]
    BY <1>3, <2>1
  <2>3. rest = b
    BY <1>1, <2>1, <2>2, SeqEqual
  <2> QED BY <2>3 DEF rest
<1>9. IsCut(path, a, b, C)
  BY <1>1, <1>3, <1>6, <1>7, <1>8 DEF IsCut
<1> QED BY <1>9 DEF path, head

(* The two numbers of a path are read as they have been printed.           *)
LEMMA PathReadBack ==
  ASSUME NEW n \in Nat \ {0}, NEW k \in Nat \ {0}, n <= MaxIndex, k <= MaxIndex
  PROVE  LET path == Decimal(n) \o <<"-">> \o Decimal(k)
         IN  path # None /\ DecodeIndices(path) = <<n, k>>
<1> DEFINE C == {Letters[j] : j \in 1 .. 10}
           path == Decimal(n) \o <<"-">> \o Decimal(k)
           dash == DashOf(path)
<1>1. TenDigits(n) /\ TenDigits(k)
  BY PathsAssumption, SMT DEF TenDigits
<1>2. None \notin Nat /\ None \notin Seq(Range(Letters) \cup {"-"})
  BY PathsAssumption, SMT
<1>3. Range(Letters) = C /\ "-" \notin C
  <2>1. DOMAIN Letters = 1 .. 10 /\ Range(Letters) = C
    BY DEF Letters, Range
  <2> QED BY <2>1, LettersApart
<1>4. Decimal(n) \in Seq(C) /\ Decimal(k) \in Seq(C)
  BY DecimalLetters
<1>5. ParseU32(Decimal(n)) = n /\ ParseU32(Decimal(k)) = k
  BY <1>1, DecimalParses
<1> HIDE DEF C
<1>6. /\ dash # 0 /\ path \in Seq(C \cup {"-"})
      /\ SubSeq(path, 1, dash - 1) = Decimal(n)
      /\ SubSeq(path, dash + 1, Len(path)) = Decimal(k)
  <2>1. IsCut(path, Decimal(n), Decimal(k), C)
    BY <1>3, <1>4, PathCut
  <2> QED BY <2>1 DEF IsCut
<1>7. path # None
  BY <1>2, <1>3, <1>6
<1>8. DecodeIndices(path) = <<n, k>>
  <2>1. DecodeIndices(path) =
          LET seq == ParseU32(SubSeq(path, 1, dash - 1))
              count == ParseU32(SubSeq(path, dash + 1, Len(path)))
          IN  IF dash = 0 \/ {seq, count} \cap {None, 0} # {} THEN None ELSE <<seq, count>>
    BY DEF DecodeIndices, DashOf
  <2> HIDE DEF path, dash
  <2>2. {n, k} \cap {None, 0} = {}
    BY <1>2
  <2> QED BY <1>5, <1>6, <2>1, <2>2
<1> QED BY <1>7, <1>8 DEF path

LEMMA ReadBack == IndicesReadBack
<1> SUFFICES ASSUME NEW u \in Emitted, u.kind = "MultiPart"
             PROVE  /\ u.indices # None /\ IndicesOf(u) # None
                    /\ DecodeIndices(IndicesOf(u)) = u.indices
  BY DEF IndicesReadBack
<1>1. /\ u \in Uris /\ u.body # None /\ WellFormed(u.body)
      /\ u.indices = <<u.body.seq, u.body.count>>
  BY DEF Emitted
<1>2. u.body \in Parts /\ u.body.seq \in Nat /\ u.body.count \in Nat
  BY <1>1, UrisAssumption, PartsAssumption
<1> DEFINE n == u.body.seq
           k == u.body.count
<1>3. n \in Nat \ {0} /\ k \in Nat \ {0}
  BY <1>1, <1>2 DEF WellFormed, IsEmpty
<1>4. n <= MaxIndex /\ k <= MaxIndex /\ None \notin Nat \X Nat
  BY <1>1, PathsAssumption, SMT
<1>5. u.indices = <<n, k>> /\ IndicesOf(u) = Decimal(n) \o <<"-">> \o Decimal(k)
  BY <1>1 DEF IndicesOf
<1> HIDE DEF n, k
<1>6. u.indices # None
  BY <1>3, <1>4, <1>5
<1> QED BY <1>3, <1>4, <1>5, <1>6, PathReadBack
-----------------------------------------------------------------------------
(* A text of one encoder.                                                  *)

LEMMA PrintedRead ==
  ASSUME NEW u \in Emitted, NEW c \in BOOLEAN
  PROVE  Parse(Printed(u, c)) = u
<1> DEFINE s == Normalize(Printed(u, c))
<1>1. /\ u \in Uris /\ u.parsed = TRUE /\ u.type \in Types
      /\ u.kind \in {"SinglePart", "MultiPart"}
      /\ u = [len |-> u.len, parsed |-> u.parsed, type |-> u.type, kind |-> u.kind,
              indices |-> u.indices, body |-> u.body]
      /\ u.kind = "SinglePart" => u.indices = None
  BY UrisAssumption DEF Emitted
<1>2. u.kind = "MultiPart" =>
        IndicesOf(u) # None /\ u.indices # None /\ DecodeIndices(IndicesOf(u)) = u.indices
  BY ReadBack DEF IndicesReadBack
<1>3. /\ s.scheme = "ur" /\ s.upper = FALSE /\ s.slash /\ s.type = u.type /\ s.body = u.body
      /\ s.len = u.len
      /\ s.path = IF u.kind = "SinglePart" THEN None ELSE IndicesOf(u)
  BY DEF Normalize, Printed
<1> HIDE DEF s
<1>4. Parses(s) = TRUE
  BY <1>1, <1>2, <1>3 DEF Parses, IsType
<1>5. /\ (IF s.path = None THEN "SinglePart" ELSE "MultiPart") = u.kind
      /\ (IF s.path = None THEN None ELSE DecodeIndices(s.path)) = u.indices
  BY <1>1, <1>2, <1>3
<1>6. Parse(Printed(u, c)) =
        [len |-> s.len, parsed |-> Parses(s),
         type |-> IF IsType(s.type) THEN s.type ELSE CHOOSE t \in Types : TRUE,
         kind |-> IF s.path = None THEN "SinglePart" ELSE "MultiPart",
         indices |-> IF s.path = None THEN None ELSE DecodeIndices(s.path),
         body |-> s.body]
  BY DEF Parse, s
<1> QED BY <1>1, <1>3, <1>4, <1>5, <1>6 DEF IsType

(* The lines are the URIs they are read as, all of one sender.             *)
LEMMA OwnLines ==
  ASSUME input \in Inputs, OwnUris # {}
  PROVE  /\ OwnUris = {Heard(i) : i \in Lines}
         /\ \A i \in Lines : Heard(i) \in Emitted
         /\ \A i, j \in Lines : SenderOf(Heard(i)) = SenderOf(Heard(j))
         /\ Lines = 1 .. Len(input.lines) /\ Len(input.lines) \in Nat \ {0}
<1> DEFINE all == UNION {PrintedAs(i) : i \in Lines}
<1>1. /\ OwnUris = all /\ \A i \in Lines : PrintedAs(i) # {}
      /\ Cardinality({SenderOf(u) : u \in all}) = 1
  BY DEF OwnUris
<1>2. ASSUME NEW i \in Lines
      PROVE  PrintedAs(i) = {Heard(i)} /\ Heard(i) \in Emitted
  <2>1. ASSUME NEW u \in PrintedAs(i)
        PROVE  u = Heard(i) /\ u \in Emitted
    BY <2>1, PrintedRead DEF PrintedAs, Heard
  <2> QED BY <1>1, <2>1
<1>3. all = {Heard(i) : i \in Lines}
  BY <1>2
<1>4. Lines = 1 .. Len(input.lines) /\ Len(input.lines) \in Nat
  BY InputsAssumption DEF Lines
<1>5. Len(input.lines) # 0
  BY <1>1, <1>3, <1>4
<1> DEFINE senders == {SenderOf(u) : u \in all}
           f == [i \in Lines |-> SenderOf(Heard(i))]
<1>6. f \in Surjection(Lines, senders)
  BY <1>3 DEF Surjection
<1>7. IsFiniteSet(senders)
  BY <1>4, <1>6, FS_Interval, FS_Surjection
<1>8. \E x : senders = {x}
  BY <1>1, <1>7, FS_Singleton
<1>9. \A i \in Lines : SenderOf(Heard(i)) \in senders
  BY <1>3
<1> HIDE DEF all, senders, f
<1> QED BY <1>1, <1>2, <1>3, <1>4, <1>5, <1>8, <1>9

(* There are no more index vectors among the lines than lines.             *)
OwnVectors == {Indexes(u.body) : u \in OwnUris}

LEMMA OwnVectorsFew ==
  ASSUME input \in Inputs, OwnUris # {}, NEW V, V \subseteq OwnVectors
  PROVE  /\ IsFiniteSet(V) /\ Cardinality(V) \in Nat /\ Cardinality(OwnUris) \in Nat
         /\ Cardinality(V) <= Cardinality(OwnUris)
<1> DEFINE f == [u \in OwnUris |-> Indexes(u.body)]
           g == [i \in Lines |-> Heard(i)]
<1>1. Lines = 1 .. Len(input.lines) /\ Len(input.lines) \in Nat /\ OwnUris = {Heard(i) : i \in Lines}
  BY OwnLines
<1>2. g \in Surjection(Lines, OwnUris)
  BY <1>1 DEF Surjection
<1>3. IsFiniteSet(OwnUris)
  BY <1>1, <1>2, FS_Interval, FS_Surjection
<1>4. f \in Surjection(OwnUris, OwnVectors)
  BY DEF Surjection, OwnVectors
<1>5. IsFiniteSet(OwnVectors) /\ Cardinality(OwnVectors) <= Cardinality(OwnUris)
  BY <1>3, <1>4, FS_Surjection
<1>6. IsFiniteSet(V) /\ Cardinality(V) <= Cardinality(OwnVectors)
  BY <1>5, FS_Subset
<1> QED BY <1>3, <1>5, <1>6, FS_CardinalityType

(* What asks no more of the session than its limits and its type allow.    *)
OwnText ==
  /\ OwnUris # {}
  /\ \A u \in OwnUris : input.type \in {None, u.type}
  /\ Cardinality(OwnUris) <= MaxReceivedParts /\ Cardinality(OwnUris) <= MaxBufferParts

(* The parts among the first n lines have been accepted.                   *)
OwnTaken(n) ==
  \A i \in 1 .. n : Heard(i).kind = "MultiPart" => Indexes(Heard(i).body) \in received

OwnInv ==
  OwnText =>
    /\ poisoned = Alive /\ urPoisoned = Alive
    /\ TruePayloads
    /\ received \subseteq OwnVectors
    /\ at = "lines" => OwnTaken(next - 1) /\ (next = 1 => received = {})
    /\ at = "receive" =>
         /\ OwnTaken(next)
         /\ IF call = None THEN answer = "Ok"
                           ELSE phase # "idle" \/ outcome \in {"Accepted", "Ignored"}
    /\ at = "write" => Determined(OwnUris)
    /\ ending = "None" <=> at # "done"
    /\ OwnLinesDecide

(* What the session has to check of a line.                                *)
LEMMA OwnLine ==
  ASSUME input \in Inputs, OwnText, NEW i \in Lines
  PROVE  LET u == Heard(i)
         IN  /\ u \in OwnUris /\ u \in Uris
             /\ u.parsed /\ u.body # None /\ ~(u.len > MaxUriLen) /\ u.len <= MaxUriLen
             /\ u.kind \in {"SinglePart", "MultiPart"} /\ u.type \in Types
             /\ input.type \in {None, u.type}
             /\ u.kind = "SinglePart" => ~(u.body.len > MaxMessageLength)
             /\ u.kind = "MultiPart" =>
                  /\ u.body \in Parts
                  /\ LengthFits(u.body) /\ Geometry(u.body) /\ IsHonest(u.body)
                  /\ u.indices = <<u.body.seq, u.body.count>>
                  /\ ~(u.body.data.len > MaxFragmentData) /\ ~(u.body.count > MaxFragmentCount)
<1> DEFINE u == Heard(i)
<1>1. u \in OwnUris /\ u \in Emitted
  BY OwnLines DEF OwnText
<1>2. u \in Uris /\ input.type \in {None, u.type}
  BY <1>1 DEF Emitted, OwnText
<1> HIDE DEF u
<1>3. u.len \in Nat /\ MaxUriLen \in Nat
  BY <1>2, UrisAssumption
<1>4. ASSUME u.kind = "SinglePart"
      PROVE  ~(u.body.len > MaxMessageLength)
  <2>1. u.body.len <= MaxMessageLength /\ u.body.len \in Nat /\ MaxMessageLength \in Nat
    BY <1>1, <1>2, <1>4, UrisAssumption, LimitsAssumption DEF Emitted
  <2> QED BY <2>1
<1>5. ASSUME u.kind = "MultiPart"
      PROVE  /\ u.body \in Parts
             /\ LengthFits(u.body) /\ Geometry(u.body) /\ IsHonest(u.body)
             /\ u.indices = <<u.body.seq, u.body.count>>
             /\ ~(u.body.data.len > MaxFragmentData) /\ ~(u.body.count > MaxFragmentCount)
  <2>1. /\ u.body \in Parts
        /\ LengthFits(u.body) /\ Geometry(u.body) /\ IsHonest(u.body)
        /\ u.indices = <<u.body.seq, u.body.count>>
    BY <1>1, <1>2, <1>5, UrisAssumption DEF Emitted
  <2>2. /\ u.body.data.len \in Nat /\ u.body.count \in Nat
        /\ MaxFragmentData \in Nat /\ MaxFragmentCount \in Nat
    BY <2>1, PartsAssumption, LimitsAssumption
  <2>3. u.body.data.len <= MaxFragmentData /\ u.body.count <= MaxFragmentCount
    BY <2>1 DEF LengthFits, CountFits, DataFits
  <2> QED BY <2>1, <2>2, <2>3
<1> QED BY <1>1, <1>2, <1>3, <1>4, <1>5, UrisAssumption DEF Emitted, u

(* A line of such a text is taken: no check refuses it and no limit is hit. *)
LEMMA OwnLineTaken ==
  ASSUME DecodeInv, OwnInv, OwnText, ReceiveLine
  PROVE  LET u == Heard(next)
         IN  \/ TakeSingle(u) /\ u.kind = "SinglePart"
             \/ /\ CallFountain(u) /\ u.kind = "MultiPart"
                /\ IgnoreDuplicate(u.body) \/ Accept(u.body)
<1> DEFINE u == Heard(next)
<1>1. /\ at = "lines" /\ next \in Lines /\ next \in Nat \ {0} /\ UrReceive(u)
      /\ input \in Inputs /\ expected = input.type /\ call = None /\ urPoisoned = Alive
      /\ poisoned = Alive /\ ~SessionComplete /\ FromSender(next - 1)
      /\ received \subseteq OwnVectors /\ (next = 1 => received = {})
  <2>1. /\ at = "lines" /\ input \in Inputs /\ next \in Nat \ {0} /\ next <= Len(input.lines)
    BY DEF ReceiveLine, DecodeInv, DecodePlace
  <2>2. next \in Lines
    BY <2>1, InputsAssumption DEF Lines
  <2> QED BY <2>1, <2>2 DEF ReceiveLine, DecodeInv, DecodePlace, OwnInv, Heard
<1>2. /\ u \in OwnUris /\ u \in Uris
      /\ u.parsed /\ u.body # None /\ ~(u.len > MaxUriLen) /\ u.len <= MaxUriLen
      /\ u.kind \in {"SinglePart", "MultiPart"} /\ u.type \in Types
      /\ input.type \in {None, u.type}
      /\ u.kind = "SinglePart" => ~(u.body.len > MaxMessageLength)
      /\ u.kind = "MultiPart" =>
           /\ u.body \in Parts
           /\ LengthFits(u.body) /\ Geometry(u.body)
           /\ u.indices = <<u.body.seq, u.body.count>>
           /\ ~(u.body.data.len > MaxFragmentData) /\ ~(u.body.count > MaxFragmentCount)
  BY <1>1, OwnLine
<1>3. /\ single = None /\ ~Complete /\ phase = "idle"
      /\ seen # None <=> received # {}
      /\ FountainStarted => received # {}
  BY <1>1 DEF SessionComplete, DecodeInv, UrIInv, PinnedWithContent, FountainStarted, IInv, Pinned
<1>4. received # {} => /\ u.kind = "MultiPart" /\ MetaOf(u.body) = meta /\ u.type = seen
  <2>1. SUFFICES ASSUME received # {}
                 PROVE  /\ u.kind = "MultiPart" /\ MetaOf(u.body) = meta /\ u.type = seen
    OBVIOUS
  <2>2. 1 \in 1 .. next - 1 /\ 1 \in Lines
    BY <1>1, <2>1, InputsAssumption DEF Lines
  <2>3. SenderOf(Heard(1)) = <<seen, "MultiPart", meta>>
    BY <1>1, <1>3, <2>2 DEF FromSender, SessionSender
  <2>4. SenderOf(u) = SenderOf(Heard(1))
    BY <1>1, <2>2, OwnLines DEF OwnText
  <2> HIDE DEF u
  <2> QED BY <2>3, <2>4 DEF SenderOf
<1> HIDE DEF u
<1>5. CheckType(u.type)
  BY <1>1, <1>2, <1>3, <1>4, UrisAssumption DEF CheckType
<1>6. ~PoisonUri(u) /\ ~RejectUri(u) /\ ~RejectType(u)
  BY <1>2, <1>5 DEF PoisonUri, RejectUri, RejectType
<1>7. CASE u.kind = "SinglePart"
  <2>1. ~FountainStarted
    BY <1>3, <1>4, <1>7
  <2>2. ~ReceiveFountain(u)
    BY <1>7 DEF ReceiveFountain, RejectMulti, GarbledPart, PoisonPartData, RejectPart,
       PoisonPartCount, RejectIndices, CallFountain, Codec, CodecData, FirstForm, Typed
  <2>3. ~RejectSingle(u) /\ ~IgnoreSingle(u) /\ ~GarbledSingle(u) /\ ~PoisonSingle(u)
    BY <1>2, <1>3, <1>7, <2>1 DEF RejectSingle, IgnoreSingle, GarbledSingle, PoisonSingle
  <2> QED BY <1>1, <1>6, <1>7, <2>2, <2>3 DEF UrReceive, ReceiveSingle, u
<1>8. CASE u.kind = "MultiPart"
  <2> DEFINE p == u.body
  <2>1. ~ReceiveSingle(u)
    BY <1>8 DEF ReceiveSingle, RejectSingle, IgnoreSingle, GarbledSingle, PoisonSingle,
       TakeSingle, FirstSingle, Typed
  <2>2. WellFormed(p) /\ DataFits(p) /\ CountFits(p) /\ p \in Parts
    BY <1>2, <1>8 DEF LengthFits, CountFits, DataFits
  <2>3. CallFountain(u)
    BY <1>1, <1>2, <1>3, <1>6, <1>8, <2>1, <2>2
    DEF UrReceive, ReceiveFountain, RejectMulti, GarbledPart, PoisonPartData, RejectPart,
        PoisonPartCount, RejectIndices
  <2>4. Admissible(p)
    BY <1>2, <1>4, <1>8, <2>2 DEF Admissible, Validate, First
  <2>5. Indexes(p) \in OwnVectors
    BY <1>2 DEF OwnVectors
  <2>6. ~PoisonReceived(p)
    <3>1. SUFFICES ASSUME PoisonReceived(p) PROVE FALSE
      OBVIOUS
    <3>2. Indexes(p) \notin received /\ Cardinality(received) >= MaxReceivedParts
      BY <3>1 DEF PoisonReceived, IsDuplicate
    <3>3. received \cup {Indexes(p)} \subseteq OwnVectors
      BY <1>1, <2>5
    <3>4. /\ IsFiniteSet(received) /\ Cardinality(received) \in Nat
          /\ Cardinality(received \cup {Indexes(p)}) <= Cardinality(OwnUris)
          /\ Cardinality(OwnUris) \in Nat
      BY <1>1, <3>3, OwnVectorsFew DEF OwnText
    <3>5. Cardinality(received \cup {Indexes(p)}) = Cardinality(received) + 1
      BY <3>2, <3>4, FS_AddElement
    <3>6. Cardinality(OwnUris) <= MaxReceivedParts /\ MaxReceivedParts \in Nat
      BY LimitsAssumption DEF OwnText
    <3> QED BY <3>2, <3>4, <3>5, <3>6
  <2>7. AnswerPoisoned \/ AnswerComplete \/ Receive(p)
    BY <2>3 DEF CallFountain
  <2>8. IgnoreDuplicate(p) \/ Accept(p)
    BY <1>1, <1>2, <1>3, <1>8, <2>2, <2>4, <2>6, <2>7
    DEF AnswerPoisoned, AnswerComplete, Receive, RejectEmpty, RejectSequence, WellFormed,
        RejectInconsistent, Admissible, PoisonData, PoisonCount, PoisonLength
  <2> QED BY <1>8, <2>3, <2>8 DEF u
<1> QED BY <1>2, <1>7, <1>8

(* All of this is about the text, which stays as it is.                    *)
LEMMA OwnSame ==
  ASSUME input' = input
  PROVE  /\ OwnUris' = OwnUris /\ OwnVectors' = OwnVectors /\ OwnText' = OwnText
         /\ Lines' = Lines /\ Determined(OwnUris)' = Determined(OwnUris)
         /\ \A i : Heard(i)' = Heard(i)
<1>1. Lines' = Lines /\ (\A i : PrintedAs(i)' = PrintedAs(i)) /\ (\A i : Heard(i)' = Heard(i))
  BY DEF Lines, PrintedAs, Heard
<1>2. OwnUris' = OwnUris
  BY <1>1 DEF OwnUris
<1>3. OwnVectors' = OwnVectors /\ OwnText' = OwnText
  BY <1>2 DEF OwnVectors, OwnText
<1>4. Determined(OwnUris)' = Determined(OwnUris)
  BY <1>2 DEF Determined, Peel!PeelClosed
<1> QED BY <1>1, <1>2, <1>3, <1>4

LEMMA OwnReceiveLine ==
  ASSUME DecodeInv, OwnInv, OwnText, ReceiveLine
  PROVE  OwnInv'
<1> DEFINE u == Heard(next)
<1>1. /\ at = "lines" /\ at' = "receive" /\ next \in Lines /\ next \in Nat \ {0}
      /\ input \in Inputs /\ UNCHANGED <<input, next, ending>>
      /\ poisoned = Alive /\ urPoisoned = Alive /\ TruePayloads /\ IInv
      /\ received \subseteq OwnVectors /\ OwnTaken(next - 1) /\ ending = "None"
  <2>1. next \in Lines
    BY InputsAssumption DEF ReceiveLine, DecodeInv, DecodePlace, Lines
  <2> QED BY <2>1 DEF ReceiveLine, Goto, DecodeInv, DecodePlace, UrIInv, OwnInv
<1>2. /\ OwnVectors' = OwnVectors /\ OwnText' /\ \A i : Heard(i)' = Heard(i)
  BY <1>1, OwnSame
<1>3. u \in OwnUris /\ (u.kind = "MultiPart" => u.body \in Parts /\ IsHonest(u.body))
  BY <1>1, OwnLine
<1>4. ASSUME u.kind = "MultiPart" => Indexes(u.body) \in received', received \subseteq received'
      PROVE  OwnTaken(next)'
  <2> SUFFICES ASSUME NEW i \in 1 .. next, Heard(i).kind = "MultiPart"
               PROVE  Indexes(Heard(i).body) \in received'
    BY <1>1, <1>2 DEF OwnTaken
  <2>1. i = next \/ i \in 1 .. next - 1
    BY <1>1
  <2> QED BY <1>1, <1>4, <2>1 DEF OwnTaken
<1>5. OwnLinesDecide'
  BY <1>1 DEF OwnLinesDecide
<1> HIDE DEF u
<1>6. CASE TakeSingle(u) /\ u.kind = "SinglePart"
  <2>1. /\ UNCHANGED vars /\ call' = None /\ answer' = "Ok" /\ urPoisoned' = urPoisoned
    BY <1>6 DEF TakeSingle, FirstSingle, Typed, Parsed, Open
  <2>2. TruePayloads'
    BY <1>1, <2>1 DEF vars, session, TruePayloads, TrueFragments
  <2>3. UNCHANGED <<received, poisoned>>
    BY <2>1 DEF vars, session
  <2> QED BY <1>1, <1>2, <1>4, <1>5, <1>6, <2>1, <2>2, <2>3 DEF OwnInv
<1>7. CASE CallFountain(u) /\ u.kind = "MultiPart"
  <2>1. call' = u /\ UNCHANGED urPoisoned /\ call' # None
    BY <1>7, <1>3, UrisAssumption DEF CallFountain, OwnUris, PrintedAs, Emitted
  <2>2. CASE IgnoreDuplicate(u.body)
    <3>1. /\ UNCHANGED <<session, phase, part>> /\ outcome' = "Ignored"
          /\ Indexes(u.body) \in received
      BY <2>2 DEF IgnoreDuplicate, Answer, IsDuplicate
    <3>2. TruePayloads'
      BY <1>1, <3>1 DEF session, TruePayloads, TrueFragments
    <3>3. UNCHANGED <<received, poisoned>>
      BY <3>1 DEF session
    <3> QED BY <1>1, <1>2, <1>4, <1>5, <2>1, <3>1, <3>2, <3>3 DEF OwnInv
  <2>3. CASE Accept(u.body)
    <3>1. /\ UNCHANGED poisoned /\ phase' = "ingest" /\ received' = received \cup {Indexes(u.body)}
          /\ meta' = MetaOf(u.body) /\ part' = [vec |-> Indexes(u.body), data |-> u.body.data]
      BY <2>3 DEF Accept
    <3>2. ASSUME NEW q \in Parts, Accept(q)
          PROVE  IsHonest(q)
      <4>1. /\ MetaOf(q) = MetaOf(u.body) /\ Indexes(q) = Indexes(u.body) /\ q.data = u.body.data
        BY <3>1, <3>2 DEF Accept
      <4> QED BY <1>3, <1>7, <4>1 DEF IsHonest
    <3>3. [Next]_vars
      BY <1>3, <1>7, <2>3 DEF Next, Receive
    <3>4. TruePayloads'
      BY <1>1, <3>2, <3>3, NextTrue
    <3>5. Indexes(u.body) \in OwnVectors
      BY <1>3 DEF OwnVectors
    <3> QED BY <1>1, <1>2, <1>4, <1>5, <2>1, <3>1, <3>4, <3>5 DEF OwnInv
  <2>4. IgnoreDuplicate(u.body) \/ Accept(u.body)
    BY <1>7, OwnLineTaken DEF u
  <2> QED BY <2>2, <2>3, <2>4
<1> QED BY <1>6, <1>7, OwnLineTaken DEF u

(* While the fountain decoder runs no limit is hit, and its result is a    *)
(* success.                                                                *)
LEMMA OwnInReceive ==
  ASSUME DecodeInv, DecodeInv', OwnInv, OwnText, RedeliveryInv', InReceive
  PROVE  OwnInv'
<1>1. /\ at = "receive" /\ UNCHANGED <<input, at, next, ending>> /\ input \in Inputs
      /\ poisoned = Alive /\ urPoisoned = Alive /\ TruePayloads /\ IInv /\ UrIInv
      /\ received \subseteq OwnVectors /\ OwnTaken(next) /\ ending = "None"
      /\ call # None => phase # "idle" \/ outcome \in {"Accepted", "Ignored"}
      /\ Conclude
  BY DEF InReceive, decode, DecodeInv, DecodePlace, UrIInv, OwnInv
<1>2. /\ OwnVectors' = OwnVectors /\ OwnText' /\ \A i : Heard(i)' = Heard(i)
  BY <1>1, OwnSame
<1>3. UNCHANGED received => OwnTaken(next)'
  BY <1>1, <1>2 DEF OwnTaken
<1>4. OwnLinesDecide'
  BY <1>1 DEF OwnLinesDecide
<1>5. CASE FountainStep
  <2>1. /\ phase # "idle" /\ UNCHANGED <<received, call, urPoisoned>> /\ call # None
        /\ poisoned' = Alive => (phase' = "idle" => outcome' = "Accepted")
    BY <1>1, <1>5, RunShape DEF FountainStep, ur
  <2>2. poisoned' \in {Alive, "BufferParts", "DecoderState"}
    BY <1>1, <1>5 DEF FountainStep, Ingest, Drain, IngestKnown, IngestNew, StripKnown,
       InternalError, PopSimple, Return, Reduce, session, Resolve, Discard, Keep, Overflow, Poison
  <2>3. poisoned' # "DecoderState"
    BY <1>1, <1>5, NextNoDecoderState DEF NoDecoderState, Alive, FountainStep, Next
  <2>4. poisoned' # "BufferParts"
    <3>1. SUFFICES ASSUME poisoned' = "BufferParts" PROVE FALSE
      OBVIOUS
    <3>2. MaxBufferParts < Cardinality(Long(received))
      BY <2>1, <3>1 DEF RedeliveryInv, Long
    <3>3. Long(received) \subseteq OwnVectors
      BY <1>1 DEF Long
    <3>4. /\ Cardinality(Long(received)) \in Nat /\ Cardinality(OwnUris) \in Nat
          /\ Cardinality(Long(received)) <= Cardinality(OwnUris)
          /\ Cardinality(OwnUris) <= MaxBufferParts /\ MaxBufferParts \in Nat
      BY <1>1, <3>3, OwnVectorsFew, LimitsAssumption DEF OwnText
    <3> QED BY <3>2, <3>4
  <2>5. poisoned' = Alive
    BY <2>2, <2>3, <2>4
  <2>6. TruePayloads'
    <3>1. \A p \in Parts : ~Accept(p)
      BY <2>1 DEF Accept, Listening
    <3>2. [Next]_vars
      BY <1>5 DEF FountainStep, Next
    <3> QED BY <1>1, <3>1, <3>2, NextTrue
  <2> QED BY <1>1, <1>2, <1>3, <1>4, <2>1, <2>5, <2>6 DEF OwnInv
<1>6. CASE Pin \/ Escalate \/ PassOn
  <2>1. call # None /\ outcome \in {"Accepted", "Ignored"}
    BY <1>1, <1>6 DEF Pin, Escalate, PassOn, Returned
  <2>2. outcome \notin Poisons
    BY <2>1 DEF Poisons, Limits
  <2>3. Pin
    BY <1>6, <2>1, <2>2 DEF Escalate, PassOn
  <2>4. UNCHANGED <<vars, urPoisoned>> /\ call' = None /\ answer' = "Ok"
    BY <2>3 DEF Pin
  <2>5. TruePayloads' /\ UNCHANGED <<received, poisoned>>
    BY <1>1, <2>4 DEF vars, session, TruePayloads, TrueFragments
  <2> QED BY <1>1, <1>2, <1>3, <1>4, <2>4, <2>5 DEF OwnInv
<1> QED BY <1>1, <1>5, <1>6 DEF Conclude

(* What has been accepted says of the message what the text says.          *)
LEMMA OwnSets ==
  ASSUME DecodeInv, OwnInv, OwnText, NEW n \in Lines, FromSender(n),
         single = None, call = None
  PROVE  /\ received # {} /\ meta.count \in Nat
         /\ DOMAIN decoded \subseteq Fragments
         /\ \A u \in OwnUris : u.kind = "MultiPart" /\ u.body.count = meta.count
         /\ {Range(v) : v \in received} \subseteq {Range(Indexes(w.body)) : w \in OwnUris}
         /\ poisoned = Alive /\ phase = "idle" /\ IInv
<1>1. input \in Inputs /\ IInv /\ UrIInv /\ received \subseteq OwnVectors /\ poisoned = Alive
      /\ phase = "idle" /\ n \in Nat \ {0}
  BY OwnLines DEF DecodeInv, DecodePlace, UrIInv, OwnInv, OwnText
<1>2. received # {} /\ SenderOf(Heard(n)) = <<seen, "MultiPart", meta>>
  BY <1>1 DEF FromSender, SessionSender
<1>3. ASSUME NEW u \in OwnUris
      PROVE  u.kind = "MultiPart" /\ u.body.count = meta.count
  <2>1. PICK i \in Lines : u = Heard(i)
    BY <1>1, OwnLines DEF OwnText
  <2>2. SenderOf(u) = SenderOf(Heard(n))
    BY <1>1, <2>1, OwnLines DEF OwnText
  <2>3. SenderOf(u) = <<seen, "MultiPart", meta>>
    BY <1>2, <2>2
  <2>4. u.kind = "MultiPart" /\ MetaOf(u.body) = meta
    BY <2>3 DEF SenderOf
  <2> QED BY <2>4 DEF MetaOf
<1> QED BY <1>1, <1>2, <1>3 DEF OwnVectors, IInv, TypeOK, StoreOK, Fragments

LEMMA OwnComplete ==
  ASSUME DecodeInv, OwnInv, OwnText, NEW n \in Lines, FromSender(n),
         call = None, SessionComplete
  PROVE  Readable /\ Determined(OwnUris)
<1>1. /\ poisoned = Alive /\ urPoisoned = Alive /\ TruePayloads /\ input \in Inputs
      /\ n \in 1 .. n /\ n \in Nat \ {0}
  BY OwnLines DEF DecodeInv, DecodePlace, OwnInv, OwnText
<1>2. CASE single # None
  <2>1. ASSUME NEW u \in OwnUris
        PROVE  u.kind = "SinglePart"
    <3>1. PICK i \in Lines : u = Heard(i)
      BY <1>1, OwnLines DEF OwnText
    <3>2. SenderOf(u) = SenderOf(Heard(n))
      BY <1>1, <3>1, OwnLines DEF OwnText
    <3>3. SenderOf(u) = <<seen, "SinglePart", single>>
      BY <1>1, <1>2, <3>2 DEF FromSender, SessionSender
    <3> QED BY <3>3 DEF SenderOf
  <2> QED BY <1>1, <1>2, <2>1 DEF Readable, Determined
<1>3. CASE single = None
  <2>1. /\ received # {} /\ meta.count \in Nat
        /\ DOMAIN decoded \subseteq Fragments
        /\ \A u \in OwnUris : u.kind = "MultiPart" /\ u.body.count = meta.count
        /\ {Range(v) : v \in received} \subseteq {Range(Indexes(w.body)) : w \in OwnUris}
        /\ phase = "idle" /\ IInv
    BY <1>3, OwnSets
  <2>2. Complete /\ Representable /\ Joinable
    BY <1>1, <1>3, <2>1, CompleteJoinable DEF SessionComplete
  <2>3. Intact
    BY <1>1, <2>2 DEF TruePayloads, TrueFragments, Intact, Joinable
  <2>4. Readable
    BY <1>1, <2>2, <2>3 DEF Readable, Message
  <2>5. ASSUME NEW u \in OwnUris, NEW known \in SUBSET (0 .. u.body.count - 1),
               Peel!PeelClosed({Range(Indexes(w.body)) : w \in OwnUris}, known)
        PROVE  known = 0 .. u.body.count - 1
    <3>1. known \in SUBSET Fragments /\ Fragments = 0 .. u.body.count - 1
      BY <2>1 DEF Fragments
    <3>2. Peel!PeelClosed({Range(v) : v \in received}, known)
      BY <2>1, <2>5 DEF Peel!PeelClosed
    <3>3. DOMAIN decoded \subseteq known
      BY <2>1, <3>1, <3>2 DEF IInv, OnlyPeeled
    <3> QED BY <2>2, <3>1, <3>3 DEF Joinable
  <2> QED BY <2>4, <2>5 DEF Determined
<1> QED BY <1>2, <1>3

LEMMA OwnIncomplete ==
  ASSUME DecodeInv, OwnInv, OwnText, NoMoreLines
  PROVE  ~Determined(OwnUris)
<1> SUFFICES ASSUME Determined(OwnUris) PROVE FALSE
  OBVIOUS
<1> DEFINE n == next - 1
<1>1. /\ input \in Inputs /\ at = "lines" /\ next > Len(input.lines) /\ next \in Nat \ {0}
      /\ call = None /\ ~SessionComplete /\ FromSender(n) /\ OwnTaken(n)
  BY DEF NoMoreLines, DecodeInv, DecodePlace, OwnInv
<1>2. Lines = 1 .. Len(input.lines) /\ Len(input.lines) \in Nat \ {0}
  BY <1>1, OwnLines DEF OwnText
<1>3. Len(input.lines) \in Lines /\ Lines \subseteq 1 .. n /\ Len(input.lines) \in 1 .. n
  BY <1>1, <1>2
<1> DEFINE k == Len(input.lines)
<1>4. k \in Lines /\ k \in Nat \ {0} /\ FromSender(k)
  BY <1>1, <1>2, <1>3 DEF FromSender
<1>5. single = None /\ ~Complete
  BY <1>1 DEF SessionComplete
<1> HIDE DEF k, n
<1>6. /\ received # {} /\ meta.count \in Nat
      /\ DOMAIN decoded \subseteq Fragments
      /\ \A u \in OwnUris : u.kind = "MultiPart" /\ u.body.count = meta.count
      /\ phase = "idle" /\ IInv /\ poisoned = Alive
  BY <1>1, <1>4, <1>5, OwnSets
<1>7. Peel!PeelClosed({Range(v) : v \in received}, DOMAIN decoded)
  BY <1>6, IInvPeelClosed DEF IInv, Control
<1>8. ASSUME NEW w \in OwnUris
      PROVE  Indexes(w.body) \in received
  <2>1. PICK i \in Lines : w = Heard(i)
    BY <1>1, OwnLines DEF OwnText
  <2> QED BY <1>1, <1>3, <1>6, <2>1 DEF OwnTaken
<1>9. Peel!PeelClosed({Range(Indexes(w.body)) : w \in OwnUris}, DOMAIN decoded)
  BY <1>7, <1>8 DEF Peel!PeelClosed
<1>10. DOMAIN decoded = 0 .. meta.count - 1
  <2>1. PICK u \in OwnUris : TRUE
    BY DEF OwnText
  <2>2. u.kind = "MultiPart" /\ u.body.count = meta.count
    BY <1>6
  <2>3. DOMAIN decoded \in SUBSET (0 .. u.body.count - 1)
    BY <1>6, <2>2 DEF Fragments
  <2> QED BY <1>9, <2>2, <2>3 DEF Determined
<1>11. meta.count # 0 /\ meta.mlen # 0
  BY <1>6 DEF IInv, Pinned
<1>12. Cardinality(0 .. meta.count - 1) = meta.count
  <2>1. 0 \in Int /\ meta.count - 1 \in Int /\ ~(0 > meta.count - 1)
        /\ meta.count - 1 - 0 + 1 = meta.count
    BY <1>6, <1>11
  <2> QED BY <2>1, FS_Interval
<1> QED BY <1>5, <1>10, <1>11, <1>12 DEF Complete

(* run stops with what the property says.                                  *)
LEMMA OwnStops ==
  ASSUME OwnInv, OwnText, NEW v, Stop(v),
         v \in {"Io", "NotUtf8"} \/ v = IF Determined(OwnUris) THEN "Written" ELSE "Incomplete"
  PROVE  OwnInv'
<1>1. input' = input /\ UNCHANGED urVars /\ at' = "done" /\ ending' = v
  BY DEF Stop
<1>2. UNCHANGED <<received, poisoned, urPoisoned>> /\ (TruePayloads => TruePayloads')
  BY <1>1 DEF urVars, ur, vars, session, TruePayloads, TrueFragments
<1>3. /\ OwnVectors' = OwnVectors /\ OwnUris' = OwnUris
      /\ Determined(OwnUris)' = Determined(OwnUris)
  BY <1>1, OwnSame
<1>4. OwnLinesDecide'
  BY <1>1, <1>3 DEF OwnLinesDecide
<1>5. v # "None"
  OBVIOUS
<1> QED BY <1>1, <1>2, <1>3, <1>4, <1>5 DEF OwnInv

LEMMA OwnNext ==
  DecodeInv /\ DecodeInv' /\ OwnInv /\ RedeliveryInv' /\ [DecodeNext]_decodeVars => OwnInv'
<1> SUFFICES ASSUME DecodeInv, DecodeInv', OwnInv, RedeliveryInv', [DecodeNext]_decodeVars
             PROVE  OwnInv'
  OBVIOUS
<1>1. input' = input
  BY DEF DecodeNext, ReadText, SetType, ReceiveLine, InReceive, Refused, NextLine, TakeMessage,
     NoMoreLines, WriteBytes, Exit, Stop, Goto, decode, decodeVars
<1>2. /\ OwnVectors' = OwnVectors /\ OwnText' = OwnText /\ OwnUris' = OwnUris
      /\ \A i : Heard(i)' = Heard(i)
      /\ Determined(OwnUris)' = Determined(OwnUris)
  BY <1>1, OwnSame
<1>3. CASE ~OwnText
  BY <1>2, <1>3 DEF OwnInv
<1>4. CASE OwnText
  <2>1. /\ input \in Inputs /\ next \in Nat \ {0} /\ DecodePlace /\ UrIInv /\ None \notin Types
        /\ poisoned = Alive /\ urPoisoned = Alive /\ TruePayloads /\ received \subseteq OwnVectors
    BY <1>4, UrisAssumption DEF OwnInv, DecodeInv, DecodePlace
  <2>2. Lines = 1 .. Len(input.lines) /\ Len(input.lines) \in Nat \ {0}
    BY <1>4, <2>1, OwnLines DEF OwnText
  <2>3. ASSUME UNCHANGED <<vars, urPoisoned>>
        PROVE  /\ UNCHANGED <<received, poisoned>> /\ TruePayloads'
               /\ \A n : OwnTaken(n)' = OwnTaken(n)
    BY <1>2, <2>1, <2>3 DEF vars, session, TruePayloads, TrueFragments, OwnTaken
  <2>4. ASSUME ending' = ending, ending = "None"
        PROVE  OwnLinesDecide'
    BY <2>4 DEF OwnLinesDecide
  <2>5. CASE ReadText
    <3>1. input.lines # <<>>
      BY <2>2
    <3>2. CASE Goto("type") /\ UNCHANGED urVars /\ at = "read"
      <4>1. UNCHANGED <<vars, urPoisoned, ending>> /\ at' = "type" /\ ending = "None"
        BY <1>4, <3>2 DEF Goto, OwnInv, urVars, ur
      <4> QED BY <1>2, <1>4, <2>1, <2>3, <2>4, <4>1 DEF OwnInv
    <3> QED BY <1>4, <2>5, <3>1, <3>2, OwnStops DEF ReadText
  <2>6. CASE SetType
    <3>1. Fresh /\ at = "type" /\ ending = "None"
      BY <1>4, <2>1, <2>6 DEF SetType, DecodePlace, OwnInv
    <3>2. ASSUME Goto("lines"), UNCHANGED <<vars, urPoisoned>>
          PROVE  OwnInv'
      <4>1. OwnTaken(next - 1) /\ received = {} /\ UNCHANGED next /\ at' = "lines"
        BY <3>1, <3>2 DEF Fresh, OwnTaken, Goto
      <4> QED BY <1>2, <1>4, <2>1, <2>3, <2>4, <3>1, <3>2, <4>1 DEF Goto, OwnInv
    <3>3. input.type = None \/ IsType(input.type)
      <4>1. PICK u \in OwnUris : input.type \in {None, u.type}
        BY <1>4 DEF OwnText
      <4>2. PICK i \in Lines : u = Heard(i)
        BY <1>4, <2>1, OwnLines DEF OwnText
      <4>3. u.type \in Types
        BY <1>4, <2>1, <4>2, OwnLine
      <4> QED BY <4>1, <4>3 DEF IsType
    <3> QED BY <2>6, <3>2, <3>3 DEF SetType, WithExpectedType, urVars, ur
  <2>7. CASE Refused
    BY <1>4, <2>7 DEF Refused, Received, OwnInv
  <2>8. CASE NextLine
    <3>1. /\ at = "receive" /\ at' = "lines" /\ next' = next + 1 /\ UNCHANGED urVars
          /\ UNCHANGED ending /\ ending = "None" /\ OwnTaken(next)
      BY <1>4, <2>8 DEF NextLine, Received, OwnInv
    <3>2. next' - 1 = next /\ next' # 1
      BY <2>1, <3>1
    <3>3. UNCHANGED <<vars, urPoisoned>>
      BY <3>1 DEF urVars, ur
    <3>4. (OwnTaken(next - 1))'
      BY <1>2, <2>3, <3>1, <3>2, <3>3 DEF OwnTaken
    <3> QED BY <1>2, <1>4, <2>1, <2>3, <2>4, <3>1, <3>2, <3>3, <3>4 DEF OwnInv
  <2>9. CASE TakeMessage
    <3>1. /\ at = "receive" /\ call = None /\ answer = "Ok" /\ SessionComplete /\ ending = "None"
          /\ FromSender(next) /\ next \in Lines
      BY <1>4, <2>1, <2>2, <2>9
      DEF TakeMessage, Received, OwnInv, DecodePlace, LineAnswered
    <3>2. Readable /\ Determined(OwnUris)
      BY <1>4, <3>1, OwnComplete
    <3>3. Goto("write") /\ UNCHANGED urVars
      BY <2>9, <3>2 DEF TakeMessage
    <3>4. UNCHANGED <<vars, urPoisoned>>
      BY <3>3 DEF urVars, ur
    <3> QED BY <1>2, <1>4, <2>1, <2>3, <2>4, <3>1, <3>2, <3>3, <3>4 DEF Goto, OwnInv
  <2>10. CASE NoMoreLines
    <3>1. ~Determined(OwnUris)
      BY <1>4, <2>10, OwnIncomplete
    <3> QED BY <1>4, <2>10, <3>1, OwnStops DEF NoMoreLines
  <2>11. CASE WriteBytes
    <3>1. Determined(OwnUris)
      BY <1>4, <2>11 DEF WriteBytes, OwnInv
    <3>2. CASE at' = "done" /\ ending' = "Written" /\ UNCHANGED urVars
      <4>1. UNCHANGED <<vars, urPoisoned>>
        BY <3>2 DEF urVars, ur
      <4>2. OwnLinesDecide'
        BY <1>2, <3>1, <3>2 DEF OwnLinesDecide
      <4> QED BY <1>2, <1>4, <2>1, <2>3, <3>2, <4>1, <4>2 DEF OwnInv
    <3> QED BY <1>4, <2>11, <3>2, OwnStops DEF WriteBytes
  <2>12. CASE Exit \/ UNCHANGED decodeVars
    <3>1. UNCHANGED <<urVars, input, at, next, ending, output>>
      BY <2>12 DEF Exit, decodeVars, decode
    <3>2. UNCHANGED <<vars, urPoisoned, call, answer, phase, outcome>>
      BY <3>1 DEF urVars, ur, vars
    <3>3. OwnLinesDecide => OwnLinesDecide'
      BY <1>2, <3>1 DEF OwnLinesDecide
    <3>4. /\ OwnTaken(next) => OwnTaken(next)'
          /\ OwnTaken(next - 1) => (OwnTaken(next - 1))'
      BY <1>2, <3>1, <3>2 DEF OwnTaken, vars, session
    <3> QED BY <1>2, <1>4, <2>1, <2>3, <3>1, <3>2, <3>3, <3>4 DEF OwnInv
  <2> QED BY <1>4, <2>5, <2>6, <2>7, <2>8, <2>9, <2>10, <2>11, <2>12, OwnReceiveLine, OwnInReceive
      DEF DecodeNext
<1> QED BY <1>3, <1>4

LEMMA OwnInit == DecodeInit => OwnInv /\ RedeliveryInv
<1> SUFFICES ASSUME DecodeInit PROVE OwnInv /\ RedeliveryInv
  OBVIOUS
<1>1. RedeliveryInv
  BY InitRedelivery DEF DecodeInit, UrInit
<1>2. OwnInv
  BY DEF DecodeInit, UrInit, Init, NoMap, OwnInv, TruePayloads, TrueFragments, OwnLinesDecide
<1> QED BY <1>1, <1>2

LEMMA DecodeRedelivery ==
  DecodeInv /\ RedeliveryInv /\ [DecodeNext]_decodeVars => RedeliveryInv'
<1> SUFFICES ASSUME DecodeInv, RedeliveryInv, [DecodeNext]_decodeVars PROVE RedeliveryInv'
  OBVIOUS
<1>1. [UrNext]_urVars
  BY DecodeSide DEF DecodeInv
<1>2. [Next]_vars
  BY <1>1, SessionStep DEF urVars
<1> QED BY <1>2, NextRedelivery DEF DecodeInv, UrIInv

(***************************************************************************)
(* Whatever the encoder, the lines of it that a text has, their order and   *)
(* case and how often they come, and whatever the limits that have room for *)
(* them, no line is refused, and the text is decoded exactly if its lines   *)
(* determine the message.                                                  *)
(***************************************************************************)
THEOREM OwnLinesDecideHolds == DecodeSpec => []OwnLinesDecide
<1>1. OwnInv => OwnLinesDecide
  <2>1. ~OwnText => OwnLinesDecide
    BY DEF OwnText, OwnLinesDecide
  <2> QED BY <2>1 DEF OwnInv
<1>2. DecodeInv /\ DecodeInv' /\ OwnInv /\ RedeliveryInv' /\ [DecodeNext]_decodeVars => OwnInv'
  BY OwnNext
<1> QED BY <1>1, <1>2, DecodeInitInv, DecodeNextInv, OwnInit, DecodeRedelivery, PTL DEF DecodeSpec
=============================================================================
