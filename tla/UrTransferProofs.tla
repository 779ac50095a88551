-------------------------- MODULE UrTransferProofs --------------------------
(***************************************************************************)
(* A message on its way, for all messages, types, limits and whatever else  *)
(* comes into view.  Every step of a transfer is a step of the sender or    *)
(* one of the receiver, so the invariants of both carry over as they are;   *)
(* what is added relates the session to what is on show.                   *)
(***************************************************************************)
EXTENDS UrTransfer, UrDecoderProofs, FountainEncoderProofs

(* The sender: what is sent is what its encoder can send, in one form.     *)
SentBy ==
  IF IsSinglePart
  THEN /\ emitted = {}
       /\ sent = IF singleEmitted = 1
                 THEN {SingleUri(encType, [len |-> enc.mlen, id |-> enc.crc])}
                 ELSE {}
  ELSE sent = {MultiUri(encType, p) : p \in emitted}

SenderInv ==
  /\ EncIInv
  /\ enc = NoEncoder => sent = {} /\ singleEmitted = 0
  /\ enc # NoEncoder =>
       /\ \E e \in Encoders : enc = [e EXCEPT !.current = enc.current]
       /\ encType \in Types
  /\ SentBy

LEMMA NothingEmitted == EncIInv /\ enc = NoEncoder => emitted = {}
BY DEF EncIInv, EachOnce, NoEncoder

LEMMA SenderInit == UrEncInit => SenderInv
<1> SUFFICES ASSUME UrEncInit PROVE SenderInv
  OBVIOUS
<1>1. EncIInv
  BY EncInitIInv DEF UrEncInit
<1> QED BY <1>1 DEF UrEncInit, EncInit, SenderInv, SentBy, IsSinglePart, NoEncoder

LEMMA UrNewSender ==
  ASSUME SenderInv, NEW m \in Messages, NEW max \in FragmentMaxima, NEW t \in Types,
         UrNew(m, max, t)
  PROVE  SenderInv'
<1>1. EncIInv' /\ enc = NoEncoder /\ emitted = {} /\ emitted' = {} /\ sent' = {}
      /\ singleEmitted' = 0
  BY NewIInv, NothingEmitted DEF SenderInv, UrNew, New
<1>2. SentBy'
  BY <1>1 DEF SentBy
<1>3. enc' # NoEncoder =>
        /\ enc' \in Encoders /\ encType' \in Types
        /\ enc' = [enc' EXCEPT !.current = enc'.current]
  <2> SUFFICES ASSUME enc' # NoEncoder
               PROVE  /\ enc' \in Encoders /\ encType' \in Types
                      /\ enc' = [enc' EXCEPT !.current = enc'.current]
    OBVIOUS
  <2>1. NewResult(m, max) = "Ok" /\ enc' = Constructed(m, max) /\ encType' = t
    BY DEF UrNew, New
  <2>2. <<m, max>> \in {q \in Messages \X FragmentMaxima : NewResult(q[1], q[2]) = "Ok"}
    BY <2>1
  <2>3. enc' \in Encoders
    BY <2>1, <2>2 DEF Encoders
  <2> QED BY <2>1, <2>3 DEF Constructed
<1> QED BY <1>1, <1>2, <1>3 DEF SenderInv

LEMMA UrNextPartSender == ASSUME SenderInv, UrNextPart PROVE SenderInv'
<1>1. CASE EmitSingle
  <2>1. UNCHANGED <<encVars, encType>> /\ IsSinglePart /\ enc # NoEncoder
    BY <1>1 DEF EmitSingle
  <2>2. EncIInv'
    BY <2>1, EncNextIInv DEF SenderInv
  <2>3. SentBy'
    BY <1>1, <2>1 DEF EmitSingle, SenderInv, SentBy, IsSinglePart, encVars
  <2> QED BY <2>1, <2>2, <2>3 DEF SenderInv, encVars
<1>2. CASE EmitMulti
  <2>1. /\ enc # NoEncoder /\ enc.count # 1
        /\ emitted' = emitted \cup {PartOf(enc, enc.current + 1)}
        /\ sent' = sent \cup {MultiUri(encType, PartOf(enc, enc.current + 1))}
        /\ encType' = encType
        /\ enc' = [enc EXCEPT !.current = enc.current + 1]
    BY <1>2 DEF EmitMulti, Multi, Emit, IsSinglePart
  <2>2. EncIInv'
    BY <1>2, EmitIInv DEF EmitMulti, SenderInv
  <2>3. enc'.count = enc.count /\ enc' = [enc EXCEPT !.current = enc'.current]
    BY <2>1 DEF SenderInv, EncIInv, EncTypeOK
  <2>4. enc' # NoEncoder
    BY <2>1, <2>2, NothingEmitted DEF EncIInv, EachOnce, NoEncoder
  <2>5. SentBy'
    BY <2>1, <2>3 DEF SenderInv, SentBy, IsSinglePart
  <2>6. \E e \in Encoders : enc' = [e EXCEPT !.current = enc'.current]
    <3>1. PICK e \in Encoders : enc = [e EXCEPT !.current = enc.current]
      BY <2>1 DEF SenderInv
    <3>2. enc' = [e EXCEPT !.current = enc'.current]
      BY <3>1, <2>3
    <3> QED BY <3>2
  <2> QED BY <2>1, <2>2, <2>4, <2>5, <2>6 DEF SenderInv
<1>3. CASE RefuseMulti
  <2>1. UNCHANGED <<enc, emitted, encType, singleEmitted, sent>>
    BY <1>3 DEF RefuseMulti, RefuseSingle, RefuseSequence
  <2>2. EncIInv'
    BY <1>3, EncNextIInv DEF SenderInv, RefuseMulti, EncNext, NextPart
  <2> QED BY <2>1, <2>2 DEF SenderInv, SentBy, IsSinglePart
<1> QED BY <1>1, <1>2, <1>3 DEF UrNextPart

LEMMA UrEncNextSender == SenderInv /\ [UrEncNext]_sender => SenderInv'
<1> SUFFICES ASSUME SenderInv, [UrEncNext]_sender PROVE SenderInv'
  OBVIOUS
<1>1. CASE UNCHANGED sender
  <2>1. EncIInv'
    BY <1>1, EncNextIInv DEF SenderInv, sender
  <2> QED BY <1>1, <2>1 DEF sender, encVars, SenderInv, SentBy, IsSinglePart
<1> QED BY <1>1, UrNewSender, UrNextPartSender DEF UrEncNext

LEMMA SenderOneForm == SenderInv => OneFormSent
BY DEF SenderInv, SentBy, OneFormSent, SingleUri

(***************************************************************************)
(* Whatever the message, the maximum and the type: a stream is never sent   *)
(* in both forms, and a single part never reaches the fountain encoder.     *)
(***************************************************************************)
THEOREM OneFormSentHolds == UrEncSpec => []OneFormSent
BY SenderInit, UrEncNextSender, SenderOneForm, PTL DEF UrEncSpec

(* What is on show is what its encoder can send.                           *)
LEMMA SentSendable == SenderInv => sent \subseteq Sendable
<1> SUFFICES ASSUME SenderInv, NEW u \in sent PROVE u \in Sendable
  OBVIOUS
<1>1. enc # NoEncoder
  BY DEF SenderInv
<1>2. PICK e \in Encoders : enc = [e EXCEPT !.current = enc.current]
  BY <1>1 DEF SenderInv
<1>3. /\ e = [count |-> e.count, mlen |-> e.mlen, crc |-> e.crc, len |-> e.len,
              current |-> e.current]
  BY <1>2 DEF Encoders, Constructed
<1>4. enc.count = e.count /\ enc.mlen = e.mlen /\ enc.crc = e.crc /\ enc.len = e.len
  BY <1>2, <1>3
<1>5. encType \in Types
  BY <1>1 DEF SenderInv
<1>6. u \in UrisOf(e, encType)
  <2>1. CASE IsSinglePart
    BY <2>1, <1>4 DEF SenderInv, SentBy, UrisOf, IsSinglePart
  <2>2. CASE ~IsSinglePart
    <3>1. PICK p \in emitted : u = MultiUri(encType, p)
      BY <2>2 DEF SenderInv, SentBy
    <3>2. p.seq \in 1 .. enc.current /\ p = PartOf(enc, p.seq)
      BY EncParts DEF SenderInv
    <3>3. p.seq \in 1 .. MaxU32
      BY <3>2, EncoderAssumption DEF SenderInv, EncIInv, EncTypeOK
    <3>4. p = PartOf(e, p.seq)
      BY <3>2, <1>4 DEF PartOf
    <3>5. u = MultiUri(encType, PartOf(e, p.seq))
      BY <3>1, <3>4
    <3> QED BY <2>2, <1>4, <3>3, <3>5 DEF UrisOf, IsSinglePart
  <2> QED BY <2>1, <2>2
<1> QED BY <1>5, <1>6 DEF Sendable
-----------------------------------------------------------------------------
(* The steps of a transfer.                                                *)

LEMMA TransferSteps ==
  ASSUME SenderInv, TransferNext
  PROVE  \/ UrEncNext /\ UNCHANGED urVars
         \/ UrNext /\ UNCHANGED sender
<1>1. CASE Construct \/ Show
  BY <1>1 DEF Construct, Show, UrEncNext
<1>2. ASSUME NEW u \in sent, Scan(u) \/ Misread(u)
      PROVE  UrNext /\ UNCHANGED sender
  <2>1. u \in Uris /\ [u EXCEPT !.body = None] \in Uris
    BY SentSendable, TransferAssumption
  <2> QED BY <1>2, <2>1 DEF Scan, Misread, UrNext
<1>3. ASSUME NEW u \in Foreign, ScanForeign(u)
      PROVE  UrNext /\ UNCHANGED sender
  BY <1>3, TransferAssumption DEF ScanForeign, UrNext
<1>4. CASE Proceed \/ AnswerDead
  BY <1>4 DEF Proceed, AnswerDead, UrNext
<1> QED BY <1>1, <1>2, <1>3, <1>4 DEF TransferNext

LEMMA TransferSides ==
  SenderInv /\ [TransferNext]_tvars => [UrNext]_urVars /\ [UrEncNext]_sender
BY TransferSteps DEF tvars

(* What enters a session is on show: a part that the fountain decoder is    *)
(* called with, or the payload of a single part.                           *)
Enters(u) ==
  \/ u.kind = "SinglePart" /\ TakeSingle(u)
  \/ call' = u /\ CallFountain(u)

LEMMA EntersShown ==
  ASSUME SenderInv, [TransferNext]_tvars,
         single' # single \/ (call' # call /\ call' # None)
  PROVE  \E u \in Shown : u.body # None /\ Enters(u)
<1>1. ASSUME NEW u, UrReceive(u)
      PROVE  u.body # None /\ Enters(u)
  BY <1>1 DEF UrReceive, PoisonUri, RejectUri, RejectType, ReceiveSingle, ReceiveFountain,
     UrAnswer, UrPoison, RejectSingle, IgnoreSingle, GarbledSingle, PoisonSingle, TakeSingle,
     RejectMulti, GarbledPart, PoisonPartData, RejectPart, PoisonPartCount, RejectIndices,
     CallFountain, Codec, CodecData, FirstSingle, Typed, Enters
<1>2. ~Conclude /\ ~AnswerUrPoisoned /\ ~Construct /\ ~Show
  BY DEF Conclude, FountainStep, Pin, Escalate, PassOn, AnswerUrPoisoned, UrAnswer, ur,
     Construct, Show, urVars
<1>3. CASE \E u \in sent : Scan(u)
  BY <1>1, <1>3 DEF Scan, Shown
<1>4. ASSUME NEW u \in sent, Misread(u)
      PROVE  FALSE
  <2>1. "body" \in DOMAIN u
    BY SentSendable DEF Sendable, UrisOf, SingleUri, MultiUri
  <2>2. [u EXCEPT !.body = None].body = None
    BY <2>1
  <2> QED BY <1>1, <1>4, <2>2 DEF Misread
<1>5. CASE \E u \in Foreign : ScanForeign(u)
  BY <1>1, <1>5 DEF ScanForeign, Shown, Foreigners
<1>6. TransferNext
  BY DEF tvars, urVars, ur
<1> QED BY <1>2, <1>3, <1>4, <1>5, <1>6 DEF TransferNext, Proceed, AnswerDead

LEMMA ShownStays == SenderInv /\ [TransferNext]_tvars => Shown \subseteq Shown'
<1> SUFFICES ASSUME SenderInv, [TransferNext]_tvars PROVE Shown \subseteq Shown'
  OBVIOUS
<1>1. [UrEncNext]_sender
  BY TransferSides
<1>2. sent \subseteq sent'
  BY <1>1 DEF UrEncNext, UrNew, UrNextPart, EmitSingle, EmitMulti, RefuseMulti, sender
<1> QED BY <1>2 DEF Shown, Foreigners
-----------------------------------------------------------------------------
(* Where the content of a session comes from: what is in it was on show,    *)
(* under the type of the session, or comes with the call that goes on.      *)
FromShown ==
  /\ single # None =>
       \E u \in Shown : u.kind = "SinglePart" /\ u.type = seen /\ u.body = single
  /\ call # None => call \in Shown /\ call.body # None
  /\ call # None /\ received # {} /\ seen = None => meta = MetaOf(call.body)
  /\ received # {} /\ seen # None =>
       \E u \in Shown : u.kind = "MultiPart" /\ u.type = seen /\ meta = MetaOf(u.body)

LEMMA CallFromShown ==
  ASSUME UrIInv, SenderInv, FromShown, [TransferNext]_tvars,
         NEW u \in Shown, call' = u, CallFountain(u), u.body # None
  PROVE  FromShown'
<1>1. /\ UNCHANGED <<expected, seen, single, urPoisoned>> /\ single = None
      /\ call = None /\ urPoisoned = Alive /\ Shown \subseteq Shown'
  BY ShownStays DEF CallFountain, Codec, CodecData, FirstForm, Typed, Parsed, Open
<1>2. AnswerPoisoned \/ AnswerComplete \/ Receive(u.body)
  BY DEF CallFountain
<1>3. seen # None <=> received # {}
  BY <1>1 DEF UrIInv, PinnedWithContent
<1>4. UNCHANGED <<received, meta>> \/ meta' = MetaOf(u.body)
  BY <1>2 DEF AnswerPoisoned, AnswerComplete, Answer, Receive, RejectEmpty, RejectSequence,
     RejectInconsistent, PoisonData, PoisonCount, PoisonLength, PoisonReceived,
     IgnoreDuplicate, Accept, session, Unaltered
<1>5. received # {} => received' # {} /\ meta' = meta
  BY <1>2, <1>4 DEF AnswerPoisoned, AnswerComplete, Answer, Receive, RejectEmpty,
     RejectSequence, RejectInconsistent, PoisonData, PoisonCount, PoisonLength, PoisonReceived,
     IgnoreDuplicate, Accept, session, Unaltered, Admissible, Validate, First
<1> QED BY <1>1, <1>3, <1>4, <1>5 DEF FromShown

LEMMA ConcludeFromShown ==
  ASSUME UrIInv, SenderInv, FromShown, [TransferNext]_tvars, Conclude
  PROVE  FromShown'
<1>1. Shown \subseteq Shown'
  BY ShownStays
<1>2. CASE FountainStep
  <2>1. UNCHANGED ur /\ received' = received
    BY <1>2, RunShape DEF FountainStep
  <2>2. meta' = meta
    BY <1>2 DEF FountainStep, Ingest, Drain, IngestKnown, IngestNew, StripKnown, InternalError,
       PopSimple, Return, Reduce, session
  <2> QED BY <1>1, <2>1, <2>2 DEF FromShown, ur
<1>3. CASE Pin \/ Escalate \/ PassOn
  <2>1. /\ UNCHANGED <<received, meta, single>> /\ call # None /\ call' = None
        /\ single = None
        /\ seen' = seen \/ (seen = None /\ seen' = call.type /\ received # {})
    BY <1>3 DEF Pin, Escalate, PassOn, Returned, vars, session, UrIInv, InFlight
  <2>2. call.kind = "MultiPart"
    BY <2>1 DEF UrIInv, UrTypeOK
  <2> QED BY <1>1, <2>1, <2>2 DEF FromShown
<1> QED BY <1>2, <1>3 DEF Conclude

LEMMA TransferNextFromShown ==
  UrIInv /\ SenderInv /\ FromShown /\ [TransferNext]_tvars => FromShown'
<1> SUFFICES ASSUME UrIInv, SenderInv, FromShown, [TransferNext]_tvars PROVE FromShown'
  OBVIOUS
<1>1. Shown \subseteq Shown'
  BY ShownStays
<1>2. CASE single' # single \/ (call' # call /\ call' # None)
  <2>1. PICK u \in Shown : u.body # None /\ Enters(u)
    BY <1>2, EntersShown
  <2>2. CASE u.kind = "SinglePart" /\ TakeSingle(u)
    <3>1. /\ seen' = u.type /\ single' = u.body /\ call' = None /\ received' = {}
      BY <2>2 DEF TakeSingle, FirstSingle, Typed, Parsed, Open, FountainStarted, vars, session,
         UrIInv, IInv, Pinned
    <3> QED BY <1>1, <2>1, <2>2, <3>1 DEF FromShown
  <2> QED BY <2>1, <2>2, CallFromShown DEF Enters
<1>3. CASE single' = single /\ (call' = call \/ call' = None)
  <2>1. CASE UNCHANGED <<received, meta, seen, call, single>>
    BY <1>1, <2>1 DEF FromShown
  <2>2. [UrNext]_urVars
    BY TransferSides
  <2>3. CASE Conclude
    BY <2>3, ConcludeFromShown
  <2>4. ASSUME NEW t, WithExpectedType(t)
        PROVE  UNCHANGED <<received, meta, seen, call, single>>
    BY <2>4 DEF WithExpectedType, vars, session
  <2>5. CASE AnswerUrPoisoned \/ UNCHANGED urVars
    BY <2>1, <2>5 DEF AnswerUrPoisoned, UrAnswer, vars, session, urVars, ur
  <2>6. ASSUME NEW u \in Uris, UrReceive(u)
        PROVE  UNCHANGED <<received, meta, seen, call, single>>
    <3>1. ~(u # None /\ call = None) => ~CallFountain(u)
      BY UrisAssumption DEF CallFountain, Codec, CodecData, FirstForm, Typed, Parsed, Open
    <3>2. ~CallFountain(u)
      BY <1>3, <3>1 DEF CallFountain
    <3>3. ~TakeSingle(u)
      BY <1>3 DEF TakeSingle, FirstSingle
    <3> QED BY <2>6, <3>2, <3>3 DEF UrReceive, PoisonUri, RejectUri, RejectType, ReceiveSingle,
        ReceiveFountain, UrAnswer, UrPoison, RejectSingle, IgnoreSingle, GarbledSingle,
        PoisonSingle, RejectMulti, GarbledPart, PoisonPartData, RejectPart, PoisonPartCount,
        RejectIndices, vars, session
  <2> QED BY <2>1, <2>2, <2>3, <2>4, <2>5, <2>6 DEF UrNext
<1> QED BY <1>2, <1>3
-----------------------------------------------------------------------------
(* What is read is what was sent.                                          *)

TransferInv ==
  /\ UrIInv
  /\ BoundInv
  /\ SenderInv
  /\ FromShown

LEMMA TransferInitInv == TransferInit => TransferInv
<1> SUFFICES ASSUME TransferInit PROVE TransferInv
  OBVIOUS
<1>1. UrIInv /\ BoundInv /\ SenderInv
  BY UrInitIInv, InitBound, SenderInit DEF TransferInit, UrInit
<1>2. FromShown
  BY DEF TransferInit, UrInit, Init, FromShown
<1> QED BY <1>1, <1>2 DEF TransferInv

LEMMA TransferNextInv == TransferInv /\ [TransferNext]_tvars => TransferInv'
BY TransferSides, UrNextIInv, UrNextBound, UrEncNextSender, TransferNextFromShown DEF TransferInv

THEOREM TransferInvariance == TransferSpec => []TransferInv
BY TransferInitInv, TransferNextInv, PTL DEF TransferSpec

LEMMA TransferFaithful == TransferInv => Faithful
<1> SUFFICES ASSUME TransferInv, call = None, Readable PROVE Faithful
  BY DEF Faithful
<1>1. urPoisoned = Alive /\ IInv
  BY DEF Readable, TransferInv, UrIInv
<1>2. CASE single # None
  BY <1>2 DEF TransferInv, FromShown, Faithful, Content
<1>3. CASE single = None
  <2>1. Yields
    BY <1>3 DEF Readable, Yields
  <2>2. received # {} /\ TrueMessage
    BY <1>1, <2>1, NothingYields, YieldsExactly
  <2>3. seen # None
    BY <1>1, <2>2 DEF TransferInv, UrIInv, PinnedWithContent
  <2>4. PICK u \in Shown : u.kind = "MultiPart" /\ u.type = seen /\ meta = MetaOf(u.body)
    BY <2>2, <2>3 DEF TransferInv, FromShown
  <2>5. \A i \in Fragments : decoded[i] = [len |-> meta.len, sum |-> {<<meta, i>>}]
    BY <2>2 DEF TrueMessage, Mixture
  <2>6. Content = Source(meta)
    BY <1>3, <2>5 DEF Content, Source, Fragments
  <2> QED BY <1>3, <2>4, <2>6 DEF Faithful
<1> QED BY <1>2, <1>3

(***************************************************************************)
(* Whatever is sent, whatever other senders show and in whatever order it   *)
(* is scanned: what a session yields between calls is one sender's message, *)
(* whole, under that sender's type.                                        *)
(***************************************************************************)
THEOREM FaithfulHolds == TransferSpec => []Faithful
BY TransferFaithful, TransferInvariance, PTL
-----------------------------------------------------------------------------
(* Nobody else in view.                                                    *)

HeaderOf(e) == [count |-> e.count, mlen |-> e.mlen, crc |-> e.crc, len |-> e.len]

(* What the receiver has to check of a URI that is sent.                   *)
LEMMA SentFits ==
  ASSUME SenderInv, Alone, NEW u \in sent
  PROVE  /\ u.len <= MaxUriLen /\ u.parsed /\ u.type = encType /\ u.body # None
         /\ enc # NoEncoder /\ u \in Uris /\ encType \in Types
         /\ IsSinglePart => u.kind = "SinglePart" /\ u.body.len <= MaxMessageLength
         /\ ~IsSinglePart =>
              /\ u.kind = "MultiPart" /\ u.body \in emitted /\ u.body \in Parts
              /\ LengthFits(u.body) /\ Geometry(u.body) /\ MetaOf(u.body) = HeaderOf(enc)
              /\ u.indices = <<u.body.seq, u.body.count>>
<1>1. u \in Uris /\ u.len <= MaxUriLen /\ u.body # None
  <2>1. u \in Sendable
    BY SentSendable
  <2>2. u \in Uris /\ u.body # None
    BY <2>1, TransferAssumption
  <2> QED BY <2>1, <2>2 DEF Alone
<1>2. enc # NoEncoder /\ encType \in Types
  BY DEF SenderInv
<1>3. PICK e \in Encoders : enc = [e EXCEPT !.current = enc.current]
  BY <1>2 DEF SenderInv
<1>4. e = [count |-> e.count, mlen |-> e.mlen, crc |-> e.crc, len |-> e.len,
           current |-> e.current]
  BY <1>3 DEF Encoders, Constructed
<1>5. enc.count = e.count /\ enc.mlen = e.mlen /\ enc.crc = e.crc /\ enc.len = e.len /\ Room(e)
  BY <1>3, <1>4 DEF Alone
<1>6. CASE IsSinglePart
  <2>1. u = SingleUri(encType, [len |-> enc.mlen, id |-> enc.crc])
    BY <1>6 DEF SenderInv, SentBy
  <2> QED BY <1>1, <1>2, <1>5, <1>6, <2>1 DEF SingleUri, Room
<1>7. CASE ~IsSinglePart
  <2>1. PICK p \in emitted : u = MultiUri(encType, p)
    BY <1>7 DEF SenderInv, SentBy
  <2>2. u.body = p /\ u.kind = "MultiPart" /\ u.parsed /\ u.type = encType
        /\ u.indices = <<u.body.seq, u.body.count>>
    BY <2>1 DEF MultiUri
  <2>3. u.body \in Parts
    BY <1>1, <2>2, UrisAssumption
  <2>4. WellFormed(p) /\ Geometry(p)
    BY EncPartsFit DEF SenderInv, PartsFitDecoder
  <2>5. p.count = enc.count /\ p.mlen = enc.mlen /\ p.crc = enc.crc /\ p.data.len = enc.len
    BY EncParts DEF SenderInv
  <2>6. LengthFits(p) /\ MetaOf(p) = HeaderOf(enc)
    BY <1>5, <1>7, <2>4, <2>5 DEF LengthFits, CountFits, DataFits, Room, IsSinglePart, MetaOf,
       HeaderOf
  <2> QED BY <1>1, <1>2, <1>7, <2>2, <2>3, <2>4, <2>6
<1> QED BY <1>6, <1>7

AloneInv ==
  /\ RedeliveryInv
  /\ expected = None
  /\ poisoned = Alive
  /\ AllTaken
  /\ call # None /\ phase = "idle" => outcome \in {"Accepted", "Ignored"}

(* Between calls, what a session has is of the form, the type and the       *)
(* message that are on show.                                               *)
LEMMA AloneContent ==
  ASSUME TransferInv, AloneInv, Alone
  PROVE  /\ call # None => call \in sent /\ call.body # None
         /\ single # None => IsSinglePart /\ enc # NoEncoder
         /\ received # {} => ~IsSinglePart /\ enc # NoEncoder /\ meta = HeaderOf(enc)
         /\ seen # None => seen = encType
         /\ FountainStarted => received # {}
<1>1. Shown = sent
  BY DEF Shown, Foreigners, Alone
<1>2. urPoisoned = Alive /\ poisoned = Alive /\ SenderInv /\ UrIInv /\ FromShown
  BY DEF TransferInv, AloneInv, AllTaken
<1>3. ASSUME NEW u \in sent
      PROVE  /\ u.type = encType /\ enc # NoEncoder
             /\ u.kind = "SinglePart" => IsSinglePart
             /\ u.kind = "MultiPart" => ~IsSinglePart /\ MetaOf(u.body) = HeaderOf(enc)
  BY <1>2, <1>3, SentFits
<1>4. call # None => call \in sent /\ call.body # None /\ call.kind = "MultiPart"
  BY <1>1, <1>2 DEF FromShown, UrIInv, UrTypeOK
<1>5. single # None => IsSinglePart /\ enc # NoEncoder /\ seen = encType
  BY <1>1, <1>2, <1>3 DEF FromShown
<1>6. received # {} => seen # None \/ call # None
  BY <1>2 DEF UrIInv, PinnedWithContent
<1>7. received # {} /\ seen # None =>
        ~IsSinglePart /\ enc # NoEncoder /\ meta = HeaderOf(enc) /\ seen = encType
  BY <1>1, <1>2, <1>3 DEF FromShown
<1>8. received # {} /\ seen = None => ~IsSinglePart /\ enc # NoEncoder /\ meta = HeaderOf(enc)
  BY <1>2, <1>3, <1>4, <1>6 DEF FromShown
<1>9. seen # None => single # None \/ received # {}
  BY <1>2 DEF UrIInv, PinnedWithContent, InFlight
<1>10. FountainStarted => received # {}
  BY <1>2 DEF FountainStarted, UrIInv, IInv, Pinned
<1> QED BY <1>4, <1>5, <1>7, <1>8, <1>9, <1>10

LEMMA SentMulti ==
  ASSUME TransferInv, AloneInv, Alone, NEW u \in sent, CallFountain(u), call' = u,
         BoundInv', IInv', RedeliveryInv'
  PROVE  /\ poisoned' = Alive /\ UNCHANGED <<expected, seen, single, urPoisoned, answer>>
         /\ phase' = "idle" => outcome' \in {"Accepted", "Ignored"}
<1> DEFINE p == u.body
<1>1. /\ Open /\ u.kind = "MultiPart" /\ u.body # None /\ single = None
      /\ UNCHANGED <<expected, seen, single, urPoisoned, answer>>
  BY DEF CallFountain, Codec, CodecData, FirstForm, Typed, Parsed
<1>2. poisoned = Alive /\ SenderInv /\ UrIInv
  BY DEF AloneInv, TransferInv
<1>3. p \in Parts /\ LengthFits(p) /\ Geometry(p) /\ MetaOf(p) = HeaderOf(enc)
  BY <1>1, <1>2, SentFits
<1>4. Admissible(p)
  BY <1>3, AloneContent DEF Admissible, Validate, LengthFits, CountFits, First
<1>5. WellFormed(p) /\ DataFits(p) /\ CountFits(p)
  BY <1>3 DEF LengthFits, CountFits, DataFits
<1>6. ~PoisonReceived(p)
  <2>1. ASSUME PoisonReceived(p) PROVE FALSE
    <3>1. poisoned' = "ReceivedParts" /\ meta' = MetaOf(p)
      BY <2>1 DEF PoisonReceived, Poison
    <3>2. Cardinality(VectorsOf(MetaOf(p))) > MaxReceivedParts
      BY <3>1 DEF RedeliveryInv, RedeliveryNeverPoisons
    <3>3. Cardinality(VectorsOf(MetaOf(p))) <= MaxReceivedParts
      BY <1>3 DEF Alone
    <3>4. Cardinality(VectorsOf(MetaOf(p))) \in Nat /\ MaxReceivedParts \in Nat
      BY VectorsOfFinite, FS_CardinalityType, LimitsAssumption
    <3> QED BY <3>2, <3>3, <3>4
  <2> QED BY <2>1
<1>7. AnswerComplete \/ IgnoreDuplicate(p) \/ Accept(p)
  <2>1. AnswerPoisoned \/ AnswerComplete \/ Receive(p)
    BY DEF CallFountain
  <2> QED BY <2>1, <1>2, <1>3, <1>4, <1>5, <1>6 DEF AnswerPoisoned, Receive, RejectEmpty, RejectSequence,
      WellFormed, RejectInconsistent, Admissible, PoisonData, PoisonCount, PoisonLength
<1> QED BY <1>1, <1>2, <1>7 DEF AnswerComplete, IgnoreDuplicate, Answer, Accept, session

(* A URI that is sent, or what it is misread as, is answered by Ok or by    *)
(* InvalidBody, or it is a part and goes to the fountain decoder.          *)
LEMMA SentTaken ==
  ASSUME TransferInv, AloneInv, Alone, NEW u \in sent, NEW v,
         v = u \/ v = [u EXCEPT !.body = None], UrReceive(v)
  PROVE  \/ UNCHANGED <<vars, expected, urPoisoned, call>> /\ answer' \in {"Ok", "InvalidBody"}
         \/ v = u /\ CallFountain(u)
<1>1. SenderInv /\ poisoned = Alive /\ expected = None /\ None \notin Types
  BY UrisAssumption DEF AloneInv, TransferInv
<1>2. /\ u.len <= MaxUriLen /\ u.parsed /\ u.type = encType /\ u.body # None
      /\ IsSinglePart => u.kind = "SinglePart" /\ u.body.len <= MaxMessageLength
      /\ ~IsSinglePart =>
           /\ u.kind = "MultiPart"
           /\ LengthFits(u.body)
           /\ u.indices = <<u.body.seq, u.body.count>>
  BY <1>1, SentFits
<1>3. /\ v.len = u.len /\ v.parsed /\ v.type = encType /\ v.kind = u.kind
      /\ v.body = u.body \/ v.body = None
      /\ v.body = None \/ v = u
  <2>1. v = u \/ \A f \in DOMAIN u : v[f] = IF f = "body" THEN None ELSE u[f]
    OBVIOUS
  <2>2. {"len", "parsed", "type", "kind", "body"} \subseteq DOMAIN u
    BY <1>1, SentSendable DEF Sendable, UrisOf, SingleUri, MultiUri
  <2> QED BY <1>2, <2>1, <2>2
<1>4. CheckType(v.type)
  BY <1>1, <1>3, AloneContent DEF CheckType
<1>5. ~PoisonUri(v) /\ ~RejectUri(v) /\ ~RejectType(v)
  <2>1. ~(v.len > MaxUriLen)
    <3>1. u \in Uris /\ u.len \in Nat /\ MaxUriLen \in Nat
      BY <1>1, SentFits, UrisAssumption
    <3> QED BY <1>2, <1>3, <3>1
  <2> QED BY <1>3, <1>4, <2>1 DEF PoisonUri, RejectUri, RejectType
<1>6. CASE IsSinglePart
  <2>1. ~FountainStarted /\ v.kind = "SinglePart"
    BY <1>2, <1>3, <1>6, AloneContent
  <2>2. ~ReceiveFountain(v)
    BY <2>1 DEF ReceiveFountain, RejectMulti, GarbledPart, PoisonPartData, RejectPart,
       PoisonPartCount, RejectIndices, CallFountain, Codec, CodecData, FirstForm, Typed
  <2>3. ~RejectSingle(v)
    BY <2>1 DEF RejectSingle
  <2>4. ~PoisonSingle(v)
    <3>1. SUFFICES ASSUME PoisonSingle(v) PROVE FALSE
      OBVIOUS
    <3>2. v = u /\ u.body.len > MaxMessageLength
      BY <1>3, <3>1 DEF PoisonSingle
    <3>3. u.body.len \in Nat /\ MaxMessageLength \in Nat
      BY <1>1, <1>2, <1>6, SentFits, UrisAssumption, LimitsAssumption
    <3> QED BY <1>2, <1>6, <3>2, <3>3
  <2> QED BY <1>5, <2>2, <2>3, <2>4 DEF UrReceive, ReceiveSingle, IgnoreSingle, GarbledSingle,
      TakeSingle, UrAnswer
<1>7. CASE ~IsSinglePart
  <2>1. single = None /\ v.kind = "MultiPart"
    BY <1>2, <1>3, <1>7, AloneContent
  <2>2. ~ReceiveSingle(v)
    BY <2>1 DEF ReceiveSingle, RejectSingle, IgnoreSingle, GarbledSingle, PoisonSingle,
       TakeSingle, FirstSingle, Typed
  <2>3. ~RejectMulti(v)
    BY <2>1 DEF RejectMulti
  <2>4. v.body # None => v = u /\ WellFormed(u.body) /\ u.indices = <<u.body.seq, u.body.count>>
                           /\ ~(u.body.data.len > MaxFragmentData)
                           /\ ~(u.body.count > MaxFragmentCount)
    <3>1. u.body \in Parts
      BY <1>1, <1>7, SentFits
    <3>2. /\ u.body.data.len \in Nat /\ u.body.count \in Nat
          /\ MaxFragmentData \in Nat /\ MaxFragmentCount \in Nat
      BY <3>1, PartsAssumption, LimitsAssumption
    <3>3. WellFormed(u.body) /\ u.body.data.len <= MaxFragmentData
            /\ u.body.count <= MaxFragmentCount
      BY <1>2, <1>7 DEF LengthFits, CountFits, DataFits
    <3> QED BY <1>2, <1>3, <1>7, <3>2, <3>3
  <2>5. ~PoisonPartData(v) /\ ~RejectPart(v) /\ ~PoisonPartCount(v) /\ ~RejectIndices(v)
    BY <2>4 DEF PoisonPartData, RejectPart, PoisonPartCount, RejectIndices, Codec, CodecData
  <2> QED BY <1>3, <1>5, <2>2, <2>3, <2>5 DEF UrReceive, ReceiveFountain, GarbledPart, UrAnswer,
      CallFountain, Codec, CodecData
<1> QED BY <1>6, <1>7

LEMMA AloneRuns ==
  ASSUME TransferInv, AloneInv, Alone, FountainStep, RedeliveryInv', IInv', BoundInv'
  PROVE  poisoned' = Alive /\ (phase' = "idle" => outcome' = "Accepted")
<1>1. /\ phase # "idle" /\ UrIInv /\ IInv /\ poisoned = Alive /\ SenderInv /\ call # None
  BY RunShape DEF TransferInv, UrIInv, AloneInv, FountainStep
<1>2. received # {} /\ meta = HeaderOf(enc) /\ call \in sent
  BY <1>1, AloneContent DEF UrIInv, IInv, Pinned
<1>3. poisoned' \in {Alive, "BufferParts", "DecoderState"} /\ meta' = meta
  BY <1>1 DEF FountainStep, Ingest, Drain, IngestKnown, IngestNew, StripKnown, InternalError,
     PopSimple, Return, Reduce, session, Resolve, Discard, Keep, Overflow, Poison
<1>4. poisoned' # "DecoderState"
  BY <1>1, NextNoDecoderState DEF NoDecoderState, Alive, FountainStep, Next
<1>5. poisoned' # "BufferParts"
  <2>1. PICK p \in Parts : MetaOf(p) = meta
    <3>1. ~IsSinglePart
      BY <1>2, AloneContent
    <3>2. \A u \in sent : u.body \in Parts /\ MetaOf(u.body) = HeaderOf(enc)
      BY <1>1, <3>1, SentFits
    <3> QED BY <1>2, <3>2
  <2>2. Cardinality(Long(VectorsOf(meta))) <= MaxBufferParts
    BY <2>1 DEF Alone
  <2>3. Cardinality(Long(VectorsOf(meta))) \in Nat /\ MaxBufferParts \in Nat
    BY VectorsOfFinite, LongProperties, LimitsAssumption
  <2>4. ~(Cardinality(Long(VectorsOf(meta))) > MaxBufferParts)
    BY <2>2, <2>3
  <2> QED BY <1>3, <2>4 DEF RedeliveryInv, RedeliveryNeverPoisons
<1>6. poisoned' = Alive
  BY <1>3, <1>4, <1>5
<1>7. phase' = "idle" => outcome' = "Accepted"
  BY <1>1, <1>6, RunShape
<1> QED BY <1>6, <1>7

LEMMA AloneInit == TransferInit => AloneInv
<1> SUFFICES ASSUME TransferInit PROVE AloneInv
  OBVIOUS
<1>1. RedeliveryInv
  BY InitRedelivery DEF TransferInit, UrInit
<1> QED BY <1>1 DEF TransferInit, UrInit, Init, AloneInv, AllTaken

LEMMA AloneNext ==
  ASSUME Alone
  PROVE  TransferInv /\ AloneInv /\ [TransferNext]_tvars => AloneInv'
<1> SUFFICES ASSUME TransferInv, AloneInv, [TransferNext]_tvars PROVE AloneInv'
  OBVIOUS
<1>1. SenderInv /\ UrIInv /\ poisoned = Alive /\ urPoisoned = Alive /\ IInv
  BY DEF TransferInv, AloneInv, AllTaken, UrIInv
<1>2. IInv' /\ BoundInv'
  BY TransferNextInv DEF TransferInv, UrIInv
<1>3. [Next]_vars
  BY <1>1, TransferSides, SessionStep DEF urVars
<1>4. RedeliveryInv'
  BY <1>3, NextRedelivery DEF TransferInv, UrIInv, AloneInv
<1>5. CASE UNCHANGED urVars
  BY <1>1, <1>4, <1>5 DEF urVars, vars, session, ur, AloneInv, AllTaken
<1>6. ASSUME NEW u \in sent, NEW v, v = u \/ v = [u EXCEPT !.body = None], UrReceive(v)
      PROVE  AloneInv'
  <2>1. CASE UNCHANGED <<vars, expected, urPoisoned, call>> /\ answer' \in {"Ok", "InvalidBody"}
    BY <1>1, <1>4, <2>1 DEF vars, session, AloneInv, AllTaken
  <2>2. CASE v = u /\ CallFountain(u)
    <3>1. call' = u
      BY <2>2 DEF CallFountain
    <3>2. /\ poisoned' = Alive /\ UNCHANGED <<expected, seen, single, urPoisoned, answer>>
          /\ phase' = "idle" => outcome' \in {"Accepted", "Ignored"}
      BY <1>2, <1>4, <2>2, <3>1, SentMulti
    <3> QED BY <1>1, <1>4, <3>2 DEF AloneInv, AllTaken
  <2> QED BY <1>6, <2>1, <2>2, SentTaken
<1>7. CASE Proceed
  <2>1. CASE FountainStep
    BY <1>1, <1>2, <1>4, <2>1, AloneRuns DEF FountainStep, ur, AloneInv, AllTaken
  <2>2. CASE Pin \/ Escalate \/ PassOn
    <3>1. call # None /\ phase = "idle" /\ outcome \in {"Accepted", "Ignored"}
      BY <2>2 DEF Pin, Escalate, PassOn, Returned, AloneInv
    <3>2. outcome \notin Poisons
      BY <3>1 DEF Poisons, Limits
    <3>3. Pin
      BY <2>2, <3>1, <3>2 DEF Escalate, PassOn
    <3> QED BY <1>1, <1>4, <3>3 DEF Pin, vars, session, AloneInv, AllTaken
  <2> QED BY <1>7, <2>1, <2>2 DEF Proceed, Conclude
<1>8. CASE Construct \/ Show
  BY <1>5, <1>8 DEF Construct, Show
<1>9. ~AnswerDead /\ ~(\E u \in Foreign : ScanForeign(u))
  BY <1>1 DEF AnswerDead, AnswerUrPoisoned, Alone
<1> QED BY <1>5, <1>6, <1>7, <1>8, <1>9 DEF TransferNext, Scan, Misread, tvars

(***************************************************************************)
(* With one sender in view and limits that have room for what it can send,  *)
(* no URI it returns is ever refused, in whatever order and however often   *)
(* it is scanned or misread.                                               *)
(***************************************************************************)
THEOREM AllTakenHolds == ASSUME Alone PROVE TransferSpec => []AllTaken
<1>1. AloneInv => AllTaken
  BY DEF AloneInv
<1>2. TransferInv /\ AloneInv /\ [TransferNext]_tvars => AloneInv'
  BY AloneNext
<1> QED BY <1>1, <1>2, AloneInit, TransferInvariance, PTL DEF TransferSpec
-----------------------------------------------------------------------------
(* A complete encoder has sent enough.                                     *)

LEMMA AloneHonest == Alone => HonestParts
<1> SUFFICES ASSUME Alone, NEW p \in Parts PROVE IsHonest(p)
  BY DEF HonestParts
<1>1. PICK e \in Encoders, s \in 1 .. MaxU32 : p = PartOf(e, s)
  BY DEF Alone
<1>2. /\ p.count = e.count /\ p.mlen = e.mlen /\ p.crc = e.crc /\ p.data.len = e.len /\ p.seq = s
  BY <1>1 DEF PartOf
<1>3. /\ MetaOf(p) = [count |-> e.count, mlen |-> e.mlen, crc |-> e.crc, len |-> e.len]
      /\ Indexes(p) = ChooseFragments(s, e.count, e.crc)
  BY <1>2 DEF MetaOf, Indexes
<1> QED BY <1>1, <1>3 DEF IsHonest, PartOf

LEMMA AloneEnough ==
  ASSUME Alone
  PROVE  TransferInv /\ AloneInv /\ FragmentsExact => CompleteIsEnough
<1> SUFFICES ASSUME TransferInv, AloneInv, FragmentsExact, call = None, UrComplete,
                    \A u \in sent : Complete \/ Taken(u)
             PROVE  Readable
  BY DEF CompleteIsEnough
<1>1. /\ urPoisoned = Alive /\ poisoned = Alive /\ phase = "idle" /\ IInv /\ SenderInv /\ EncIInv
  BY DEF TransferInv, AloneInv, AllTaken, UrIInv, SenderInv
<1>2. SUFFICES ASSUME single = None PROVE Complete
  <2>1. Complete => Message = "Message"
    BY <1>1, AloneHonest, ExactMessage DEF CompleteYieldsMessage, Session
  <2> QED BY <1>1, <1>2, <2>1 DEF Readable
<1>3. SUFFICES ASSUME ~Complete PROVE FALSE
  OBVIOUS
<1>4. CASE IsSinglePart
  <2>1. PICK u \in sent : u.kind = "SinglePart"
    <3>1. singleEmitted = 1
      BY <1>4 DEF UrComplete
    <3>2. sent = {SingleUri(encType, [len |-> enc.mlen, id |-> enc.crc])}
      BY <1>1, <1>4, <3>1 DEF SenderInv, SentBy
    <3> QED BY <3>2 DEF SingleUri
  <2>2. u.body # None /\ Taken(u)
    BY <1>1, <1>3, SentFits
  <2> QED BY <1>2, <2>1, <2>2 DEF Taken
<1>5. CASE ~IsSinglePart
  <2>1. enc # NoEncoder /\ EncComplete(enc) /\ enc.count \in Nat /\ enc.count # 0
    BY <1>1, <1>5 DEF UrComplete, EncIInv, EncTypeOK, Cut
  <2>2. ASSUME NEW i \in 0 .. enc.count - 1
        PROVE  <<i>> \in received
    <3>1. PICK p \in emitted : Indexes(p) = <<i>>
      BY <1>1, <2>1, EncCompleteCovers DEF CompleteCovers
    <3>2. MultiUri(encType, p) \in sent
      BY <1>1, <1>5 DEF SenderInv, SentBy
    <3>3. Taken(MultiUri(encType, p))
      BY <1>3, <3>2
    <3> QED BY <3>1, <3>3 DEF Taken, MultiUri
  <2>3. <<0>> \in received
    BY <2>1, <2>2
  <2>4. meta = HeaderOf(enc) /\ meta.count = enc.count /\ meta.mlen # 0
    BY <1>1, <2>1, <2>3, AloneContent DEF HeaderOf, EncIInv, Cut
  <2>5. Peel!PeelClosed({Range(v) : v \in received}, DOMAIN decoded)
    BY <1>1, IInvPeelClosed DEF IInv, Control
  <2>6. ASSUME NEW i \in Fragments
        PROVE  i \in DOMAIN decoded
    <3>1. <<i>> \in received
      BY <2>2, <2>4 DEF Fragments
    <3>2. Range(<<i>>) = {i}
      BY DEF Range
    <3>3. {i} \in {Range(v) : v \in received}
      BY <3>1, <3>2
    <3> QED BY <2>5, <3>3 DEF Peel!PeelClosed
  <2>7. DOMAIN decoded = 0 .. enc.count - 1
    BY <1>1, <2>4, <2>6 DEF IInv, TypeOK, StoreOK, Fragments
  <2>8. Cardinality(DOMAIN decoded) = enc.count
    <3>1. Cardinality(0 .. enc.count - 1) = enc.count - 1 - 0 + 1
      BY <2>1, FS_Interval
    <3> QED BY <2>1, <2>7, <3>1
  <2> QED BY <1>3, <2>4, <2>8 DEF Complete
<1> QED BY <1>4, <1>5

(***************************************************************************)
(* With one sender in view, a receiver that has taken every URI of an       *)
(* encoder that says it is complete can read the message: complete() is     *)
(* never early.                                                            *)
(***************************************************************************)
THEOREM CompleteIsEnoughHolds == ASSUME Alone PROVE TransferSpec => []CompleteIsEnough
<1>1. TransferInit => ExactInv
  BY InitExact DEF TransferInit, UrInit
<1>2. TransferInv /\ ExactInv /\ [TransferNext]_tvars => ExactInv'
  <2> SUFFICES ASSUME TransferInv, ExactInv, [TransferNext]_tvars PROVE ExactInv'
    OBVIOUS
  <2>1. [Next]_vars
    BY TransferSides, SessionStep DEF TransferInv, urVars
  <2> QED BY <2>1, NextExact DEF TransferInv, UrIInv
<1>3. ExactInv => FragmentsExact
  BY DEF ExactInv, TruePayloads, FragmentsExact
<1>4. TransferInv /\ AloneInv /\ FragmentsExact => CompleteIsEnough
  BY AloneEnough
<1>5. TransferInv /\ AloneInv /\ [TransferNext]_tvars => AloneInv'
  BY AloneNext
<1> QED BY <1>1, <1>2, <1>3, <1>4, <1>5, AloneInit, TransferInvariance, PTL DEF TransferSpec
=============================================================================
