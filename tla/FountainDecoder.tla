--------------------------- MODULE FountainDecoder ---------------------------
(***************************************************************************)
(* The fountain decoder of crates/bcur/src/fountain/mod.rs.                 *)
(*                                                                         *)
(* Decoder::receive runs to its end before the next call, and its inside is *)
(* a loop over a map and a stack.  The model keeps that inside: a call that *)
(* passes the checks goes from "idle" to "ingest" (enqueue_simple or        *)
(* process_complex), to "drain" (process_queue) and back to "idle"; no      *)
(* other call starts on the way, so `phase' is the program counter of the   *)
(* one thread that holds &mut self.                                         *)
(***************************************************************************)
EXTENDS FountainParts

CONSTANTS
  Parts,              \* the parts that can be presented to receive
  MaxFragmentCount,   \* DecoderLimits.max_fragment_count
  MaxMessageLength,   \* DecoderLimits.max_message_length
  MaxFragmentData,    \* DecoderLimits.max_fragment_data_length
  MaxBufferParts,     \* DecoderLimits.max_buffer_parts
  MaxReceivedParts,   \* DecoderLimits.max_received_parts
  MaxUsize            \* usize::MAX

VARIABLES
  decoded,      \* fragment index -> payload
  received,     \* the index vectors accepted so far
  buffer,       \* index vector -> payload, of parts not yet reduced to one
  queue,        \* stack of recovered fragments <<index, payload>> to cascade
  meta,         \* the header the session is pinned to
  poisoned,     \* why the decoder is dead, or Alive
  phase,        \* where the call in progress is, "idle" between calls
  part,         \* the part in "ingest", with what has been reduced of it
  simple,       \* the fragment process_queue has popped last
  todo,         \* the buffer keys it still has to reduce by that fragment
  outcome       \* what the last call returned

session == <<decoded, received, buffer, queue, meta, poisoned>>
vars == <<session, phase, part, simple, todo, outcome>>
-----------------------------------------------------------------------------
(* Maps.                                                                   *)

Insert(f, x, y) == [z \in DOMAIN f \cup {x} |-> IF z = x THEN y ELSE f[z]]

FaultyDelete(f, x) == f                 \* inserted before the old is removed

Delete(f, x) == Restrict(f, DOMAIN f \ {x})

Sources == UNION {p.data.sum : p \in Parts}

Payload == [len : Nat, sum : SUBSET Sources]

(* Every part with the pinned header carries the XOR it announces; parts of *)
(* other headers may carry anything.                                       *)
HonestParts == \A p \in Parts : MetaOf(p) = meta => IsHonest(p)
-----------------------------------------------------------------------------
ASSUME LimitsAssumption ==
  /\ MaxFragmentCount \in Nat
  /\ MaxMessageLength \in Nat
  /\ MaxFragmentData \in Nat
  /\ MaxBufferParts \in Nat
  /\ MaxReceivedParts \in Nat
  /\ MaxUsize \in Nat

ASSUME PartsAssumption ==
  \A p \in Parts :
    /\ p = [seq |-> p.seq, count |-> p.count, mlen |-> p.mlen, crc |-> p.crc,
            data |-> [len |-> p.data.len, sum |-> p.data.sum]]
    /\ p.seq \in Nat /\ p.count \in Nat /\ p.mlen \in Nat /\ p.crc \in Nat
    /\ p.data.len \in Nat

(* shuffled(0..count) truncated to a degree in 1..count.                   *)
ASSUME MixAssumption ==
  \A p \in Parts :
    0 < p.count /\ p.count < p.seq =>
      IsIndexVector(Mix(p.seq, p.count, p.crc), p.count)
-----------------------------------------------------------------------------
Alive == "Alive"
Limits == {"FragmentData", "FragmentCount", "MessageLength", "ReceivedParts",
           "BufferParts"}
Poisons == Limits \cup {"DecoderState"}
Answers == {"None", "Pending", "Accepted", "Ignored", "EmptyPart",
            "InvalidSequence", "InconsistentPart"} \cup Poisons

NoMeta == [count |-> 0, mlen |-> 0, crc |-> 0, len |-> 0]
NoPart == [vec |-> << >>, data |-> [len |-> 0, sum |-> {}]]
NoSimple == <<0, [len |-> 0, sum |-> {}]>>
NoMap == [x \in {} |-> x]

FaultyComplete ==                       \* counts parts, not fragments
  /\ meta.mlen # 0
  /\ Cardinality(received) >= meta.count

Complete ==
  /\ meta.mlen # 0
  /\ Cardinality(DOMAIN decoded) = meta.count

Init ==
  /\ decoded = NoMap
  /\ received = {}
  /\ buffer = NoMap
  /\ queue = << >>
  /\ meta = NoMeta
  /\ poisoned = Alive
  /\ phase = "idle"
  /\ part = NoPart
  /\ simple = NoSimple
  /\ todo = {}
  /\ outcome = "None"
-----------------------------------------------------------------------------
(* The checks of receive, in the order the code makes them.  Each one      *)
(* includes those before it.                                               *)

Listening == phase = "idle" /\ poisoned = Alive /\ ~Complete

DataFits(p) == WellFormed(p) /\ p.data.len <= MaxFragmentData

CountFits(p) == DataFits(p) /\ p.count <= MaxFragmentCount

LengthFits(p) ==
  /\ CountFits(p)
  /\ p.mlen <= MaxMessageLength
  /\ p.data.len * p.count <= MaxUsize          \* checked_mul

First == received = {}

FaultyValidateChecksum(p) ==            \* forgets the checksum
  /\ ~First
  /\ p.count = meta.count /\ p.mlen = meta.mlen /\ p.data.len = meta.len

FaultyValidateLength(p) ==              \* forgets the fragment length
  /\ ~First
  /\ p.count = meta.count /\ p.mlen = meta.mlen /\ p.crc = meta.crc

Validate(p) == ~First /\ MetaOf(p) = meta

FaultyAdmissible(p) ==                 \* the product wraps around
  IF First
  THEN /\ CountFits(p) /\ p.mlen <= MaxMessageLength
       /\ LET product == (p.data.len * p.count) % (MaxUsize + 1)
          IN  product >= p.mlen /\ product - p.mlen < p.data.len
  ELSE DataFits(p) /\ Validate(p)

Admissible(p) ==
  IF First THEN LengthFits(p) /\ Geometry(p)
           ELSE DataFits(p) /\ Validate(p)

IsDuplicate(p) == Indexes(p) \in received

(* The two ways a call ends at a check: an answer that changes nothing,    *)
(* and a limit that poisons.                                               *)
Answer(o) ==
  /\ outcome' = o
  /\ UNCHANGED <<session, phase, part, simple, todo>>

Poison(kind) ==
  /\ poisoned' = kind
  /\ outcome' = kind
  /\ phase' = "idle"
  /\ part' = NoPart
  /\ simple' = NoSimple
  /\ todo' = {}

Unaltered == UNCHANGED <<decoded, received, buffer, queue>>
-----------------------------------------------------------------------------
AnswerPoisoned == phase = "idle" /\ poisoned # Alive /\ Answer(poisoned)

AnswerComplete ==
  phase = "idle" /\ poisoned = Alive /\ Complete /\ Answer("Ignored")

RejectEmpty(p) == Listening /\ IsEmpty(p) /\ Answer("EmptyPart")

RejectSequence(p) ==
  Listening /\ ~IsEmpty(p) /\ p.seq = 0 /\ Answer("InvalidSequence")

PoisonData(p) ==
  /\ Listening /\ WellFormed(p) /\ ~DataFits(p)
  /\ Poison("FragmentData") /\ Unaltered /\ UNCHANGED meta

PoisonCount(p) ==
  /\ Listening /\ First /\ DataFits(p) /\ ~CountFits(p)
  /\ Poison("FragmentCount") /\ Unaltered /\ UNCHANGED meta

PoisonLength(p) ==
  /\ Listening /\ First /\ CountFits(p) /\ ~LengthFits(p)
  /\ Poison("MessageLength") /\ Unaltered /\ UNCHANGED meta

RejectInconsistent(p) ==
  /\ Listening
  /\ IF First THEN LengthFits(p) /\ ~Geometry(p)
              ELSE DataFits(p) /\ ~Validate(p)
  /\ Answer("InconsistentPart")

IgnoreDuplicate(p) ==
  Listening /\ Admissible(p) /\ IsDuplicate(p) /\ Answer("Ignored")

FaultyPoisonReceived(p) ==              \* looks at the limit before duplicates
  /\ Listening /\ Admissible(p)
  /\ Cardinality(received) >= MaxReceivedParts
  /\ Poison("ReceivedParts") /\ Unaltered
  /\ meta' = MetaOf(p)

(* The header is pinned before this limit is looked at.                    *)
PoisonReceived(p) ==
  /\ Listening /\ Admissible(p) /\ ~IsDuplicate(p)
  /\ Cardinality(received) >= MaxReceivedParts
  /\ Poison("ReceivedParts") /\ Unaltered
  /\ meta' = MetaOf(p)

Accept(p) ==
  /\ Listening /\ Admissible(p) /\ ~IsDuplicate(p)
  /\ Cardinality(received) < MaxReceivedParts
  /\ received' = received \cup {Indexes(p)}
  /\ meta' = MetaOf(p)
  /\ part' = [vec |-> Indexes(p), data |-> p.data]
  /\ phase' = "ingest"
  /\ outcome' = "Pending"
  /\ UNCHANGED <<decoded, buffer, queue, poisoned, simple, todo>>

Receive(p) ==
  \/ RejectEmpty(p) \/ RejectSequence(p) \/ RejectInconsistent(p)
  \/ PoisonData(p) \/ PoisonCount(p) \/ PoisonLength(p) \/ PoisonReceived(p)
  \/ IgnoreDuplicate(p) \/ Accept(p)
-----------------------------------------------------------------------------
(* insert_reduced, with `rest' the buffer the vector is inserted into.     *)

FaultyResolveSilent(rest, vec, data) == \* does not enqueue the fragment
  /\ Len(vec) = 1
  /\ vec[1] \notin DOMAIN decoded
  /\ decoded' = Insert(decoded, vec[1], data)
  /\ buffer' = rest
  /\ UNCHANGED <<queue, poisoned>>

FaultyResolveAgain(rest, vec, data) ==  \* overwrites a known fragment
  /\ Len(vec) = 1
  /\ decoded' = Insert(decoded, vec[1], data)
  /\ queue' = Append(queue, <<vec[1], data>>)
  /\ buffer' = rest
  /\ UNCHANGED poisoned

Resolve(rest, vec, data) ==
  /\ Len(vec) = 1
  /\ vec[1] \notin DOMAIN decoded
  /\ decoded' = Insert(decoded, vec[1], data)
  /\ queue' = Append(queue, <<vec[1], data>>)
  /\ buffer' = rest
  /\ UNCHANGED poisoned

Discard(rest, vec) ==
  /\ Len(vec) = 1
  /\ vec[1] \in DOMAIN decoded
  /\ buffer' = rest
  /\ UNCHANGED <<decoded, queue, poisoned>>

FaultyHasRoom(rest, vec) ==             \* one entry too many
  vec \in DOMAIN rest \/ Cardinality(DOMAIN rest) <= MaxBufferParts

(* Replacing an entry does not grow the buffer.                            *)
HasRoom(rest, vec) ==
  vec \in DOMAIN rest \/ Cardinality(DOMAIN rest) < MaxBufferParts

Keep(rest, vec, data) ==
  /\ Len(vec) # 1
  /\ HasRoom(rest, vec)
  /\ buffer' = Insert(rest, vec, data)
  /\ UNCHANGED <<decoded, queue, poisoned>>

Overflow(rest, vec) ==
  /\ Len(vec) # 1
  /\ ~HasRoom(rest, vec)
  /\ Poison("BufferParts")
  /\ buffer' = rest
  /\ UNCHANGED <<decoded, queue>>

(* A missing map entry or payloads of different lengths (ok_or, xor).      *)
InternalError(rest) ==
  /\ Poison("DecoderState")
  /\ buffer' = rest
  /\ UNCHANGED <<decoded, received, queue, meta>>
-----------------------------------------------------------------------------
(* enqueue_simple and process_complex on the accepted part.                *)

KnownOf(v) == Range(v) \cap DOMAIN decoded

EnterDrain == phase' = "drain" /\ part' = NoPart /\ UNCHANGED <<simple, todo, outcome>>

(* Nothing new in the part.                                                *)
IngestKnown ==
  /\ phase = "ingest"
  /\ Range(part.vec) \subseteq DOMAIN decoded
  /\ EnterDrain
  /\ UNCHANGED session

(* One known fragment is taken out of a complex part.                      *)
StripKnown(i) ==
  /\ phase = "ingest"
  /\ ~(Range(part.vec) \subseteq DOMAIN decoded)
  /\ i \in KnownOf(part.vec)
  /\ IF part.data.len = decoded[i].len
     THEN /\ part' = [vec |-> Without(part.vec, i),
                      data |-> Xor(part.data, decoded[i])]
          /\ UNCHANGED <<session, phase, simple, todo, outcome>>
     ELSE InternalError(buffer)

IngestNew ==
  /\ phase = "ingest"
  /\ KnownOf(part.vec) = {}
  /\ \/ /\ Resolve(buffer, part.vec, part.data) \/ Keep(buffer, part.vec, part.data)
        /\ EnterDrain
     \/ Overflow(buffer, part.vec)
  /\ UNCHANGED <<received, meta>>
-----------------------------------------------------------------------------
(* process_queue: the stack of recovered fragments.                        *)

FaultyPopSimpleStay ==                  \* reads the top and leaves it there
  /\ phase = "drain"
  /\ todo = {}
  /\ queue # << >>
  /\ simple' = Last(queue)
  /\ todo' = {v \in DOMAIN buffer : Last(queue)[1] \in Range(v)}
  /\ UNCHANGED <<session, phase, part, outcome>>

FaultyPopSimpleOne ==                   \* reduces at most one entry of many
  /\ phase = "drain"
  /\ todo = {}
  /\ queue # << >>
  /\ simple' = Last(queue)
  /\ queue' = Front(queue)
  /\ todo' \in {{v} : v \in {w \in DOMAIN buffer : Last(queue)[1] \in Range(w)}} \cup {{}}
  /\ UNCHANGED <<decoded, received, buffer, meta, poisoned, phase, part, outcome>>

PopSimple ==
  /\ phase = "drain"
  /\ todo = {}
  /\ queue # << >>
  /\ simple' = Last(queue)
  /\ queue' = Front(queue)
  /\ todo' = {v \in DOMAIN buffer : Last(queue)[1] \in Range(v)}
  /\ UNCHANGED <<decoded, received, buffer, meta, poisoned, phase, part, outcome>>

(* reduce_buffered_part; the code takes the keys in the order of the map,  *)
(* the model in any order.                                                 *)
Reduce(v) ==
  /\ phase = "drain"
  /\ v \in todo
  /\ IF /\ v \in DOMAIN buffer
        /\ simple[1] \in Range(v)
        /\ buffer[v].len = simple[2].len
     THEN LET rest == Delete(buffer, v)
              vec  == Without(v, simple[1])
              data == Xor(buffer[v], simple[2])
          IN  /\ \/ /\ Resolve(rest, vec, data) \/ Discard(rest, vec) \/ Keep(rest, vec, data)
                    /\ todo' = todo \ {v}
                    /\ UNCHANGED <<phase, part, simple, outcome>>
                 \/ Overflow(rest, vec)
              /\ UNCHANGED <<received, meta>>
     ELSE InternalError(Delete(buffer, v))

FaultyReturn ==                         \* returns after one fragment
  /\ phase = "drain"
  /\ todo = {}
  /\ phase' = "idle"
  /\ simple' = NoSimple
  /\ outcome' = "Accepted"
  /\ UNCHANGED <<session, part, todo>>

Return ==
  /\ phase = "drain"
  /\ todo = {}
  /\ queue = << >>
  /\ phase' = "idle"
  /\ simple' = NoSimple
  /\ outcome' = "Accepted"
  /\ UNCHANGED <<session, part, todo>>
-----------------------------------------------------------------------------
Ingest == IngestKnown \/ IngestNew \/ (\E i \in KnownOf(part.vec) : StripKnown(i))

Drain == PopSimple \/ Return \/ (\E v \in todo : Reduce(v))

Next ==
  \/ AnswerPoisoned
  \/ AnswerComplete
  \/ \E p \in Parts : Receive(p)
  \/ Ingest
  \/ Drain

(* A call that has started runs to its end: it is one synchronous call.    *)
Spec == Init /\ [][Next]_vars /\ WF_vars(Ingest \/ Drain)
-----------------------------------------------------------------------------
(* Decoder::message.                                                       *)

Fragments == 0 .. meta.count - 1

(* The length of all fragments, which message() computes without a check:  *)
(* a debug build panics when it overflows, a release build wraps.          *)
Representable == meta.len * meta.count <= MaxUsize

Joinable ==
  /\ Fragments \subseteq DOMAIN decoded
  /\ meta.len * meta.count >= meta.mlen

(* A fragment that is not the one of the stream is seen by the padding test *)
(* or by the checksum test; the two errors are one here.                   *)
Intact == \A i \in Fragments : decoded[i].sum = Mixture(meta, {i})

Message ==
  CASE poisoned # Alive                -> poisoned
    [] poisoned = Alive /\ ~Complete   -> "None"
    [] poisoned = Alive /\ Complete    ->
         IF ~Representable THEN "Overflow"
         ELSE IF ~Joinable THEN "DecoderState"
         ELSE IF Intact THEN "Message" ELSE "InvalidMessage"
-----------------------------------------------------------------------------
(* Properties.                                                             *)

IsMap(f) == f = [x \in DOMAIN f |-> f[x]]

Session == phase = "idle" /\ poisoned = Alive

StoreOK ==
  /\ IsMap(decoded) /\ DOMAIN decoded \subseteq Fragments
  /\ \A i \in DOMAIN decoded : decoded[i] \in Payload
  /\ \A v \in received : IsIndexVector(v, meta.count)
  /\ IsMap(buffer)
  /\ \A v \in DOMAIN buffer : IsIndexVector(v, meta.count) /\ buffer[v] \in Payload
  /\ queue \in Seq(Fragments \X Payload)
  /\ meta \in [count : Nat, mlen : Nat, crc : Nat, len : Nat]

FlightOK ==
  /\ poisoned \in Poisons \cup {Alive}
  /\ phase \in {"idle", "ingest", "drain"}
  /\ part.vec \in Seq(Fragments) /\ part.data \in Payload
  /\ simple \in Nat \X Payload
  /\ todo \subseteq DOMAIN buffer
  /\ outcome \in Answers

(* Every variable stays in its type; index vectors name fragments of the   *)
(* pinned header, and payloads are made of fragments of presented parts.   *)
TypeOK ==
  /\ StoreOK
  /\ FlightOK

(* Between calls the recovered fragments are exactly those the accepted    *)
(* parts determine: nothing that could be reduced is left in the buffer,   *)
(* and the order the parts came in makes no difference.                    *)
Peel == INSTANCE Peeling WITH
          Indices <- 0 .. MaxFragmentCount - 1,
          got <- {Range(v) : v \in received},
          known <- DOMAIN decoded,
          status <- IF poisoned # Alive THEN "closed"
                    ELSE IF phase = "idle" THEN "open" ELSE "busy"

PeelExact ==
  Session => Peel!IsPeeled({Range(v) : v \in received}, DOMAIN decoded, Fragments)

(* Honest parts, however they are mixed, permuted and reduced, only ever   *)
(* leave true fragments of the pinned stream and true mixtures behind,      *)
(* whatever parts of other streams come in between.                        *)
TrueFragments ==
  /\ \A i \in DOMAIN decoded : decoded[i].sum = Mixture(meta, {i})
  /\ \A v \in DOMAIN buffer : buffer[v].sum = Mixture(meta, Range(v))

FragmentsExact == HonestParts => TrueFragments

(* A complete session yields its message: no padding, checksum or internal *)
(* error is left to surface in message().                                  *)
CompleteYieldsMessage ==
  HonestParts /\ Session /\ Complete => Message = "Message"

(* The ok_or and xor errors are unreachable, for damaged payloads too, and  *)
(* message() never overflows: it relies on the check receive has made.     *)
NoInternalError ==
  poisoned # "DecoderState" /\ Message \notin {"DecoderState", "Overflow"}

(* Only the ingest of a part can hit the buffer limit: a reduction takes   *)
(* its entry out before it puts one back.                                  *)
DrainNeverPoisons == [][phase = "drain" => poisoned' = poisoned]_vars

(* Every accepted part accounts for at most one recovered fragment or one  *)
(* buffered mixture, so received bounds both; both limits hold throughout. *)
MemoryBounded ==
  /\ Cardinality(DOMAIN buffer) <= MaxBufferParts
  /\ Cardinality(received) <= MaxReceivedParts
  /\ Cardinality(DOMAIN buffer) + Cardinality(DOMAIN decoded)
       + (IF phase = "ingest" THEN 1 ELSE 0) <= Cardinality(received)

(* The index vectors of the parts of the stream with header h, and those    *)
(* of mixtures.                                                            *)
VectorsOf(h) == {Indexes(p) : p \in {q \in Parts : MetaOf(q) = h}}

Long(V) == {v \in V : Len(v) > 1}

(* A stream with no more distinct index vectors than a limit allows never  *)
(* hits it: redelivery alone exhausts neither set.                         *)
RedeliveryNeverPoisons ==
  /\ poisoned = "ReceivedParts" => Cardinality(VectorsOf(meta)) > MaxReceivedParts
  /\ poisoned = "BufferParts" => Cardinality(Long(VectorsOf(meta))) > MaxBufferParts

(* What a session has recovered it keeps, byte for byte, and the header it *)
(* started with stays, whatever is presented later.                        *)
ProgressKept ==
  [][/\ \A i \in DOMAIN decoded : i \in DOMAIN decoded' /\ decoded'[i] = decoded[i]
     /\ received \subseteq received'
     /\ received # {} => meta' = meta
     /\ poisoned # Alive => poisoned' = poisoned]_vars

(* Every call returns.                                                     *)
CallsReturn == phase # "idle" ~> phase = "idle"

(* The decoder implements peeling.                                         *)
ImplementsPeeling == Peel!Spec

(* "unique index-sets recorded in `received`" (DecoderLimits, mod.rs:86):  *)
(* two entries of received differ as sets of indexes.                      *)
ReceivedAreIndexSets ==
  \A v, w \in received : Range(v) = Range(w) => v = w
-----------------------------------------------------------------------------
(* The inductive invariant behind the properties.                          *)

(* Each phase leaves the others' variables at rest; what is in flight is   *)
(* well formed and agrees with the recovered fragments.                    *)
Control ==
  /\ poisoned # Alive => phase = "idle"
  /\ phase # "ingest" => part = NoPart
  /\ phase # "drain" => todo = {}
  /\ phase # "drain" /\ poisoned = Alive => queue = << >>
  /\ phase = "ingest" => IsIndexVector(part.vec, meta.count)
  /\ \A j \in DOMAIN queue :
       queue[j][1] \in DOMAIN decoded /\ queue[j][2] = decoded[queue[j][1]]
  /\ todo # {} => simple[1] \in DOMAIN decoded /\ simple[2] = decoded[simple[1]]
  /\ \A v \in todo : simple[1] \in Range(v)

(* An accepted part pins a header whose fragments hold the message.        *)
Pinned ==
  /\ received = {} =>
       /\ DOMAIN decoded = {} /\ DOMAIN buffer = {} /\ phase = "idle" /\ queue = << >>
       /\ poisoned = Alive => meta.mlen = 0
  /\ received # {} =>
       /\ meta.count \in 1 .. MaxFragmentCount
       /\ meta.mlen # 0
       /\ meta.len * meta.count >= meta.mlen
       /\ Representable

(* All payloads of a session have the length of its fragments.             *)
SameLength ==
  /\ \A i \in DOMAIN decoded : decoded[i].len = meta.len
  /\ \A v \in DOMAIN buffer : buffer[v].len = meta.len
  /\ phase = "ingest" => part.data.len = meta.len

(* v is what is left of an accepted part when known fragments are removed. *)
Reduces(v, r) ==
  Range(v) \subseteq Range(r) /\ Range(r) \ Range(v) \subseteq DOMAIN decoded

Traced ==
  /\ \A v \in DOMAIN buffer : \E r \in received : Reduces(v, r)
  /\ phase = "ingest" => \E r \in received : Reduces(part.vec, r)

(* No accepted part is forgotten before all its fragments are known.       *)
Covered(r) ==
  \/ Range(r) \subseteq DOMAIN decoded
  \/ \E v \in DOMAIN buffer : Reduces(v, r)
  \/ phase = "ingest" /\ Reduces(part.vec, r)

AllCovered == poisoned = Alive => \A r \in received : Covered(r)

(* A known fragment in a buffered vector is waiting in the stack, or is    *)
(* the one that is being removed from this very vector.                    *)
Pending(v, i) ==
  \/ \E j \in DOMAIN queue : queue[j][1] = i
  \/ v \in todo /\ simple[1] = i

Cascading ==
  /\ \A v \in DOMAIN buffer : Len(v) # 1
  /\ poisoned = Alive =>
       \A v \in DOMAIN buffer : \A i \in KnownOf(v) : Pending(v, i)

(* Only peeling recovers fragments.                                        *)
OnlyPeeled ==
  \A E \in SUBSET Fragments :
    Peel!PeelClosed({Range(r) : r \in received}, E) => DOMAIN decoded \subseteq E

IInv ==
  /\ TypeOK
  /\ Control
  /\ Pinned
  /\ SameLength
  /\ Traced
  /\ AllCovered
  /\ Cascading
  /\ OnlyPeeled

(* The part being ingested carries exactly the fragments of its vector.    *)
TruePayloads ==
  /\ TrueFragments
  /\ phase = "ingest" => part.data.sum = Mixture(meta, Range(part.vec))

ExactInv == HonestParts => TruePayloads
=============================================================================
