----------------------------- MODULE UrTransfer -----------------------------
(***************************************************************************)
(* A message on its way: a UR encoder, a display, and a UR decoder.         *)
(*                                                                         *)
(* What the encoder has returned stays on show: animate_parts of            *)
(* crates/bcur-cli/src/qr.rs cycles through a fixed list of URIs until it   *)
(* is told to stop.  The receiver scans what is on show in any order, any   *)
(* number of times or never, may misread it, and may scan what others show. *)
(***************************************************************************)
EXTENDS UrDecoder, UrEncoder

CONSTANTS
  Foreign         \* URIs of other senders that may come into view

tvars == <<urVars, sender>>

Foreigners == {u \in Foreign : u.body # None}

(* The encoders that new can return, and what they can send.               *)
Encoders ==
  {Constructed(o[1], o[2]) :
     o \in {q \in Messages \X FragmentMaxima : NewResult(q[1], q[2]) = "Ok"}}

UrisOf(e, t) ==
  IF e.count = 1 THEN {SingleUri(t, [len |-> e.mlen, id |-> e.crc])}
                 ELSE {MultiUri(t, PartOf(e, s)) : s \in 1 .. MaxU32}

Sendable == UNION {UrisOf(e, t) : e \in Encoders, t \in Types}

(* The strings of UrDecoder include what is sent, what it can be misread   *)
(* as, and what others show.                                               *)
ASSUME TransferAssumption ==
  /\ Sendable \cup Foreign \subseteq Uris
  /\ \A u \in Sendable : u.body # None /\ [u EXCEPT !.body = None] \in Uris

TransferInit == UrInit /\ UrEncInit
-----------------------------------------------------------------------------
Construct ==
  /\ \E m \in Messages, max \in FragmentMaxima, t \in Types : UrNew(m, max, t)
  /\ UNCHANGED urVars

Show == UrNextPart /\ UNCHANGED urVars

Scan(u) == u \in sent /\ UrReceive(u) /\ UNCHANGED sender

(* Bytewords carry a checksum: what is misread has no body.                *)
Misread(u) ==
  u \in sent /\ UrReceive([u EXCEPT !.body = None]) /\ UNCHANGED sender

ScanForeign(u) == UrReceive(u) /\ UNCHANGED sender

Proceed == Conclude /\ UNCHANGED sender

AnswerDead == AnswerUrPoisoned /\ UNCHANGED sender

TransferNext ==
  \/ Construct
  \/ Show
  \/ \E u \in sent : Scan(u)
  \/ \E u \in sent : Misread(u)
  \/ \E u \in Foreign : ScanForeign(u)
  \/ Proceed
  \/ AnswerDead

TransferSpec == TransferInit /\ [][TransferNext]_tvars

(* The sender goes on, a call runs to its end, and every URI that stays on *)
(* show is scanned again and again.                                        *)
FairTransfer ==
  /\ TransferSpec
  /\ WF_tvars(Construct)
  /\ WF_tvars(Show)
  /\ WF_tvars(Proceed)
  /\ \A u \in Uris : SF_tvars(Scan(u))
-----------------------------------------------------------------------------
(* Properties.                                                             *)

(* The fragments of the message with header h.                             *)
Source(h) ==
  [i \in 0 .. h.count - 1 |-> [len |-> h.len, sum |-> {<<h, i>>}]]

Shown == sent \cup Foreigners

(* What the receiver reads is one sender's message under that sender's     *)
(* type, whole and unmixed, whatever came into view and in whatever order. *)
Faithful ==
  call = None /\ Readable =>
    \E u \in Shown :
      /\ u.type = seen
      /\ u.kind = IF single # None THEN "SinglePart" ELSE "MultiPart"
      /\ Content = IF single # None THEN u.body ELSE Source(MetaOf(u.body))

(* Nobody else is in view, and the limits have room for every message that *)
(* can be sent.                                                            *)
Room(e) ==
  /\ e.mlen <= MaxMessageLength
  /\ e.count # 1 =>
       /\ e.count <= MaxFragmentCount /\ e.len <= MaxFragmentData
       /\ e.len * e.count <= MaxUsize

Alone ==
  /\ Foreign = {}
  /\ Parts \subseteq {PartOf(e, s) : e \in Encoders, s \in 1 .. MaxU32}
  /\ \A u \in Sendable : u.len <= MaxUriLen
  /\ \A e \in Encoders : Room(e)
  /\ \A p \in Parts :
       /\ Cardinality(VectorsOf(MetaOf(p))) <= MaxReceivedParts
       /\ Cardinality(Long(VectorsOf(MetaOf(p)))) <= MaxBufferParts

(* Then no URI of the encoder is ever refused: what one half writes the    *)
(* other half takes.                                                       *)
AllTaken ==
  /\ answer \in {"None", "Ok", "InvalidBody"}
  /\ urPoisoned = Alive

Taken(u) ==
  IF u.kind = "SinglePart" THEN single = u.body ELSE Indexes(u.body) \in received

(* When the encoder says that it is complete, a receiver that has taken    *)
(* everything it returned can read the message.                            *)
CompleteIsEnough ==
  call = None /\ UrComplete /\ (\A u \in sent : Complete \/ Taken(u)) => Readable

(* A message that is put on show is read in the end.                       *)
Transferred == enc # NoEncoder ~> Readable
=============================================================================
