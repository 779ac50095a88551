----------------------------- MODULE UrEncoder -----------------------------
(***************************************************************************)
(* The UR encoder of crates/bcur/src/ur/mod.rs, around the fountain encoder *)
(* it owns.  A message of one fragment is emitted in the single-part form,  *)
(* any number of times, and leaves the fountain encoder alone.              *)
(***************************************************************************)
EXTENDS FountainEncoder, UriForms

VARIABLES
  encType,        \* the type of the encoder
  singleEmitted,  \* whether the single part has been emitted, 0 or 1
  sent            \* the URIs next_part has returned

sender == <<encVars, encType, singleEmitted, sent>>

UrEncInit == EncInit /\ encType = None /\ singleEmitted = 0 /\ sent = {}
-----------------------------------------------------------------------------
UrNew(m, max, t) ==
  /\ New(m, max)
  /\ encType' = IF NewResult(m, max) = "Ok" THEN t ELSE None
  /\ UNCHANGED <<singleEmitted, sent>>

IsSinglePart == enc.count = 1

EmitSingle ==
  /\ enc # NoEncoder /\ IsSinglePart
  /\ singleEmitted' = 1
  /\ sent' = sent \cup {SingleUri(encType, [len |-> enc.mlen, id |-> enc.crc])}
  /\ UNCHANGED <<encVars, encType>>

FaultyMulti ==                          \* the fountain encoder is asked first
  enc # NoEncoder

Multi == enc # NoEncoder /\ ~IsSinglePart

EmitMulti ==
  /\ Multi /\ Emit
  /\ sent' = sent \cup {MultiUri(encType, PartOf(enc, enc.current + 1))}
  /\ UNCHANGED <<encType, singleEmitted>>

(* The error of the fountain encoder is passed on.                         *)
RefuseMulti ==
  /\ Multi
  /\ RefuseSingle \/ RefuseSequence
  /\ UNCHANGED <<encType, singleEmitted, sent>>

UrNextPart == EmitSingle \/ EmitMulti \/ RefuseMulti

UrEncNext ==
  \/ \E m \in Messages, max \in FragmentMaxima, t \in Types : UrNew(m, max, t)
  \/ UrNextPart

UrEncSpec == UrEncInit /\ [][UrEncNext]_sender

(* Encoder::complete                                                       *)
UrComplete ==
  IF IsSinglePart THEN singleEmitted = 1 ELSE enc # NoEncoder /\ EncComplete(enc)
-----------------------------------------------------------------------------
(* Properties.                                                             *)

(* What has been sent is one URI, or the parts emitted so far, all of the  *)
(* encoder's type: a stream is never sent in both forms, and a message of  *)
(* one fragment never reaches the fountain encoder, which would refuse it  *)
(* the second time.                                                        *)
OneFormSent ==
  IF IsSinglePart
  THEN emitted = {} /\ \A u \in sent : u.kind = "SinglePart"
  ELSE sent = {MultiUri(encType, p) : p \in emitted}
=============================================================================
