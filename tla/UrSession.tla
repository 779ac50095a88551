------------------------------ MODULE UrSession ------------------------------
(***************************************************************************)
(* What a UR session promises its caller, with the fountain decoder, the    *)
(* limits and the strings abstracted away.  A session has one content: the  *)
(* payload of a single-part URI, or the message of one stream, which can be *)
(* read once enough of its parts have come.  Its type is that of the        *)
(* content and the one the caller wants.  What can be read stays, until a   *)
(* limit closes the session.                                                *)
(***************************************************************************)
CONSTANTS
  Types,        \* UR types
  Singles,      \* payloads of single-part URIs
  Headers,      \* headers of streams
  Joined,       \* header -> the message of the stream with that header
  None          \* nothing yet

VARIABLES
  wanted,       \* the type the caller asked for, or None
  type,         \* the type of the content, or None
  form,         \* "nothing", "single" or "stream"
  header,       \* the header of the stream, or None
  message,      \* what can be read, or None
  open          \* no limit has been exceeded

vars == <<wanted, type, form, header, message, open>>

Init ==
  /\ wanted = None
  /\ type = None
  /\ form = "nothing"
  /\ header = None
  /\ message = None
  /\ open = TRUE
-----------------------------------------------------------------------------
Want(t) ==
  /\ wanted' = t
  /\ UNCHANGED <<type, form, header, message, open>>

IsWanted(t) == wanted \in {t, None}

(* A single-part URI is the content, at once.                              *)
TakeSingle(t, m) ==
  /\ open /\ form = "nothing" /\ IsWanted(t)
  /\ type' = t
  /\ form' = "single"
  /\ message' = m
  /\ UNCHANGED <<wanted, header, open>>

(* The first part of a stream is accepted.                                 *)
Join(h) ==
  /\ open /\ form = "nothing"
  /\ form' = "stream"
  /\ header' = h
  /\ UNCHANGED <<wanted, type, message, open>>

(* The call that accepted it returns.                                      *)
Name(t) ==
  /\ open /\ form = "stream" /\ type = None /\ IsWanted(t)
  /\ type' = t
  /\ UNCHANGED <<wanted, form, header, message, open>>

(* The last fragment is recovered.                                         *)
Finish ==
  /\ open /\ form = "stream" /\ message = None
  /\ message' = Joined[header]
  /\ UNCHANGED <<wanted, type, form, header, open>>

Close ==
  /\ open
  /\ open' = FALSE
  /\ message' = None
  /\ UNCHANGED <<wanted, type, form, header>>

Next ==
  \/ \E t \in Types : Want(t) \/ Name(t) \/ \E m \in Singles : TakeSingle(t, m)
  \/ \E h \in Headers : Join(h)
  \/ Finish
  \/ Close

Spec == Init /\ [][Next]_vars
=============================================================================
