------------------------------ MODULE Terminal ------------------------------
(***************************************************************************)
(* The animation loop of crates/bcur-cli/src/qr.rs and the terminal it      *)
(* takes over: run_animation, the AltScreen guard, and the wait for a key   *)
(* between two frames.  Every call of the terminal library can fail; what   *)
(* fails changes nothing.  What the frames are is left to the caller.       *)
(***************************************************************************)
EXTENDS Naturals, Sequences

CONSTANTS
  Tty,            \* whether stdout is a terminal, one or both of the answers
  MaxKeys         \* bound on the key events that wait to be read

VARIABLES
  at,             \* where run_animation is
  screen,         \* the screen the terminal shows
  raw,            \* whether the terminal is in raw mode
  stuck,          \* what the guard failed to restore
  keys,           \* the events that wait to be read
  frame,          \* the frame on the screen, from 1
  left,           \* milliseconds to the deadline
  result          \* what the animation returned

terminal == <<at, screen, raw, stuck, keys, frame, left, result>>

ASSUME TerminalAssumption ==
  /\ Tty \subseteq BOOLEAN
  /\ MaxKeys \in Nat

(* "q", "Q", Esc and Ctrl-C, against every other event.                    *)
Events == {"quit", "other"}

TerminalInit ==
  /\ at = "off"
  /\ screen = "main" /\ raw = FALSE /\ stuck = {}
  /\ keys = <<>>
  /\ frame = 0 /\ left = 0
  /\ result = "None"
-----------------------------------------------------------------------------
(* The end: without the guard, or by dropping it.                          *)

End(r) ==
  /\ at' = "done" /\ result' = r
  /\ UNCHANGED <<screen, raw, stuck, keys, frame, left>>

Leave(r) ==
  /\ at' = "leave" /\ result' = r
  /\ UNCHANGED <<screen, raw, stuck, keys, frame, left>>

(* One operation of the screen or of raw mode whose failure is ignored.    *)
Restore(what, ok) == stuck' = IF ok THEN stuck ELSE stuck \cup {what}
-----------------------------------------------------------------------------
(* AltScreen::enter                                                        *)

BeginAnimation ==
  /\ at = "off"
  /\ \E tty \in Tty :
       IF tty
       THEN /\ at' = "enter"
            /\ UNCHANGED <<screen, raw, stuck, keys, frame, left, result>>
       ELSE End("NotATty")

EnterScreen ==
  /\ at = "enter"
  /\ \/ /\ at' = "raw" /\ screen' = "alternate"
        /\ UNCHANGED <<raw, stuck, keys, frame, left, result>>
     \/ End("Io")

FaultyEnableRaw ==                      \* the error is returned at once
  /\ at = "raw"
  /\ \/ /\ at' = "frame" /\ raw' = TRUE
        /\ UNCHANGED <<screen, stuck, keys, frame, left, result>>
     \/ End("Io")

EnableRaw ==
  /\ at = "raw"
  /\ \/ /\ at' = "frame" /\ raw' = TRUE
        /\ UNCHANGED <<screen, stuck, keys, frame, left, result>>
     \/ \E ok \in BOOLEAN :
          /\ at' = "done" /\ result' = "Io"
          /\ screen' = IF ok THEN "main" ELSE screen
          /\ Restore("screen", ok)
          /\ UNCHANGED <<raw, keys, frame, left>>

(* Drop                                                                    *)
LeaveScreen ==
  /\ at = "leave"
  /\ \E ok \in BOOLEAN :
       /\ at' = "cook"
       /\ screen' = IF ok THEN "main" ELSE screen
       /\ Restore("screen", ok)
       /\ UNCHANGED <<raw, keys, frame, left, result>>

DisableRaw ==
  /\ at = "cook"
  /\ \E ok \in BOOLEAN :
       /\ at' = "done"
       /\ raw' = IF ok THEN FALSE ELSE raw
       /\ Restore("raw", ok)
       /\ UNCHANGED <<screen, keys, frame, left, result>>
-----------------------------------------------------------------------------
(* The loop: the next frame, its drawing, and the wait for its deadline.   *)

TakeFrame(f) ==
  /\ at = "frame"
  /\ at' = "draw" /\ frame' = f
  /\ UNCHANGED <<screen, raw, stuck, keys, left, result>>

NoFrame(r) == at = "frame" /\ Leave(r)

FaultyInterval(ms) == ms

Interval(ms) == IF ms = 0 THEN 1 ELSE ms

Draw(ms) ==
  /\ at = "draw"
  /\ at' = "wait" /\ left' = Interval(ms)
  /\ UNCHANGED <<screen, raw, stuck, keys, frame, result>>

DrawFails(r) == at = "draw" /\ Leave(r)

Tick ==
  /\ at = "wait" /\ left > 0
  /\ left' = left - 1
  /\ UNCHANGED <<at, screen, raw, stuck, keys, frame, result>>

PollFails == at = "wait" /\ left > 0 /\ Leave("Io")

HandleKey ==
  /\ at = "wait" /\ left > 0 /\ keys # <<>>
  /\ keys' = Tail(keys)
  /\ IF Head(keys) = "quit"
     THEN at' = "leave" /\ result' = "Ok"
     ELSE UNCHANGED <<at, result>>
  /\ UNCHANGED <<screen, raw, stuck, frame, left>>

Deadline ==
  /\ at = "wait" /\ left = 0
  /\ at' = "frame"
  /\ UNCHANGED <<screen, raw, stuck, keys, frame, left, result>>

(* A key is pressed, whatever the program is doing.                        *)
Press ==
  /\ raw /\ at \in {"frame", "draw", "wait"}
  /\ Len(keys) < MaxKeys
  /\ \E e \in Events : keys' = Append(keys, e)
  /\ UNCHANGED <<at, screen, raw, stuck, frame, left, result>>

(* The steps that do not depend on what the frames are.                    *)
Guard == EnterScreen \/ EnableRaw \/ LeaveScreen \/ DisableRaw

Wait == HandleKey \/ PollFails \/ Tick \/ Deadline
-----------------------------------------------------------------------------
(* Properties.                                                             *)

(* However the animation ends, by a key, by an error of any of its calls or *)
(* half-way into taking the terminal over, the screen and the mode of the   *)
(* terminal are what they were, but for an operation that itself failed.    *)
Restored ==
  at = "done" =>
    /\ screen = "main" \/ "screen" \in stuck
    /\ ~raw \/ "raw" \in stuck

(* A request to quit ends the animation, whenever it comes: while a frame   *)
(* is drawn, at its deadline, behind other keys.                           *)
QuitHeeded == (\E i \in DOMAIN keys : keys[i] = "quit") ~> at = "done"
=============================================================================
