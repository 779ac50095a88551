------------------------------ MODULE CliShow ------------------------------
(***************************************************************************)
(* What the command line shows on a terminal, of crates/bcur-cli/src/qr.rs: *)
(* the QR mode of `bcur encode', static or animated, and `bcur qr'.  The    *)
(* length of a URI decides the version of its QR code and with it whether   *)
(* it fits.                                                                 *)
(***************************************************************************)
EXTENDS CliEncode, Terminal

CONSTANTS
  Sizes,          \* sizes of the terminal, <<columns, rows>>
  Intervals,      \* values of --interval-ms
  Lines,          \* numbers of UR lines given to `bcur qr'
  LineLens        \* their lengths

VARIABLES
  size,           \* the size of the terminal
  interval,       \* --interval-ms
  lines,          \* the UR lines of `bcur qr', or None for `bcur encode'
  pending,        \* a part that is taken but not yet shown, or None
  index           \* how far the encoder, or the list, has been read

show == <<terminal, pending, index>>
showVars == <<cliVars, show, size, interval, lines>>

ASSUME ShowAssumption ==
  /\ Sizes \subseteq Nat \X Nat /\ Sizes # {}
  /\ Intervals \subseteq Nat /\ Intervals # {}
  /\ Lines \subseteq Nat
  /\ LineLens \subseteq Nat
-----------------------------------------------------------------------------
(* QR codes: the modules of a side and the characters it holds, for the     *)
(* versions 1 to 10, and the cells of its rendering.                       *)

FaultyAlnumQCapacity ==                 \* an entry is too large
  <<<<21, 16>>, <<25, 29>>, <<29, 47>>, <<33, 70>>, <<37, 87>>, <<41, 108>>,
    <<45, 125>>, <<49, 157>>, <<53, 177>>, <<57, 207>>>>

AlnumQCapacity ==
  <<<<21, 16>>, <<25, 29>>, <<29, 47>>, <<33, 67>>, <<37, 87>>, <<41, 108>>,
    <<45, 125>>, <<49, 157>>, <<53, 177>>, <<57, 207>>>>

Minus(a, b) == IF a > b THEN a - b ELSE 0

FaultyMaxModules(s) ==                  \* the quiet zone is left out
  LET cols == Minus(s[1], 2) rows == 2 * Minus(s[2], 2)
  IN  IF cols < rows THEN cols ELSE rows

MaxModules(s) ==
  LET cols == Minus(Minus(s[1], 2), 8) rows == Minus(2 * Minus(s[2], 2), 8)
  IN  IF cols < rows THEN cols ELSE rows

Versions == DOMAIN AlnumQCapacity

(* tty_max_chars, on a terminal: the largest version that fits.            *)
TtyMaxChars(s) ==
  LET fitting == {v \in Versions : AlnumQCapacity[v][1] <= MaxModules(s)}
  IN  IF fitting = {} THEN None ELSE AlnumQCapacity[Cardinality(fitting)][2]

(* resolve_max_chars, for an option that is not given; known is whether    *)
(* stdout is a terminal of a known size.                                   *)
DefaultMaxChars(s, qr, known) ==
  IF ~qr THEN 400
  ELSE IF known /\ TtyMaxChars(s) # None THEN TtyMaxChars(s) ELSE 80

(* What the codes hold by the standard, which the crate qrcode follows; the *)
(* table above has less for versions 9 and 10.                             *)
QrCapacity == <<16, 29, 47, 67, 87, 108, 125, 157, 189, 221>>

(* render_qr takes the smallest version that holds the characters; None is *)
(* one beyond version 10, or an error when no version holds them.          *)
Modules(len) ==
  LET small == {v \in DOMAIN QrCapacity : QrCapacity[v] < len}
  IN  IF small = DOMAIN QrCapacity THEN None ELSE 17 + 4 * (Cardinality(small) + 1)

(* check_fits: a quiet zone of four modules on each side, two modules in a *)
(* cell, two lines below the code.                                         *)
FitsOn(s, modules) == modules + 8 <= s[1] /\ (modules + 9) \div 2 + 2 <= s[2]

(* A code beyond version 10 is drawn or refused.                           *)
CanShow(modules) == modules # None => FitsOn(size, modules)

CanRefuse(modules) == modules # None => ~FitsOn(size, modules)
-----------------------------------------------------------------------------
(* An option that is not used has one value.                               *)
IfUsed(used, values) == IF used THEN values ELSE {CHOOSE v \in values : TRUE}

Draws == lines # None \/ args.qr

ShowInit ==
  /\ lines \in Lines \cup {None}
  /\ CliInit
  /\ args \in IfUsed(lines = None, Requests)
  /\ size \in IfUsed(Draws, Sizes)
  /\ interval \in IfUsed(Draws, Intervals)
  /\ TerminalInit
  /\ pending = None
  /\ index = 0

Command == lines = None /\ CliNext /\ UNCHANGED <<show, size, interval, lines>>

Unread == UNCHANGED <<cliVars, pending, index, size, interval, lines>>

(* show_static: off a terminal every code is printed; one that cannot be   *)
(* made is an error there too.                                             *)
ShowStatic(lens) ==
  /\ at = "off"
  /\ \E modules \in {Modules(len) : len \in lens} :
       \/ End("Io")
       \/ CanShow(modules) /\ End("Ok")
       \/ CanRefuse(modules) /\ \E tty \in Tty : End(IF tty \/ modules = None THEN "Qr" ELSE "Ok")
  /\ Unread

DrawUri(lens) ==
  /\ at = "draw"
  /\ \E modules \in {Modules(len) : len \in lens} :
       \/ CanShow(modules) /\ Draw(interval)
       \/ CanRefuse(modules) /\ DrawFails("Qr")
  /\ Unread

StaticUri ==
  /\ lines = None /\ pc = "single" /\ args.qr
  /\ ShowStatic({SingleLen(args.type, args.len)})
-----------------------------------------------------------------------------
(* animate_encoder: the part that encode.rs has measured is shown first.    *)

Encoding == lines = None /\ pc = "animation"

Count == CountFor(args, fragment)

FaultyAnimateEncoder ==                 \* the measured part is dropped
  /\ Encoding
  /\ BeginAnimation
  /\ index' = 1
  /\ UNCHANGED <<cliVars, pending, size, interval, lines>>

AnimateEncoder ==
  /\ Encoding
  /\ BeginAnimation
  /\ pending' = 1 /\ index' = 1
  /\ UNCHANGED <<cliVars, size, interval, lines>>

PendingFrame ==
  /\ Encoding /\ pending # None
  /\ TakeFrame(pending)
  /\ pending' = None
  /\ UNCHANGED <<cliVars, index, size, interval, lines>>

(* A message of one fragment is shown again and again; a stream ends with  *)
(* its last sequence number.                                               *)
EncoderFrame ==
  /\ Encoding /\ pending = None
  /\ Count = 1 \/ index < MaxU32
  /\ LET next == IF Count = 1 THEN index ELSE index + 1
     IN  TakeFrame(next) /\ index' = next
  /\ UNCHANGED <<cliVars, pending, size, interval, lines>>

EncoderEnds ==
  /\ Encoding /\ pending = None
  /\ Count # 1 /\ index = MaxU32
  /\ NoFrame("Bcur")
  /\ Unread

EncoderDrawn == Encoding /\ DrawUri({UrLenFor(args, fragment, frame)})
-----------------------------------------------------------------------------
(* animate_parts: the lines are shown in a circle.                         *)

NoLines == lines = 0 /\ at = "off" /\ End("Msg") /\ Unread

OneLine == lines = 1 /\ ShowStatic(LineLens)

Listing == lines # None /\ lines > 1

AnimateParts == Listing /\ BeginAnimation /\ Unread

ListFrame ==
  /\ Listing
  /\ TakeFrame(index + 1)
  /\ index' = (index + 1) % lines
  /\ UNCHANGED <<cliVars, pending, size, interval, lines>>

ListDrawn == Listing /\ DrawUri(LineLens)
-----------------------------------------------------------------------------
Frames ==
  \/ PendingFrame \/ EncoderFrame \/ EncoderEnds \/ EncoderDrawn
  \/ ListFrame \/ ListDrawn

Begin == StaticUri \/ AnimateEncoder \/ NoLines \/ OneLine \/ AnimateParts

Program ==
  \/ Begin \/ Frames
  \/ (Guard \/ Wait \/ DrawFails("Io")) /\ Unread

ShowNext == Command \/ Program \/ (Press /\ Unread)

(* The program runs, time passes, and it is not held up for all of every    *)
(* interval between the first look at the clock and the poll.              *)
ShowSpec ==
  /\ ShowInit /\ [][ShowNext]_showVars
  /\ WF_showVars(Command)
  /\ WF_showVars(Program)
  /\ WF_showVars(Tick /\ Unread)
  /\ SF_showVars(HandleKey /\ Unread)
-----------------------------------------------------------------------------
(* Properties.                                                             *)

(* Every limit on the length of a URI that tty_max_chars takes from a       *)
(* terminal keeps the code of every URI within that terminal: of the single *)
(* one, and of the parts the search has left slack for, which come long     *)
(* after the one that was measured.                                        *)
FramesFit ==
  TtyMaxChars(size) # None /\ args.maxChars \in 1 .. TtyMaxChars(size) =>
    /\ pc = "single" => ~CanRefuse(Modules(SingleLen(args.type, args.len)))
    /\ Encoding /\ Searched /\ at = "draw" /\ frame <= LastInSlack =>
         ~CanRefuse(Modules(UrLenFor(args, fragment, frame)))

Ended == at \in {"leave", "cook", "done"}

Shown(f) == at = "wait" /\ frame = f

(* A step of a stream goes on to the next frame, or to none.               *)
NoneLeftOut == Encoding /\ Count # 1 => frame' \in {frame, frame + 1}

(* An animation of lines that goes on shows every line again and again; one *)
(* of a stream shows its parts from the first on with none left out, the    *)
(* measured one included.                                                  *)
EveryFrameShown ==
  /\ \A n \in Lines : \A f \in 1 .. n :
       (lines = n /\ at = "frame") ~> (Shown(f) \/ Ended)
  /\ [][NoneLeftOut]_showVars

(* The search for a fragment length ends.                                  *)
Decides == lines = None ~> pc \in {"single", "failed", "animation", "text"}
=============================================================================
