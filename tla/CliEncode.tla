----------------------------- MODULE CliEncode -----------------------------
(***************************************************************************)
(* `bcur encode' of crates/bcur-cli/src/encode.rs: how it decides between   *)
(* one URI and a stream, and how long it makes the fragments.  The binary   *)
(* search of fit_fragment_len is kept probe by probe.                       *)
(***************************************************************************)
EXTENDS UriForms

CONSTANTS
  Requests,       \* command lines [len, crc, type, maxChars, maxFragment, animate, qr, count]
  MaxU32          \* u32::MAX

VARIABLES
  args,           \* the command line
  pc,             \* where run is
  lo, hi, best,   \* the locals of fit_fragment_len
  fragment        \* max_fragment_length, once it is chosen

cliVars == <<args, pc, lo, hi, best, fragment>>

(* maxFragment and count are None when the option is not given.            *)
ASSUME RequestsAssumption ==
  /\ MaxU32 \in Nat
  /\ None \notin Nat
  /\ TypeLen \in [Types -> Nat]
  /\ \A r \in Requests :
       /\ r.len \in 0 .. MaxU32
       /\ r.crc \in Nat
       /\ r.type \in Types
       /\ r.maxChars \in Nat
       /\ r.maxFragment \in Nat \cup {None}
       /\ r.animate \in BOOLEAN
       /\ r.qr \in BOOLEAN
       /\ r.count \in Nat \cup {None}

PartLenSlack == 12

CliInit ==
  /\ args \in Requests
  /\ pc = "start"
  /\ lo = 1 /\ hi = args.len /\ best = None
  /\ fragment = None
-----------------------------------------------------------------------------
(* The encoder made for a fragment length, and the URIs it returns.         *)

CountFor(r, max) == FragmentCount(r.len, FragmentLength(r.len, max))

UrLenFor(r, max, seq) ==
  IF CountFor(r, max) = 1 THEN SingleLen(r.type, r.len)
  ELSE MultiLen(r.type,
         [seq |-> seq, count |-> CountFor(r, max), mlen |-> r.len, crc |-> r.crc,
          data |-> [len |-> FragmentLength(r.len, max)]])

(* measure_part                                                            *)
FirstLen(max) == UrLenFor(args, max, 1)

FaultyFits(max) == FirstLen(max) <= args.maxChars       \* no slack

Fits(max) == FirstLen(max) + PartLenSlack <= args.maxChars
-----------------------------------------------------------------------------
GoTo(next) == pc' = next /\ UNCHANGED <<args, lo, hi, best, fragment>>

NoChars == pc = "start" /\ args.maxChars = 0 /\ GoTo("failed")

OneUri ==
  ~args.animate /\ SingleLen(args.type, args.len) <= args.maxChars

ShowSingle == pc = "start" /\ args.maxChars # 0 /\ OneUri /\ GoTo("single")

Stream == pc = "start" /\ args.maxChars # 0 /\ ~OneUri

NoPayload == Stream /\ args.len = 0 /\ GoTo("failed")

GivenFragment ==
  /\ Stream /\ args.len # 0
  /\ args.maxFragment # None
  /\ fragment' = args.maxFragment
  /\ pc' = IF args.maxFragment = 0 THEN "failed" ELSE "encoder"
  /\ UNCHANGED <<args, lo, hi, best>>

Search == Stream /\ args.len # 0 /\ args.maxFragment = None /\ GoTo("search")
-----------------------------------------------------------------------------
(* fit_fragment_len                                                        *)

Mid == lo + (hi - lo) \div 2

Probing == pc = "search" /\ lo <= hi

FaultyProbeFits ==                      \* the probe stays in the interval
  /\ Probing /\ Fits(Mid)
  /\ best' = Mid
  /\ lo' = Mid
  /\ UNCHANGED <<args, pc, hi, fragment>>

ProbeFits ==
  /\ Probing /\ Fits(Mid)
  /\ best' = Mid
  /\ lo' = Mid + 1
  /\ UNCHANGED <<args, pc, hi, fragment>>

FaultyProbeTooLong ==                   \* one length too many is given up
  /\ Probing /\ ~Fits(Mid)
  /\ hi' = IF Mid <= 2 THEN 0 ELSE Mid - 2
  /\ UNCHANGED <<args, pc, lo, best, fragment>>

ProbeTooLong ==
  /\ Probing /\ ~Fits(Mid)
  /\ hi' = Mid - 1
  /\ UNCHANGED <<args, pc, lo, best, fragment>>

Found ==
  /\ pc = "search" /\ lo > hi
  /\ fragment' = best
  /\ pc' = IF best = None THEN "failed" ELSE "encoder"
  /\ UNCHANGED <<args, lo, hi, best>>

FitFragmentLen == ProbeFits \/ ProbeTooLong \/ Found
-----------------------------------------------------------------------------
(* The encoder is made; in QR mode its first part is measured once more.   *)

RefuseFirst ==
  /\ pc = "encoder" /\ args.qr
  /\ FirstLen(fragment) > args.maxChars
  /\ GoTo("failed")

Animate ==
  /\ pc = "encoder" /\ args.qr
  /\ FirstLen(fragment) <= args.maxChars
  /\ GoTo("animation")

PrintParts == pc = "encoder" /\ ~args.qr /\ GoTo("text")

CliNext ==
  \/ NoChars \/ ShowSingle \/ NoPayload \/ GivenFragment \/ Search
  \/ FitFragmentLen \/ RefuseFirst \/ Animate \/ PrintParts

CliSpec == CliInit /\ [][CliNext]_cliVars /\ WF_cliVars(CliNext)
-----------------------------------------------------------------------------
(* How many parts text mode prints: --count, or max(3K, 20), saturating.   *)

FaultyTriple(k) == (3 * k) % (MaxU32 + 1)       \* wraps around

Triple(k) == IF 3 * k > MaxU32 THEN MaxU32 ELSE 3 * k

Planned ==
  IF args.count # None THEN args.count
  ELSE LET k == Triple(CountFor(args, fragment)) IN IF k > 20 THEN k ELSE 20
-----------------------------------------------------------------------------
(* Properties.                                                             *)

(* What the search returns fits and cannot be made longer by one.          *)
Searched == args.maxFragment = None /\ pc \in {"encoder", "animation", "text"}

LocallyLargest ==
  Searched =>
    /\ fragment \in 1 .. args.len
    /\ Fits(fragment)
    /\ fragment < args.len => ~Fits(fragment + 1)

(* As the comment says: the largest fragment length that fits.             *)
LargestFits ==
  /\ Searched => \A max \in fragment + 1 .. args.len : ~Fits(max)
  /\ pc = "failed" /\ args.len # 0 /\ args.maxChars # 0 /\ args.maxFragment = None =>
       \A max \in 1 .. args.len : ~Fits(max)

(* Text mode prints every fragment at least once unless --count says less. *)
EnoughPrinted ==
  pc = "text" /\ args.count = None => Planned >= CountFor(args, fragment)

(* The last sequence number that the slack allows for: five digits more    *)
(* and four bytes more than the first cost 4 + 8 characters.               *)
LastInSlack == 99999

(* With the fragment length the search returns, no part of the encoder     *)
(* that is made gets longer than the user asked for, up to a sequence      *)
(* number of five digits.                                                  *)
EarlyPartsFit ==
  pc = "encoder" /\ Searched => \A seq \in 1 .. LastInSlack : UrLenFor(args, fragment, seq) <= args.maxChars

(* As the help text says, for all that text mode prints.                   *)
WithinMaxChars ==
  pc = "text" /\ args.maxFragment = None =>
    \A seq \in 1 .. Planned : UrLenFor(args, fragment, seq) <= args.maxChars
-----------------------------------------------------------------------------
(* The inductive invariant behind the properties.                          *)

CliTypeOK ==
  /\ args \in Requests
  /\ pc \in {"start", "single", "search", "encoder", "animation", "text", "failed"}
  /\ lo \in 1 .. args.len + 1
  /\ hi \in 0 .. args.len
  /\ best \in 1 .. args.len \cup {None}
  /\ fragment \in Nat \cup {None}

(* The bisection keeps what it has learned: everything it returns fits,    *)
(* and what bounds the interval from above does not.                       *)
Bisection ==
  /\ lo <= hi + 1
  /\ best = IF lo = 1 THEN None ELSE lo - 1
  /\ best # None => Fits(best)
  /\ hi < args.len => ~Fits(hi + 1)

(* Every variable of the search stays in its type and the bisection keeps  *)
(* its bounds; a program that goes on to an encoder has a fragment length. *)
CliIInv ==
  /\ CliTypeOK
  /\ Bisection
  /\ pc = "search" => args.maxFragment = None
  /\ pc \in {"encoder", "animation", "text"} =>
       /\ fragment \in Nat \ {0}
       /\ args.len # 0
       /\ args.maxFragment = None => lo > hi /\ fragment = best
=============================================================================
