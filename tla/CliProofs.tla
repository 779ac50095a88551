------------------------------ MODULE CliProofs ------------------------------
(***************************************************************************)
(* The command line: what the search for a fragment length finds, for all   *)
(* payloads and all limits on the length of a URI; that the terminal is     *)
(* given back; and that the codes of what the search decides fit on it.     *)
(***************************************************************************)
EXTENDS CliShow, FountainPartsProofs, FiniteSetTheorems

LEMMA MidBetween ==
  ASSUME NEW a \in Nat, NEW b \in Nat, a <= b
  PROVE  a + (b - a) \div 2 \in a .. b
OBVIOUS

LEMMA CliInitIInv == CliInit => CliIInv
<1> SUFFICES ASSUME CliInit PROVE CliIInv
  OBVIOUS
<1>1. args.len \in Nat /\ None \notin Nat
  BY RequestsAssumption DEF CliInit
<1> QED BY <1>1 DEF CliInit, CliIInv, CliTypeOK, Bisection

LEMMA FitsKept ==
  ASSUME UNCHANGED args, NEW x
  PROVE  Fits(x)' <=> Fits(x)
BY DEF Fits, FirstLen

LEMMA CliNextIInv == CliIInv /\ [CliNext]_cliVars => CliIInv'
<1> SUFFICES ASSUME CliIInv, [CliNext]_cliVars PROVE CliIInv'
  OBVIOUS
<1> USE DEF CliIInv
<1>0. args \in Requests /\ args.len \in Nat /\ None \notin Nat
      /\ lo \in Nat /\ hi \in Nat /\ args.maxFragment \in Nat \cup {None}
  BY RequestsAssumption DEF CliTypeOK
<1>1. ASSUME UNCHANGED <<args, lo, hi, best>> PROVE Bisection'
  BY <1>1 DEF Bisection, Fits, FirstLen
<1>2. ASSUME NEW next \in {"single", "failed"}, GoTo(next) PROVE CliIInv'
  BY <1>1, <1>2 DEF GoTo, CliTypeOK
<1>3. CASE NoChars \/ ShowSingle \/ NoPayload \/ RefuseFirst
  BY <1>2, <1>3 DEF NoChars, ShowSingle, NoPayload, RefuseFirst
<1>4. CASE GivenFragment
  BY <1>0, <1>1, <1>4 DEF GivenFragment, CliTypeOK, Stream
<1>5. CASE Search
  BY <1>1, <1>5 DEF Search, GoTo, CliTypeOK
<1>6. ASSUME Probing PROVE Mid \in lo .. hi
  BY <1>0, <1>6, MidBetween DEF Probing, Mid
<1>7. CASE ProbeFits
  <2>1. Mid \in lo .. hi /\ Fits(Mid) /\ best' = Mid /\ lo' = Mid + 1
        /\ UNCHANGED <<args, pc, hi, fragment>> /\ pc = "search"
    BY <1>6, <1>7 DEF ProbeFits, Probing
  <2> DEFINE m == Mid
  <2>2. m \in lo .. hi /\ Fits(m) /\ best' = m /\ lo' = m + 1
    BY <2>1
  <2> HIDE DEF m
  <2>3. m \in Nat \ {0} /\ m <= args.len
    BY <1>0, <2>2 DEF CliTypeOK
  <2>4. CliTypeOK'
    BY <1>0, <2>1, <2>2, <2>3 DEF CliTypeOK
  <2>5. Bisection'
    BY <1>0, <2>1, <2>2, <2>3 DEF Bisection, Fits, FirstLen
  <2> QED BY <2>1, <2>4, <2>5
<1>8. CASE ProbeTooLong
  <2>1. Mid \in lo .. hi /\ ~Fits(Mid) /\ hi' = Mid - 1
        /\ UNCHANGED <<args, pc, lo, best, fragment>> /\ pc = "search"
    BY <1>6, <1>8 DEF ProbeTooLong, Probing
  <2> DEFINE m == Mid
  <2>2. m \in lo .. hi /\ ~Fits(m) /\ hi' = m - 1
    BY <2>1
  <2> HIDE DEF m
  <2>3. m \in Nat \ {0} /\ m <= args.len
    BY <1>0, <2>2 DEF CliTypeOK
  <2>4. CliTypeOK'
    BY <1>0, <2>1, <2>2, <2>3 DEF CliTypeOK
  <2>5. Bisection'
    <3>1. hi' + 1 = m /\ lo' <= hi' + 1
      BY <2>1, <2>2, <2>3
    <3> QED BY <2>1, <2>2, <3>1 DEF Bisection, Fits, FirstLen
  <2> QED BY <2>1, <2>4, <2>5
<1>9. CASE Found
  <2>1. /\ pc = "search" /\ lo > hi /\ fragment' = best
        /\ pc' = IF best = None THEN "failed" ELSE "encoder"
        /\ UNCHANGED <<args, lo, hi, best>>
    BY <1>9 DEF Found
  <2>2. best # None => best \in 1 .. args.len
    BY DEF CliTypeOK
  <2>3. CliTypeOK'
    BY <1>0, <2>1, <2>2 DEF CliTypeOK
  <2> QED BY <1>0, <1>1, <2>1, <2>2, <2>3
<1>10. CASE Animate \/ PrintParts
  BY <1>1, <1>10 DEF Animate, PrintParts, GoTo, CliTypeOK
<1>11. CASE UNCHANGED cliVars
  BY <1>1, <1>11 DEF cliVars, CliTypeOK
<1> QED BY <1>3, <1>4, <1>5, <1>7, <1>8, <1>9, <1>10, <1>11 DEF CliNext, FitFragmentLen

(***************************************************************************)
(* The invariant: what the search has learned bounds its interval.          *)
(***************************************************************************)
THEOREM CliInvariance == CliSpec => []CliIInv
BY CliInitIInv, CliNextIInv, PTL DEF CliSpec

LEMMA FoundIsLargest == CliIInv => LocallyLargest
<1> SUFFICES ASSUME CliIInv, Searched PROVE LocallyLargest
  BY DEF LocallyLargest
<1>1. lo > hi /\ fragment = best /\ fragment \in Nat \ {0} /\ None \notin Nat
  BY RequestsAssumption DEF CliIInv, Searched
<1>2. best \in 1 .. args.len /\ Fits(best) /\ lo \in Nat /\ hi \in Nat
      /\ args.len \in Nat
  BY <1>1, RequestsAssumption DEF CliIInv, CliTypeOK, Bisection
<1>3. best = lo - 1 /\ lo = hi + 1
  BY <1>1, <1>2 DEF CliIInv, Bisection
<1>4. best = hi
  BY <1>2, <1>3
<1> QED BY <1>1, <1>2, <1>4 DEF LocallyLargest, CliIInv, Bisection

(* The fragment length of the search fits and cannot be longer by one,     *)
(* whether or not the length of a URI grows with the fragments.            *)
THEOREM LocallyLargestHolds == CliSpec => []LocallyLargest
BY CliInvariance, FoundIsLargest, PTL

(* Text mode covers the message unless the caller asked for fewer parts.   *)
THEOREM EnoughPrintedHolds == CliSpec => []EnoughPrinted
<1>1. CliIInv => EnoughPrinted
  <2> SUFFICES ASSUME CliIInv, pc = "text", args.count = None
               PROVE  Planned >= CountFor(args, fragment)
    BY DEF EnoughPrinted
  <2> DEFINE f == FragmentLength(args.len, fragment)
             k == CountFor(args, fragment)
  <2>1. args.len \in Nat \ {0} /\ args.len <= MaxU32 /\ fragment \in Nat \ {0}
        /\ MaxU32 \in Nat
    BY RequestsAssumption DEF CliIInv, CliTypeOK
  <2>2. f \in Nat \ {0}
    BY <2>1, FragmentLengthProperties
  <2>3. k \in 1 .. args.len
    <3> HIDE DEF f
    <3> QED BY <2>1, <2>2, FragmentCountProperties DEF f, CountFor
  <2>4. Planned = IF Triple(k) > 20 THEN Triple(k) ELSE 20
    BY DEF Planned
  <2> HIDE DEF k
  <2>5. Triple(k) >= k /\ Triple(k) \in Nat
    BY <2>1, <2>3 DEF Triple
  <2> QED BY <2>3, <2>4, <2>5 DEF k
<1> QED BY <1>1, CliInvariance, PTL
-----------------------------------------------------------------------------
(* The slack.                                                              *)

LEMMA DigitsType ==
  ASSUME NEW n \in Nat
  PROVE  Digits(n) \in Nat
<1> DEFINE D == {k \in 2 .. 10 : PowersOfTen[k] <= n}
<1>1. IsFiniteSet(2 .. 10)
  <2>1. 2 \in Int /\ 10 \in Int
    OBVIOUS
  <2> QED BY <2>1, FS_Interval
<1>2. D \subseteq 2 .. 10
  OBVIOUS
<1> HIDE DEF D
<1>3. Cardinality(D) \in Nat
  BY <1>1, <1>2, FS_Subset, FS_CardinalityType
<1> QED BY <1>3 DEF Digits, D

LEMMA DigitsWithinSlack ==
  ASSUME NEW n \in 1 .. LastInSlack
  PROVE  Digits(n) \in 1 .. 5
<1> DEFINE D == {k \in 2 .. 10 : PowersOfTen[k] <= n}
<1>1. D \subseteq 2 .. 5
  <2>1. n <= 99999 /\ n \in Nat
    BY SMT DEF LastInSlack
  <2> QED BY <2>1, SMT DEF PowersOfTen
<1>2. IsFiniteSet(2 .. 5) /\ Cardinality(2 .. 5) = 4
  <2>1. 2 \in Int /\ 5 \in Int
    OBVIOUS
  <2>2. Cardinality(2 .. 5) = IF 2 > 5 THEN 0 ELSE 5 - 2 + 1
    BY <2>1, FS_Interval
  <2>3. IsFiniteSet(2 .. 5)
    BY <2>1, FS_Interval
  <2>4. (IF 2 > 5 THEN 0 ELSE 5 - 2 + 1) = 4
    OBVIOUS
  <2> QED BY <2>2, <2>3, <2>4
<1> HIDE DEF D
<1>3. Cardinality(D) \in Nat /\ Cardinality(D) <= 4
  BY <1>1, <1>2, FS_Subset, FS_CardinalityType
<1>4. Digits(n) = 1 + Cardinality(D)
  BY DEF Digits, D
<1> QED BY <1>3, <1>4

LEMMA FirstDigits == Digits(1) = 1
<1>1. {k \in 2 .. 10 : PowersOfTen[k] <= 1} = {}
  BY SMT DEF PowersOfTen
<1> QED BY <1>1, FS_EmptySet DEF Digits

(* The length of a part's URI is that of the first one, and what the       *)
(* sequence number adds.                                                   *)
LEMMA SequenceCost ==
  ASSUME NEW r \in Requests, NEW max \in Nat \ {0}, r.len # 0,
         NEW seq \in 1 .. LastInSlack
  PROVE  /\ UrLenFor(r, max, 1) \in Nat /\ UrLenFor(r, max, seq) \in Nat
         /\ UrLenFor(r, max, seq) <= UrLenFor(r, max, 1) + PartLenSlack
<1> DEFINE f == FragmentLength(r.len, max)
           k == CountFor(r, max)
           p(s) == [seq |-> s, count |-> k, mlen |-> r.len, crc |-> r.crc,
                    data |-> [len |-> f]]
<1>1. r.len \in Nat \ {0} /\ r.crc \in Nat /\ TypeLen[r.type] \in Nat
  BY RequestsAssumption
<1>2. f \in Nat \ {0}
  <2>1. f \in 1 .. max
    BY <1>1, FragmentLengthProperties
  <2> HIDE DEF f
  <2> QED BY <2>1
<1>3. k \in Nat
  <2>1. k = FragmentCount(r.len, f)
    BY DEF CountFor
  <2> HIDE DEF f, k
  <2>2. k \in 1 .. r.len
    BY <1>1, <1>2, <2>1, FragmentCountProperties
  <2> QED BY <2>2
<1> HIDE DEF f, k
<1>4. CASE k = 1
  <2>1. UrLenFor(r, max, seq) = SingleLen(r.type, r.len)
        /\ UrLenFor(r, max, 1) = SingleLen(r.type, r.len)
    BY <1>4 DEF UrLenFor, k
  <2>2. SingleLen(r.type, r.len) \in Nat
    BY <1>1 DEF SingleLen, BytewordsLen
  <2> QED BY <2>1, <2>2 DEF PartLenSlack
<1>5. CASE k # 1
  <2> DEFINE rest == 1 + CborHead(k) + CborHead(r.len) + CborHead(r.crc)
                       + CborHead(f) + f
  <2>1. ASSUME NEW n \in Nat PROVE CborHead(n) \in 1 .. 5
    BY DEF CborHead
  <2>2. rest \in Nat
    BY <1>1, <1>2, <1>3, <2>1
  <2>3. ASSUME NEW s \in Nat
        PROVE  PartCborLen(p(s)) = rest + CborHead(s)
    BY <1>1, <1>2, <1>3, <2>1 DEF PartCborLen
  <2>4. Digits(k) \in Nat
    BY <1>3, DigitsType
  <2> HIDE DEF rest
  <2>5. ASSUME NEW s \in Nat, Digits(s) \in Nat
        PROVE  UrLenFor(r, max, s)
                 = 6 + TypeLen[r.type] + Digits(s) + Digits(k) + 2 * (rest + CborHead(s) + 4)
    <3>1. UrLenFor(r, max, s) = MultiLen(r.type, p(s))
      BY <1>5 DEF UrLenFor, k, f
    <3>2. p(s).seq = s /\ p(s).count = k
      OBVIOUS
    <3> QED BY <2>3, <2>5, <3>1, <3>2 DEF MultiLen, BytewordsLen
  <2>6. Digits(seq) \in 1 .. 5 /\ Digits(1) = 1
    BY DigitsWithinSlack, FirstDigits
  <2>7. CborHead(1) = 1 /\ CborHead(seq) \in 1 .. 5
        /\ seq \in Nat /\ CborHead(seq) \in Nat
    BY <2>1 DEF CborHead, LastInSlack
  <2>8. UrLenFor(r, max, seq)
          = 6 + TypeLen[r.type] + Digits(seq) + Digits(k) + 2 * (rest + CborHead(seq) + 4)
    BY <2>5, <2>6, <2>7
  <2>9. UrLenFor(r, max, 1)
          = 6 + TypeLen[r.type] + 1 + Digits(k) + 2 * (rest + 1 + 4)
    BY <2>5, <2>6, <2>7
  <2> QED BY <1>1, <2>2, <2>4, <2>6, <2>7, <2>8, <2>9 DEF PartLenSlack
<1> QED BY <1>4, <1>5

(* A slack of twelve characters is enough for sequence numbers of up to    *)
(* five digits, for every payload, type and limit.                         *)
THEOREM EarlyPartsFitHolds == CliSpec => []EarlyPartsFit
<1>1. CliIInv /\ LocallyLargest => EarlyPartsFit
  <2> SUFFICES ASSUME CliIInv, LocallyLargest, Searched, NEW seq \in 1 .. LastInSlack
               PROVE  UrLenFor(args, fragment, seq) <= args.maxChars
    BY DEF EarlyPartsFit
  <2>1. args \in Requests /\ args.len # 0 /\ fragment \in Nat \ {0}
    BY DEF CliIInv, CliTypeOK, Searched
  <2>2. UrLenFor(args, fragment, 1) + PartLenSlack <= args.maxChars
    BY DEF LocallyLargest, Fits, FirstLen
  <2>3. UrLenFor(args, fragment, seq) <= UrLenFor(args, fragment, 1) + PartLenSlack
    BY <2>1, SequenceCost
  <2>4. args.maxChars \in Nat
    BY <2>1, RequestsAssumption
  <2>5. UrLenFor(args, fragment, 1) \in Nat /\ UrLenFor(args, fragment, seq) \in Nat
    BY <2>1, SequenceCost
  <2> QED BY <2>2, <2>3, <2>4, <2>5 DEF PartLenSlack
<1> QED BY <1>1, CliInvariance, LocallyLargestHolds, PTL
-----------------------------------------------------------------------------
(* The terminal.                                                           *)

TerminalInv ==
  /\ at \in {"off", "enter", "raw", "frame", "draw", "wait", "leave", "cook", "done"}
  /\ raw \in BOOLEAN
  /\ at \in {"off", "enter"} => screen = "main" /\ raw = FALSE
  /\ at = "raw" => raw = FALSE
  /\ at = "cook" => screen = "main" \/ "screen" \in stuck
  /\ Restored

LEMMA EndRestored ==
  ASSUME NEW r, screen = "main", raw = FALSE, End(r)
  PROVE  TerminalInv'
BY DEF End, TerminalInv, Restored

LEMMA ShownStepRestored ==
  ASSUME TerminalInv, UNCHANGED <<screen, raw, stuck>>, at \notin {"cook", "done"},
         at' = at \/ (at # "raw" /\ at' \in {"frame", "draw", "wait", "leave"})
                  \/ (at = "off" /\ at' = "enter")
  PROVE  TerminalInv'
BY DEF TerminalInv, Restored

LEMMA ShowNextRestored == TerminalInv /\ [ShowNext]_showVars => TerminalInv'
<1> SUFFICES ASSUME TerminalInv, [ShowNext]_showVars PROVE TerminalInv'
  OBVIOUS
<1>1. CASE UNCHANGED terminal
  BY <1>1 DEF terminal, TerminalInv, Restored
<1>2. ASSUME NEW lens, ShowStatic(lens)
      PROVE  TerminalInv'
  <2>1. PICK r : at = "off" /\ End(r)
    BY <1>2 DEF ShowStatic
  <2> QED BY <2>1, EndRestored DEF TerminalInv
<1>3. CASE BeginAnimation
  <2>1. CASE End("NotATty")
    BY <1>3, <2>1, EndRestored DEF BeginAnimation, TerminalInv
  <2> QED BY <1>3, <2>1, ShownStepRestored DEF BeginAnimation
<1>4. ASSUME NEW f, TakeFrame(f) \/ NoFrame(f) \/ Draw(f) \/ DrawFails(f)
      PROVE  TerminalInv'
  BY <1>4, ShownStepRestored DEF TakeFrame, NoFrame, Draw, DrawFails, Leave
<1>5. CASE EnterScreen
  <2>1. CASE End("Io")
    BY <1>5, <2>1, EndRestored DEF EnterScreen, TerminalInv
  <2> QED BY <1>5, <2>1 DEF EnterScreen, TerminalInv, Restored
<1>6. CASE EnableRaw
  <2>1. raw = FALSE
    BY <1>6 DEF EnableRaw, TerminalInv
  <2>2. CASE at' = "frame"
    <3>1. raw' = TRUE
      BY <1>6, <2>2 DEF EnableRaw
    <3> QED BY <2>2, <3>1 DEF TerminalInv, Restored
  <2>3. CASE at' # "frame"
    <3>1. /\ at' = "done" /\ raw' = FALSE
          /\ screen' = "main" \/ "screen" \in stuck'
      BY <1>6, <2>1, <2>3 DEF EnableRaw, Restore
    <3> QED BY <3>1 DEF TerminalInv, Restored
  <2> QED BY <2>2, <2>3
<1>7. CASE LeaveScreen
  BY <1>7 DEF LeaveScreen, Restore, TerminalInv, Restored
<1>8. CASE DisableRaw
  BY <1>8 DEF DisableRaw, Restore, TerminalInv, Restored
<1>9. CASE Wait \/ Press
  BY <1>9, ShownStepRestored DEF Wait, HandleKey, PollFails, Leave, Tick, Deadline, Press
<1>10. CASE NoLines
  BY <1>10, EndRestored DEF NoLines, TerminalInv
<1>11. CASE Begin
  BY <1>2, <1>3, <1>10, <1>11 DEF Begin, StaticUri, AnimateEncoder, OneLine, AnimateParts
<1>12. CASE Frames
  BY <1>4, <1>12 DEF Frames, PendingFrame, EncoderFrame, EncoderEnds, EncoderDrawn, ListFrame,
     ListDrawn, DrawUri
<1>13. CASE Program
  BY <1>4, <1>5, <1>6, <1>7, <1>8, <1>9, <1>11, <1>12, <1>13 DEF Program, Guard
<1> QED BY <1>1, <1>9, <1>13 DEF ShowNext, Command, show, showVars

LEMMA ShowInitRestored == ShowInit => TerminalInv
BY DEF ShowInit, TerminalInit, TerminalInv, Restored

(***************************************************************************)
(* However the animation ends, the screen and the mode of the terminal are  *)
(* what they were, but for an operation that itself failed.                *)
(***************************************************************************)
THEOREM RestoredHolds == ShowSpec => []Restored
<1>1. TerminalInv => Restored
  BY DEF TerminalInv
<1> QED BY <1>1, ShowInitRestored, ShowNextRestored, PTL DEF ShowSpec
-----------------------------------------------------------------------------
(* The codes.                                                              *)

LEMMA Table ==
  /\ Versions = 1 .. 10
  /\ \A v \in 1 .. 10 :
       /\ AlnumQCapacity[v][1] = 17 + 4 * v
       /\ AlnumQCapacity[v][2] =
            IF v = 1 THEN 16 ELSE IF v = 2 THEN 29 ELSE IF v = 3 THEN 47 ELSE IF v = 4 THEN 67
            ELSE IF v = 5 THEN 87 ELSE IF v = 6 THEN 108 ELSE IF v = 7 THEN 125
            ELSE IF v = 8 THEN 157 ELSE IF v = 9 THEN 177 ELSE 207
<1>1. \A v \in 1 .. 10 : v = 1 \/ v = 2 \/ v = 3 \/ v = 4 \/ v = 5 \/ v = 6 \/ v = 7 \/ v = 8
                         \/ v = 9 \/ v = 10
  OBVIOUS
<1>2. /\ Versions = 1 .. 10
      /\ AlnumQCapacity[1] = <<21, 16>> /\ AlnumQCapacity[2] = <<25, 29>>
      /\ AlnumQCapacity[3] = <<29, 47>> /\ AlnumQCapacity[4] = <<33, 67>>
      /\ AlnumQCapacity[5] = <<37, 87>> /\ AlnumQCapacity[6] = <<41, 108>>
      /\ AlnumQCapacity[7] = <<45, 125>> /\ AlnumQCapacity[8] = <<49, 157>>
      /\ AlnumQCapacity[9] = <<53, 177>> /\ AlnumQCapacity[10] = <<57, 207>>
  BY DEF Versions, AlnumQCapacity
<1> QED BY <1>1, <1>2

LEMMA Growing ==
  \A v, w \in 1 .. 10 :
    /\ AlnumQCapacity[v][2] \in Nat
    /\ v < w => AlnumQCapacity[v][2] < AlnumQCapacity[w][2]
BY Table

(* The code counts on no more room in a version than there is.             *)
LEMMA Room ==
  /\ DOMAIN QrCapacity = 1 .. 10
  /\ \A v \in 1 .. 10 : QrCapacity[v] \in Nat /\ AlnumQCapacity[v][2] <= QrCapacity[v]
  /\ \A v, w \in 1 .. 10 : v < w => QrCapacity[v] < QrCapacity[w]
<1>1. \A v \in 1 .. 10 : v = 1 \/ v = 2 \/ v = 3 \/ v = 4 \/ v = 5 \/ v = 6 \/ v = 7 \/ v = 8
                         \/ v = 9 \/ v = 10
  OBVIOUS
<1>2. /\ DOMAIN QrCapacity = 1 .. 10
      /\ QrCapacity[1] = 16 /\ QrCapacity[2] = 29 /\ QrCapacity[3] = 47
      /\ QrCapacity[4] = 67 /\ QrCapacity[5] = 87 /\ QrCapacity[6] = 108
      /\ QrCapacity[7] = 125 /\ QrCapacity[8] = 157 /\ QrCapacity[9] = 189
      /\ QrCapacity[10] = 221
  BY DEF QrCapacity
<1>3. \A v \in 1 .. 10 :
        QrCapacity[v] = IF v = 9 THEN 189 ELSE IF v = 10 THEN 221 ELSE AlnumQCapacity[v][2]
  BY <1>1, <1>2, Table
<1>4. \A v \in 1 .. 10 : QrCapacity[v] \in Nat /\ AlnumQCapacity[v][2] <= QrCapacity[v]
  BY <1>3, Table
<1>5. \A v, w \in 1 .. 10 : v < w => QrCapacity[v] < QrCapacity[w]
  BY <1>3, Table
<1> QED BY <1>2, <1>4, <1>5

(* A set of versions that has, with any of them, all smaller ones.         *)
LEMMA SmallestVersions ==
  ASSUME NEW S \in SUBSET (1 .. 10), \A v \in S : \A w \in 1 .. 10 : w < v => w \in S
  PROVE  Cardinality(S) \in 0 .. 10 /\ S = 1 .. Cardinality(S)
<1>1. PICK k \in 0 .. 10 : (k = 0 \/ k \in S) /\ (k = 10 \/ k + 1 \notin S)
  <2>1. CASE 1 \notin S
    BY <2>1
  <2>2. CASE 10 \in S
    BY <2>2
  <2>3. CASE 1 \in S /\ 10 \notin S
    <3>1. \/ (1 \in S /\ 2 \notin S) \/ (2 \in S /\ 3 \notin S) \/ (3 \in S /\ 4 \notin S)
          \/ (4 \in S /\ 5 \notin S) \/ (5 \in S /\ 6 \notin S) \/ (6 \in S /\ 7 \notin S)
          \/ (7 \in S /\ 8 \notin S) \/ (8 \in S /\ 9 \notin S) \/ (9 \in S /\ 10 \notin S)
      BY <2>3
    <3> QED BY <3>1
  <2> QED BY <2>1, <2>2, <2>3
<1>2. S = 1 .. k
  <2>1. ASSUME NEW v \in S PROVE v \in 1 .. k
    BY <1>1
  <2>2. ASSUME NEW v \in 1 .. k PROVE v \in S
    BY <1>1
  <2> QED BY <2>1, <2>2
<1>3. Cardinality(1 .. k) = IF 1 > k THEN 0 ELSE k - 1 + 1
  BY FS_Interval
<1> QED BY <1>2, <1>3

(* The versions that a terminal shows are the smallest ones, and the largest *)
(* of them gives the limit.                                                *)
LEMMA LargestVersion ==
  ASSUME NEW s \in Nat \X Nat, TtyMaxChars(s) # None
  PROVE  \E a \in 1 .. 10 :
           /\ 17 + 4 * a <= MaxModules(s)
           /\ TtyMaxChars(s) = AlnumQCapacity[a][2]
<1> DEFINE fitting == {v \in Versions : AlnumQCapacity[v][1] <= MaxModules(s)}
           a == Cardinality(fitting)
<1>1. MaxModules(s) \in Nat
  BY DEF MaxModules, Minus
<1>2. a \in 0 .. 10 /\ fitting = 1 .. a
  <2>1. fitting \subseteq 1 .. 10 /\ \A v \in fitting : \A w \in 1 .. 10 : w < v => w \in fitting
    BY <1>1, Table
  <2> HIDE DEF fitting
  <2> QED BY <2>1, SmallestVersions
<1>3. fitting # {} /\ TtyMaxChars(s) = AlnumQCapacity[a][2]
  BY DEF TtyMaxChars
<1>4. fitting = {v \in 1 .. 10 : 17 + 4 * v <= MaxModules(s)}
  BY Table
<1> HIDE DEF fitting, a
<1>5. a \in 1 .. 10
  <2>1. a # 0
    <3> SUFFICES ASSUME a = 0 PROVE FALSE
      OBVIOUS
    <3> QED BY <1>2, <1>3
  <2> QED BY <1>2, <2>1
<1>6. a \in fitting
  BY <1>2, <1>5
<1>7. 17 + 4 * a <= MaxModules(s)
  BY <1>4, <1>6
<1> QED BY <1>3, <1>5, <1>7

LEMMA TtyMaxCharsType ==
  ASSUME NEW s \in Nat \X Nat, TtyMaxChars(s) # None
  PROVE  TtyMaxChars(s) \in Nat
BY LargestVersion, Growing

(* The code of a URI that is no longer than a terminal holds is a version   *)
(* that the terminal shows.                                                *)
LEMMA CodeFits ==
  ASSUME NEW s \in Nat \X Nat, TtyMaxChars(s) # None, NEW len \in Nat, len <= TtyMaxChars(s)
  PROVE  Modules(len) # None /\ FitsOn(s, Modules(len))
<1> DEFINE small == {v \in DOMAIN QrCapacity : QrCapacity[v] < len}
           b == Cardinality(small)
<1>1. PICK a \in 1 .. 10 : 17 + 4 * a <= MaxModules(s) /\ TtyMaxChars(s) = AlnumQCapacity[a][2]
  BY LargestVersion
<1>2. b \in 0 .. 10 /\ small = 1 .. b
  <2>1. small \subseteq 1 .. 10 /\ \A v \in small : \A w \in 1 .. 10 : w < v => w \in small
    BY Room
  <2> HIDE DEF small
  <2> QED BY <2>1, SmallestVersions
<1>3. Modules(len) = IF small = DOMAIN QrCapacity THEN None ELSE 17 + 4 * (b + 1)
  BY DEF Modules
<1>4. a \notin small
  <2>1. QrCapacity[a] \in Nat /\ ~(QrCapacity[a] < len)
    BY <1>1, Growing, Room
  <2> QED BY <2>1
<1> HIDE DEF small, b
<1>5. b + 1 \in 1 .. a
  <2>1. b < a
    BY <1>2, <1>4
  <2> QED BY <1>2, <2>1
<1>6. small # DOMAIN QrCapacity
  BY <1>4, Room
<1>7. Modules(len) = 17 + 4 * (b + 1)
  BY <1>3, <1>6
<1>8. MaxModules(s) \in Nat /\ 17 + 4 * (b + 1) <= MaxModules(s)
  BY <1>1, <1>5 DEF MaxModules, Minus
<1>9. ASSUME NEW m \in Nat \ {0}, m <= MaxModules(s)
      PROVE  FitsOn(s, m)
  BY <1>9 DEF MaxModules, Minus, FitsOn
<1>10. Modules(len) \in Nat \ {0} /\ Modules(len) <= MaxModules(s)
  BY <1>2, <1>7, <1>8
<1> QED BY <1>9, <1>10, RequestsAssumption
-----------------------------------------------------------------------------
(* The frames of an encoder are numbered from 1 on, and while they are      *)
(* shown the command line is not read any further.                         *)

SizeInv == size \in Nat \X Nat

SingleInv == pc = "single" => OneUri

FrameInv ==
  lines = None =>
    /\ at \notin {"off", "done"} => pc = "animation"
    /\ index \in Nat /\ pending \in {1, None} /\ frame \in Nat
    /\ at = "draw" /\ Count # 1 => frame # 0

LEMMA ShowInitFrames == ShowInit => CliIInv /\ SizeInv /\ SingleInv /\ FrameInv
<1> SUFFICES ASSUME ShowInit PROVE CliIInv /\ SizeInv /\ SingleInv /\ FrameInv
  OBVIOUS
<1>1. CliIInv
  BY CliInitIInv DEF ShowInit
<1>2. SizeInv
  BY ShowAssumption DEF ShowInit, IfUsed, SizeInv
<1>3. SingleInv /\ FrameInv
  BY DEF ShowInit, CliInit, TerminalInit, SingleInv, FrameInv
<1> QED BY <1>1, <1>2, <1>3

LEMMA ProgramFrame == Program \/ (Press /\ Unread) => UNCHANGED <<cliVars, size, lines>>
BY DEF Program, Begin, Frames, StaticUri, ShowStatic, AnimateEncoder, NoLines, OneLine,
   AnimateParts, PendingFrame, EncoderFrame, EncoderEnds, EncoderDrawn, DrawUri, ListFrame,
   ListDrawn, Unread

LEMMA ShowNextCli ==
  CliIInv /\ SizeInv /\ SingleInv /\ [ShowNext]_showVars => CliIInv' /\ SizeInv' /\ SingleInv'
<1> SUFFICES ASSUME CliIInv, SizeInv, SingleInv, [ShowNext]_showVars
             PROVE  CliIInv' /\ SizeInv' /\ SingleInv'
  OBVIOUS
<1>1. [CliNext]_cliVars /\ size' = size
  BY ProgramFrame DEF ShowNext, Command, showVars
<1>2. CliIInv'
  BY <1>1, CliNextIInv
<1>3. SizeInv'
  BY <1>1 DEF SizeInv
<1>4. args' = args
  BY <1>1 DEF CliNext, cliVars, GoTo, NoChars, ShowSingle, NoPayload, GivenFragment, Search,
     FitFragmentLen, ProbeFits, ProbeTooLong, Found, RefuseFirst, Animate, PrintParts
<1>5. pc' = "single" => pc = "single" \/ OneUri
  BY <1>1 DEF CliNext, cliVars, GoTo, NoChars, ShowSingle, NoPayload, GivenFragment, Search,
     FitFragmentLen, ProbeFits, ProbeTooLong, Found, RefuseFirst, Animate, PrintParts
<1> QED BY <1>2, <1>3, <1>4, <1>5 DEF SingleInv, OneUri

LEMMA ShowNextFrames == FrameInv /\ [ShowNext]_showVars => FrameInv'
<1> SUFFICES ASSUME FrameInv, [ShowNext]_showVars, lines' = None PROVE FrameInv'
  BY DEF FrameInv
<1>0. lines' = lines
  BY ProgramFrame DEF ShowNext, Command, showVars
<1>1. /\ at \notin {"off", "done"} => pc = "animation"
      /\ index \in Nat /\ pending \in {1, None} /\ frame \in Nat
      /\ at = "draw" /\ Count # 1 => frame # 0
  BY <1>0 DEF FrameInv
<1>2. ASSUME UNCHANGED <<index, pending, frame, cliVars>>,
             at' \in {at, "done"} \/ (at \notin {"off", "done"} /\ at' # "draw")
                \/ (at = "draw" /\ at' = "draw")
      PROVE  FrameInv'
  <2>1. Count' = Count /\ pc' = pc
    BY <1>2 DEF cliVars, Count
  <2> QED BY <1>1, <1>2, <2>1 DEF FrameInv
<1>3. CASE Command
  <2>1. at \notin {"off", "done"} => ~CliNext
    BY <1>1 DEF CliNext, GoTo, NoChars, ShowSingle, NoPayload, GivenFragment, Search, Stream,
       FitFragmentLen, Probing, ProbeFits, ProbeTooLong, Found, RefuseFirst, Animate, PrintParts
  <2> QED BY <1>1, <1>3, <2>1 DEF Command, show, terminal, FrameInv
<1>4. CASE UNCHANGED showVars
  BY <1>2, <1>4 DEF showVars, show, terminal
<1>5. CASE Press /\ Unread
  BY <1>2, <1>5 DEF Press, Unread
<1>6. CASE (Guard \/ Wait \/ DrawFails("Io")) /\ Unread
  BY <1>2, <1>6 DEF Guard, EnterScreen, EnableRaw, LeaveScreen, DisableRaw, End, Wait, Tick,
     HandleKey, PollFails, Deadline, DrawFails, Leave, Unread
<1>7. CASE StaticUri \/ NoLines \/ OneLine
  BY <1>2, <1>7 DEF StaticUri, NoLines, OneLine, ShowStatic, End, Unread
<1>8. CASE AnimateParts \/ ListFrame \/ ListDrawn
  BY <1>0, <1>8 DEF AnimateParts, ListFrame, ListDrawn, Listing
<1>9. CASE AnimateEncoder
  BY <1>1, <1>9 DEF AnimateEncoder, Encoding, BeginAnimation, End, FrameInv, cliVars
<1>10. CASE PendingFrame
  BY <1>1, <1>10 DEF PendingFrame, TakeFrame, FrameInv, cliVars, Encoding
<1>11. CASE EncoderFrame
  <2>1. /\ frame' \in Nat /\ index' = frame'
        /\ Count # 1 => frame' # 0
        /\ pending' = pending /\ UNCHANGED cliVars
    BY <1>1, <1>11 DEF EncoderFrame, TakeFrame
  <2>2. Count' = Count /\ pc' = "animation"
    BY <1>11, <2>1 DEF cliVars, Count, EncoderFrame, Encoding
  <2> QED BY <1>1, <2>1, <2>2 DEF FrameInv
<1>12. CASE EncoderEnds \/ EncoderDrawn
  BY <1>2, <1>12 DEF EncoderEnds, EncoderDrawn, NoFrame, Leave, DrawUri, Draw, DrawFails, Unread
<1>13. CASE Program
  BY <1>6, <1>7, <1>8, <1>9, <1>10, <1>11, <1>12, <1>13 DEF Program, Begin, Frames
<1> QED BY <1>3, <1>4, <1>5, <1>13 DEF ShowNext

(* The part that has been measured is shown or waits; from then on the      *)
(* encoder and the screen are at the same number.                          *)
OrderInv ==
  lines = None =>
    IF at = "off" THEN pending = None /\ index = 0 /\ frame = 0
    ELSE (pending = None /\ index = frame) \/ (pending = 1 /\ index = 1 /\ frame = 0)

LEMMA ShowNextOrder ==
  ASSUME FrameInv, OrderInv, [ShowNext]_showVars
  PROVE  OrderInv' /\ (NoneLeftOut \/ UNCHANGED showVars)
<1> SUFFICES ASSUME lines = None PROVE OrderInv' /\ NoneLeftOut
  <2>1. lines' = lines
    BY ProgramFrame DEF ShowNext, Command, showVars
  <2> QED BY <2>1 DEF OrderInv, NoneLeftOut, Encoding
<1>1. /\ index \in Nat /\ pending \in {1, None} /\ frame \in Nat
      /\ None # 1
      /\ lines' = None
  <2>1. lines' = lines
    BY ProgramFrame DEF ShowNext, Command, showVars
  <2> QED BY <2>1, RequestsAssumption DEF FrameInv
<1>2. IF at = "off" THEN pending = None /\ index = 0 /\ frame = 0
      ELSE (pending = None /\ index = frame) \/ (pending = 1 /\ index = 1 /\ frame = 0)
  BY DEF OrderInv
<1>3. ASSUME UNCHANGED <<index, pending, frame>>, at' = at \/ at' # "off"
      PROVE  OrderInv' /\ NoneLeftOut
  BY <1>1, <1>2, <1>3 DEF OrderInv, NoneLeftOut
<1>4. CASE Command \/ UNCHANGED showVars
  BY <1>3, <1>4 DEF Command, showVars, show, terminal
<1>5. CASE Press /\ Unread
  BY <1>3, <1>5 DEF Press, Unread
<1>6. CASE (Guard \/ Wait \/ DrawFails("Io")) /\ Unread
  BY <1>3, <1>6 DEF Guard, EnterScreen, EnableRaw, LeaveScreen, DisableRaw, End, Wait, Tick,
     HandleKey, PollFails, Deadline, DrawFails, Leave, Unread
<1>7. CASE StaticUri \/ NoLines \/ OneLine
  BY <1>3, <1>7 DEF StaticUri, NoLines, OneLine, ShowStatic, End, Unread
<1>8. CASE AnimateParts \/ ListFrame \/ ListDrawn
  BY <1>8 DEF AnimateParts, ListFrame, ListDrawn, Listing
<1>9. CASE AnimateEncoder
  <2>1. pending' = 1 /\ index' = 1 /\ frame' = frame /\ at = "off" /\ at' # "off"
    BY <1>9 DEF AnimateEncoder, BeginAnimation, End
  <2> QED BY <1>1, <1>2, <2>1 DEF OrderInv, NoneLeftOut
<1>10. CASE PendingFrame
  <2>1. /\ pending = 1 /\ pending' = None /\ index' = index /\ frame' = 1
        /\ at = "frame" /\ at' = "draw"
    BY <1>1, <1>10 DEF PendingFrame, TakeFrame
  <2> QED BY <1>1, <1>2, <2>1 DEF OrderInv, NoneLeftOut
<1>11. CASE EncoderFrame
  <2>1. /\ pending = None /\ pending' = None /\ index' = frame'
        /\ Count # 1 => frame' = index + 1
        /\ at = "frame" /\ at' = "draw"
    BY <1>11 DEF EncoderFrame, TakeFrame
  <2> QED BY <1>1, <1>2, <2>1 DEF OrderInv, NoneLeftOut
<1>12. CASE EncoderEnds \/ EncoderDrawn
  BY <1>3, <1>12 DEF EncoderEnds, EncoderDrawn, NoFrame, Leave, DrawUri, Draw, DrawFails, Unread
<1>13. CASE Program
  BY <1>6, <1>7, <1>8, <1>9, <1>10, <1>11, <1>12, <1>13 DEF Program, Begin, Frames
<1> QED BY <1>4, <1>5, <1>13 DEF ShowNext

(***************************************************************************)
(* An animated stream shows its parts in order with none left out, though   *)
(* the first of them has been taken from the encoder before the animation.  *)
(***************************************************************************)
THEOREM NoneLeftOutHolds == ShowSpec => [][NoneLeftOut]_showVars
<1>1. ShowInit => OrderInv
  BY DEF ShowInit, TerminalInit, OrderInv
<1>2. FrameInv /\ OrderInv /\ [ShowNext]_showVars => OrderInv' /\ [NoneLeftOut]_showVars
  BY ShowNextOrder
<1> QED BY <1>1, <1>2, ShowInitFrames, ShowNextFrames, PTL DEF ShowSpec

(* The length of a URI, of one part and of a part of a stream.              *)
LEMMA SingleLenType ==
  ASSUME NEW r \in Requests
  PROVE  SingleLen(r.type, r.len) \in Nat
BY RequestsAssumption DEF SingleLen, BytewordsLen

(***************************************************************************)
(* On every terminal, with every limit that comes from it, a code that is   *)
(* shown early enough fits: the limit, the slack of the search and the      *)
(* table of the capacities go together.                                    *)
(***************************************************************************)
THEOREM FramesFitHolds == ShowSpec => []FramesFit
<1>1. CliIInv /\ SizeInv /\ SingleInv /\ FrameInv => FramesFit
  <2> SUFFICES ASSUME CliIInv, SizeInv, SingleInv, FrameInv,
                      TtyMaxChars(size) # None, args.maxChars \in 1 .. TtyMaxChars(size)
               PROVE  FramesFit
    BY DEF FramesFit
  <2>1. args \in Requests /\ size \in Nat \X Nat /\ args.maxChars \in Nat
    BY RequestsAssumption DEF CliIInv, CliTypeOK, SizeInv
  <2>2. ASSUME NEW len \in Nat, len <= args.maxChars
        PROVE  ~CanRefuse(Modules(len))
    <3>1. TtyMaxChars(size) \in Nat
      BY <2>1, TtyMaxCharsType
    <3>2. len <= TtyMaxChars(size)
      BY <2>1, <2>2, <3>1
    <3> QED BY <2>1, <3>2, CodeFits DEF CanRefuse
  <2>3. ASSUME pc = "single"
        PROVE  ~CanRefuse(Modules(SingleLen(args.type, args.len)))
    BY <2>1, <2>2, <2>3, SingleLenType DEF SingleInv, OneUri
  <2>4. ASSUME Encoding, Searched, at = "draw", frame <= LastInSlack
        PROVE  ~CanRefuse(Modules(UrLenFor(args, fragment, frame)))
    <3>1. fragment \in Nat \ {0} /\ args.len # 0
      BY <2>4 DEF CliIInv, Encoding
    <3>2. UrLenFor(args, fragment, 1) + PartLenSlack <= args.maxChars
      BY <2>4, FoundIsLargest DEF LocallyLargest, Fits, FirstLen
    <3>3. PICK seq \in 1 .. LastInSlack :
            UrLenFor(args, fragment, frame) = UrLenFor(args, fragment, seq)
      <4>1. CASE Count = 1
        BY <4>1 DEF UrLenFor, Count, LastInSlack
      <4>2. CASE Count # 1
        <5>1. frame \in Nat \ {0}
          BY <2>4, <4>2 DEF FrameInv, Encoding
        <5>2. frame \in 1 .. LastInSlack
          <6>1. frame <= LastInSlack /\ LastInSlack \in Nat
            BY <2>4 DEF LastInSlack
          <6> QED BY <5>1, <6>1
        <5> QED BY <5>2
      <4> QED BY <4>1, <4>2
    <3>4. /\ UrLenFor(args, fragment, 1) \in Nat /\ UrLenFor(args, fragment, seq) \in Nat
          /\ UrLenFor(args, fragment, seq) <= UrLenFor(args, fragment, 1) + PartLenSlack
      BY <2>1, <3>1, SequenceCost
    <3>5. UrLenFor(args, fragment, seq) <= args.maxChars
      BY <2>1, <3>2, <3>4 DEF PartLenSlack
    <3> QED BY <2>2, <3>3, <3>4, <3>5
  <2> QED BY <2>3, <2>4 DEF FramesFit
<1> QED BY <1>1, ShowInitFrames, ShowNextCli, ShowNextFrames, PTL DEF ShowSpec
=============================================================================
