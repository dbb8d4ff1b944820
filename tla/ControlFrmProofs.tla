-------------------------- MODULE ControlFrmProofs --------------------------
(***************************************************************************)
(* The dispatcher, for frames of any length.  The cursor stays at the      *)
(* beginning of a command, and every command is run once, in its turn and  *)
(* with its answers: the invariant is Cursor, and what the recursive       *)
(* function of the boundaries computes is proved by induction.  What the   *)
(* client is told of the reset of the chips is so, and a failure is the    *)
(* last thing it is told: Outcome.  The dispatcher uses the supervision of *)
(* the simulator as SimuExe has it (DispatcherSupervises), so that what is *)
(* proved of SimuExe holds under it; and the FPGA is not written to, nor a *)
(* chip reset, while a simulator runs (ReconfiguresAlone).                 *)
(***************************************************************************)
EXTENDS ControlFrm, WellFoundedInduction, TLAPS

-----------------------------------------------------------------------------
(* Where the commands of a frame end *)

\* Induction over the numbers, for a set
LEMMA NatInduct ==
    ASSUME NEW S, 0 \in S, \A n \in Nat : n \in S => n + 1 \in S
    PROVE  \A n \in Nat : n \in S
<1> DEFINE R == {s \in Nat \X Nat : s[1] < s[2]}
<1>1. IsWellFoundedOn(R, Nat)
  BY NatLessThanWellFounded DEF OpToRel
<1> SUFFICES ASSUME Nat \ S # {} PROVE FALSE
  OBVIOUS
<1>2. PICK n \in Nat \ S : \A m \in Nat \ S : <<m, n>> \notin R
  <2> HIDE DEF R
  <2> QED
    BY <1>1, WFMin
<1>3. \A m \in Nat \ S : ~(m < n)
  BY <1>2
<1>4. n - 1 \in Nat /\ n - 1 \in S
  BY <1>3
<1> QED
  BY <1>4

CommandWords(k) == 2 + ArgWords(frame[k])

LEMMA WordsNat == \A k : CommandWords(k) \in {4, 5}
BY DEF CommandWords, ArgWords

Sums(f, n) == \A k \in 0..n : f[k] = IF k = 0 THEN 0 ELSE f[k - 1] + CommandWords(k)

LEMMA SumsExist == \A n \in Nat : \E f \in [0..n -> Nat] : Sums(f, n)
<1> DEFINE S == {n \in Nat : \E f \in [0..n -> Nat] : Sums(f, n)}
<1>1. 0 \in S
  <2>1. [k \in 0..0 |-> 0] \in [0..0 -> Nat] /\ Sums([k \in 0..0 |-> 0], 0)
    BY DEF Sums
  <2> QED
    BY <2>1
<1>2. ASSUME NEW n \in Nat, n \in S PROVE n + 1 \in S
  <2>1. PICK f \in [0..n -> Nat] : Sums(f, n)
    BY <1>2
  <2> DEFINE g == [k \in 0..n+1 |-> IF k = n + 1 THEN f[n] + CommandWords(n + 1) ELSE f[k]]
  <2>2. g \in [0..n+1 -> Nat]
    BY WordsNat
  <2>3. Sums(g, n + 1)
    <3> SUFFICES ASSUME NEW k \in 0..n+1
                 PROVE  g[k] = IF k = 0 THEN 0 ELSE g[k - 1] + CommandWords(k)
      BY DEF Sums
    <3>1. CASE k = n + 1
      BY <3>1
    <3>2. CASE k # n + 1
      BY <3>2, <2>1 DEF Sums
    <3> QED
      BY <3>1, <3>2
  <2> QED
    BY <2>2, <2>3
<1> HIDE DEF S
<1>3. \A n \in Nat : n \in S
  BY <1>1, <1>2, NatInduct
<1> QED
  BY <1>3 DEF S

LEMMA SumsUnique ==
    ASSUME NEW m \in Nat, NEW n \in Nat, NEW f, NEW g, Sums(f, m), Sums(g, n), m <= n
    PROVE  \A k \in 0..m : f[k] = g[k]
<1> DEFINE S == {k \in Nat : k <= m => f[k] = g[k]}
<1>1. 0 \in S
  BY DEF Sums
<1>2. ASSUME NEW k \in Nat, k \in S PROVE k + 1 \in S
  BY <1>2 DEF Sums
<1> HIDE DEF S
<1>3. \A k \in Nat : k \in S
  BY <1>1, <1>2, NatInduct
<1> QED
  BY <1>3 DEF S

LEMMA BoundaryFacts ==
    /\ Boundary(0) = 0
    /\ \A n \in Nat : Boundary(n) \in Nat /\ Boundary(n + 1) = Boundary(n) + CommandWords(n + 1)
<1> DEFINE Of(n) == CHOOSE f \in [0..n -> Nat] : Sums(f, n)
           End == [n \in Nat |-> Of(n)[n]]
           Recursive(g) == g = [k \in Nat |-> IF k = 0 THEN 0 ELSE g[k - 1] + (2 + ArgWords(frame[k]))]
           end == CHOOSE g : Recursive(g)
<1>1. \A n \in Nat : Of(n) \in [0..n -> Nat] /\ Sums(Of(n), n)
  BY SumsExist
<1> HIDE DEF Of
<1>2. \A n \in Nat : End[n] = IF n = 0 THEN 0 ELSE End[n - 1] + CommandWords(n)
  <2> SUFFICES ASSUME NEW n \in Nat, n # 0
               PROVE  Of(n)[n] = Of(n - 1)[n - 1] + CommandWords(n)
    BY <1>1 DEF Sums
  <2>1. n - 1 \in Nat /\ n - 1 \in 0..n-1
    OBVIOUS
  <2>2. Of(n - 1)[n - 1] = Of(n)[n - 1]
    BY <1>1, <2>1, SumsUnique
  <2>3. Of(n)[n] = Of(n)[n - 1] + CommandWords(n)
    BY <1>1 DEF Sums
  <2> QED
    BY <2>2, <2>3
<1>3. Recursive(End)
  BY <1>2 DEF CommandWords
<1>4. Recursive(end)
  <2> HIDE DEF Recursive
  <2> QED
    BY <1>3
<1>5. end[0] = 0 /\ \A n \in Nat : end[n + 1] = end[n] + CommandWords(n + 1)
  <2> HIDE DEF end
  <2>1. \A n \in Nat : end[n] = IF n = 0 THEN 0 ELSE end[n - 1] + CommandWords(n)
    BY <1>4 DEF CommandWords
  <2> QED
    BY <2>1
<1>6. \A n \in Nat : Boundary(n) = end[n]
  BY DEF Boundary
<1> DEFINE N == {n \in Nat : end[n] \in Nat}
<1> HIDE DEF end
<1>7. \A n \in Nat : n \in N
  <2>1. 0 \in N
    BY <1>5
  <2>2. \A n \in Nat : n \in N => n + 1 \in N
    BY <1>5, WordsNat
  <2> HIDE DEF N
  <2> QED
    BY <2>1, <2>2, NatInduct
<1> QED
  BY <1>5, <1>6, <1>7

LEMMA BoundaryGrows ==
    \A m, n \in Nat : m < n => Boundary(m) + 4 <= Boundary(n)
<1> SUFFICES ASSUME NEW m \in Nat PROVE \A n \in Nat : m < n => Boundary(m) + 4 <= Boundary(n)
  OBVIOUS
<1> DEFINE S == {n \in Nat : m < n => Boundary(m) + 4 <= Boundary(n)}
<1>1. 0 \in S
  OBVIOUS
<1>2. ASSUME NEW n \in Nat, n \in S PROVE n + 1 \in S
  <2>1. Boundary(n + 1) = Boundary(n) + CommandWords(n + 1) /\ Boundary(n) \in Nat
    BY BoundaryFacts
  <2>2. Boundary(n + 1) \in Nat /\ Boundary(m) \in Nat
    BY BoundaryFacts
  <2>3. CommandWords(n + 1) \in {4, 5}
    BY WordsNat
  <2>4. CASE m < n
    BY <1>2, <2>1, <2>2, <2>3, <2>4
  <2>5. CASE ~(m < n)
    BY <2>1, <2>2, <2>3, <2>5
  <2> QED
    BY <2>4, <2>5
<1> HIDE DEF S
<1>3. \A n \in Nat : n \in S
  BY <1>1, <1>2, NatInduct
<1> QED
  BY <1>3 DEF S

-----------------------------------------------------------------------------
\* The answers to the frame, by kind
Answer == {"fpga", "read", "simu"} \X Nat

LEMMA Responded ==
    ASSUME sent \in Seq(Answer), NEW kind \in {"fpga", "read", "simu"}, NEW status \in Nat,
           Respond(kind, status)
    PROVE  /\ sent' \in Seq(Answer)
           /\ Len(sent') = Len(sent) + 1
           /\ Len(sent) \in Nat
           /\ DOMAIN sent' = 1..(Len(sent) + 1) /\ DOMAIN sent = 1..Len(sent)
           /\ \A k \in DOMAIN sent : sent'[k] = sent[k]
           /\ sent'[Len(sent) + 1] = <<kind, status>>
           /\ Answers(kind)' = Answers(kind) \cup {Len(sent) + 1}
           /\ \A other \in {"fpga", "read", "simu"} \ {kind} : Answers(other)' = Answers(other)
<1>1. <<kind, status>> \in Answer /\ sent' = Append(sent, <<kind, status>>)
  BY DEF Answer, Respond
<1>2. /\ sent' \in Seq(Answer)
      /\ Len(sent') = Len(sent) + 1
      /\ Len(sent) \in Nat
      /\ DOMAIN sent' = 1..(Len(sent) + 1) /\ DOMAIN sent = 1..Len(sent)
      /\ \A k \in DOMAIN sent : sent'[k] = sent[k]
      /\ sent'[Len(sent) + 1] = <<kind, status>>
  BY <1>1
<1>3. \A k \in DOMAIN sent' : k \in DOMAIN sent \/ k = Len(sent) + 1
  BY <1>2
<1>4. Len(sent) + 1 \notin DOMAIN sent /\ Len(sent) + 1 \in DOMAIN sent'
  BY <1>2
<1>5. DOMAIN sent \subseteq DOMAIN sent'
  BY <1>2
<1>6. Answers(kind)' = Answers(kind) \cup {Len(sent) + 1}
  <2>1. Answers(kind)' \subseteq Answers(kind) \cup {Len(sent) + 1}
    BY <1>2, <1>3 DEF Answers
  <2>2. Answers(kind) \cup {Len(sent) + 1} \subseteq Answers(kind)'
    BY <1>2, <1>4, <1>5 DEF Answers
  <2> QED
    BY <2>1, <2>2
<1>7. ASSUME NEW other \in {"fpga", "read", "simu"} \ {kind} PROVE Answers(other)' = Answers(other)
  <2>1. Answers(other)' \subseteq Answers(other)
    BY <1>2, <1>3 DEF Answers
  <2>2. Answers(other) \subseteq Answers(other)'
    BY <1>2, <1>5 DEF Answers
  <2> QED
    BY <2>1, <2>2
<1> QED
  BY <1>2, <1>6, <1>7

-----------------------------------------------------------------------------
(* Where the cursor is, and what has been answered *)

Stages == {"load", "reset_one", "reset_two", "finish"}

Types ==
    /\ at \in {"wait", "done", "fetch", "lost", "simu", "load", "reset_one", "reset_two", "finish"}
    /\ frame \in Seq(Command) /\ Len(frame) <= MaxCmds
    /\ pos \in Nat /\ step \in Nat
    /\ ret \in {"ok", "error"} /\ loop_error \in BOOLEAN
    /\ sent \in Seq(Answer)
    /\ registered \in Registrations
    /\ fpga \in {"untouched", "partial", "loaded"} /\ ads \subseteq registered

\* The step numbers of a frame stay below the codes, which are the numbers of the
\* lines they stand on.
FewSteps == 3 * MaxCmds < Refused

Ran == [command : Command, upto : Nat]

\* The first n commands have been run, each with its answers.
Record(n) ==
    /\ ran \in Seq(Ran) /\ Len(ran) = n
    /\ \A k \in 1..n : ran[k].command = frame[k] /\ ran[k].upto <= Len(sent)
    /\ FewSteps => \A k \in 1..n : Fits(frame[k], AnsweredBy(k - 1), AnsweredBy(k))

\* Nothing has been answered since.
Answered(n) == AnsweredBy(n) = Len(sent)

\* What has been answered since are steps of the FPGA command.
Underway(n) ==
    FewSteps => \A k \in AnsweredBy(n)+1..Len(sent) :
                    sent[k][1] = "fpga" /\ sent[k][2] \notin LastCodes

\* A read has moved the cursor into the next command, where none begins.
Strayed == Current = {} /\ \E k \in DOMAIN frame : frame[k].kind = "read"

\* n commands are done and the next one is under way.
Doing(n) == n \in 0..Len(frame)-1 /\ pos = Boundary(n) /\ Record(n)

\* Steps counted in the current command
Counted == CASE at = "load" -> 1 [] at \in {"reset_one", "reset_two"} -> 2 [] OTHER -> 3

Cursor ==
    /\ at = "wait" => frame = <<>> /\ pos = 0 /\ step = 0 /\ sent = <<>> /\ ran = <<>>
    /\ at = "fetch" => Strayed \/ \E n \in Nat : Doing(n) /\ Answered(n) /\ step <= 3 * n
    /\ at = "simu" => \E n \in Nat : /\ Doing(n) /\ Answered(n) /\ step <= 3 * n
                                     /\ frame[n + 1].kind \in SimuKind
    /\ at \in Stages => \E n \in Nat : /\ Doing(n) /\ Underway(n)
                                       /\ step <= 3 * n + Counted
                                       /\ frame[n + 1].kind = "fpga"
    /\ at = "done" => \E n \in 1..Len(frame) : /\ pos = Boundary(n) /\ Record(n) /\ Answered(n)
                                               /\ n = Len(frame) \/ loop_error
    /\ at = "lost" => Strayed
    /\ step <= 3 * Len(frame)

LEMMA SameFrame ==
    ASSUME UNCHANGED frame
    PROVE  \A n \in Nat : Boundary(n)' = Boundary(n)
BY DEF Boundary, ArgWords

\* The command at the cursor, when it stands at the n-th boundary
LEMMA AtBoundary ==
    ASSUME Types, NEW n \in 0..Len(frame)-1, pos = Boundary(n)
    PROVE  /\ Current # {} /\ TheCommand = frame[n + 1]
           /\ n \in Nat /\ n + 1 \in DOMAIN frame /\ n + 1 \in 1..Len(frame)
           /\ frame[n + 1] \in Command
<1>1. /\ Len(frame) \in Nat /\ DOMAIN frame = 1..Len(frame)
      /\ \A k \in DOMAIN frame : frame[k] \in Command
  BY DEF Types
<1>2. n \in Nat /\ n + 1 \in DOMAIN frame
  BY <1>1
<1>3. n + 1 \in Current
  BY <1>2 DEF Current
<1>4. ASSUME NEW k \in Current PROVE k = n + 1
  <2>1. k - 1 \in Nat /\ Boundary(k - 1) = Boundary(n) /\ k \in Nat
    BY <1>1 DEF Current
  <2>2. Boundary(n) \in Nat
    BY <1>2, BoundaryFacts
  <2>3. k - 1 < n => Boundary(k - 1) + 4 <= Boundary(n)
    BY <1>2, <2>1, BoundaryGrows
  <2>4. n < k - 1 => Boundary(n) + 4 <= Boundary(k - 1)
    BY <1>2, <2>1, BoundaryGrows
  <2> QED
    BY <1>2, <2>1, <2>2, <2>3, <2>4
<1>5. (CHOOSE k \in Current : TRUE) = n + 1
  BY <1>3, <1>4
<1> QED
  BY <1>1, <1>2, <1>3, <1>5 DEF TheCommand

LEMMA SameRecord ==
    ASSUME Types, UNCHANGED <<frame, ran, sent>>, NEW n \in Nat
    PROVE  (Record(n) => Record(n)') /\ (Answered(n) => Answered(n)') /\ (Underway(n) => Underway(n)')
<1>1. \A k : AnsweredBy(k)' = AnsweredBy(k)
  BY DEF AnsweredBy
<1>2. \A k \in 1..n : Fits(frame[k], AnsweredBy(k - 1), AnsweredBy(k))' <=>
                       Fits(frame[k], AnsweredBy(k - 1), AnsweredBy(k))
  BY <1>1 DEF Fits
<1> QED
  BY <1>1, <1>2 DEF Record, Answered, Underway

LEMMA DoingStill ==
    ASSUME Types, UNCHANGED <<frame, pos, ran, sent>>, NEW n \in Nat, Doing(n)
    PROVE  Doing(n)' /\ (Answered(n) => Answered(n)')
BY SameRecord, SameFrame DEF Doing

\* The answers so far stand, and there may be more.
Extended ==
    /\ sent' \in Seq(Answer) /\ Len(sent) <= Len(sent')
    /\ \A k \in DOMAIN sent : sent'[k] = sent[k]

\* The n-th command but one ends, whose arguments were counted right.
Ending(n) ==
    /\ UNCHANGED frame /\ pos' = Boundary(n + 1) /\ loop_error' \in BOOLEAN
    /\ at' = IF pos' = Size \/ loop_error' THEN "done" ELSE "fetch"
    /\ ran' = Append(ran, [command |-> TheCommand, upto |-> Len(sent')])

LEMMA RanTyped ==
    ASSUME ran \in Seq(Ran)
    PROVE  \A k \in 1..Len(ran) : ran[k].upto \in Nat
<1>1. \A k \in 1..Len(ran) : ran[k] \in Ran
  OBVIOUS
<1>2. \A entry \in Ran : entry.upto \in Nat
  BY DEF Ran
<1> QED
  BY <1>1, <1>2

\* Commands that have been run keep their answers.
LEMMA FitsStill ==
    ASSUME Types, NEW n \in Nat, Record(n), Extended, UNCHANGED frame,
           \A k \in 0..n : AnsweredBy(k)' = AnsweredBy(k)
    PROVE  FewSteps => \A k \in 1..n : Fits(frame[k], AnsweredBy(k - 1), AnsweredBy(k))'
<1> SUFFICES ASSUME FewSteps, NEW k \in 1..n
             PROVE  Fits(frame[k], AnsweredBy(k - 1), AnsweredBy(k))'
  OBVIOUS
<1>1. Fits(frame[k], AnsweredBy(k - 1), AnsweredBy(k))
  BY DEF Record
<1>2. k - 1 \in 0..n /\ k \in 0..n
  OBVIOUS
<1>3. AnsweredBy(k - 1)' = AnsweredBy(k - 1) /\ AnsweredBy(k)' = AnsweredBy(k)
  BY <1>2
<1>4. AnsweredBy(k) <= Len(sent) /\ AnsweredBy(k) \in Nat /\ AnsweredBy(k - 1) \in Nat
  <2>1. \A m \in 1..n : ran[m].upto \in Nat
    BY RanTyped DEF Record
  <2>2. ran[k].upto <= Len(sent)
    BY DEF Record
  <2> QED
    BY <1>2, <2>1, <2>2 DEF AnsweredBy
<1>5. Len(sent) \in Nat /\ DOMAIN sent = 1..Len(sent)
  BY DEF Types
<1>6. \A j \in AnsweredBy(k - 1)+1..AnsweredBy(k) : sent'[j] = sent[j]
  BY <1>4, <1>5 DEF Extended
<1> QED
  BY <1>1, <1>3, <1>4, <1>6 DEF Fits

LEMMA RecordStill ==
    ASSUME Types, NEW n \in Nat, Record(n), Extended, UNCHANGED <<frame, ran>>
    PROVE  Record(n)' /\ AnsweredBy(n)' = AnsweredBy(n)
<1>1. \A k \in 0..n : AnsweredBy(k)' = AnsweredBy(k)
  BY DEF AnsweredBy
<1>2. FewSteps => \A k \in 1..n : Fits(frame[k], AnsweredBy(k - 1), AnsweredBy(k))'
  BY <1>1, FitsStill
<1>3. \A k \in 1..n : ran[k].upto <= Len(sent')
  <2>1. \A k \in 1..n : ran[k].upto \in Nat /\ ran[k].upto <= Len(sent)
    BY RanTyped DEF Record
  <2>2. Len(sent) \in Nat /\ Len(sent') \in Nat /\ Len(sent) <= Len(sent')
    BY DEF Extended, Types
  <2> QED
    BY <2>1, <2>2
<1> QED
  BY <1>1, <1>2, <1>3 DEF Record

LEMMA RanMore ==
    ASSUME Types, NEW n \in Nat, Doing(n), Ending(n), sent' \in Seq(Answer)
    PROVE  /\ ran' \in Seq(Ran) /\ Len(ran') = n + 1
           /\ \A k \in 1..n : ran'[k] = ran[k]
           /\ ran'[n + 1] = [command |-> frame[n + 1], upto |-> Len(sent')]
           /\ \A k \in 0..n : AnsweredBy(k)' = AnsweredBy(k)
           /\ AnsweredBy(n + 1)' = Len(sent')
           /\ AnsweredBy(n)' = AnsweredBy(n) /\ AnsweredBy(n) \in Nat
<1> DEFINE entry == [command |-> frame[n + 1], upto |-> Len(sent')]
<1>1. TheCommand = frame[n + 1] /\ frame[n + 1] \in Command
  BY AtBoundary DEF Doing
<1>2. entry \in Ran /\ entry.upto = Len(sent')
  BY <1>1 DEF Ran
<1>3. ran \in Seq(Ran) /\ Len(ran) = n /\ ran' = Append(ran, entry)
  BY <1>1 DEF Doing, Record, Ending
<1> HIDE DEF entry
<1>4. /\ ran' \in Seq(Ran) /\ Len(ran') = n + 1
      /\ \A k \in 1..n : ran'[k] = ran[k]
      /\ ran'[n + 1] = entry
  BY <1>2, <1>3
<1>5. \A k \in 0..n : AnsweredBy(k)' = AnsweredBy(k)
  BY <1>4 DEF AnsweredBy
<1>6. AnsweredBy(n + 1)' = Len(sent')
  BY <1>2, <1>4 DEF AnsweredBy
<1>7. AnsweredBy(n) \in Nat
  BY <1>3, RanTyped DEF AnsweredBy
<1> QED
  BY <1>4, <1>5, <1>6, <1>7, n \in 0..n DEF entry

LEMMA NextBoundary ==
    ASSUME Types, NEW n \in Nat, Doing(n), NEW read \in Nat, NEW size \in Nat,
           pos' = pos + 2 + read + size, ArgWords(TheCommand) = read + size
    PROVE  pos' = Boundary(n + 1)
<1>1. TheCommand = frame[n + 1] /\ pos \in Nat /\ pos = Boundary(n)
  BY AtBoundary DEF Doing, Types
<1>2. Boundary(n + 1) = pos + (2 + (read + size))
  BY <1>1, BoundaryFacts DEF CommandWords
<1> QED
  BY <1>1, <1>2

\* It leaves the cursor at the next boundary, and its answers recorded.
LEMMA Ended ==
    ASSUME Types, NEW n \in Nat, Doing(n), Ending(n), Extended,
           FewSteps => Fits(frame[n + 1], AnsweredBy(n), Len(sent))',
           step' \in Nat, step' <= 3 * n + 3
    PROVE  Cursor'
<1>1. /\ TheCommand = frame[n + 1] /\ n + 1 \in 1..Len(frame) /\ Len(frame) \in Nat
  BY AtBoundary DEF Doing, Types
<1>2. pos' = Boundary(n + 1) /\ Boundary(n + 1)' = Boundary(n + 1) /\ frame' = frame
  BY SameFrame DEF Ending
<1>3. Size = Boundary(Len(frame)) /\ Size \in Nat /\ Boundary(n + 1) \in Nat
  BY <1>1, BoundaryFacts DEF Size
<1>4. at' \in {"done", "fetch"}
  BY DEF Ending
<1>5. /\ ran' \in Seq(Ran) /\ Len(ran') = n + 1
      /\ \A k \in 1..n : ran'[k] = ran[k]
      /\ ran'[n + 1] = [command |-> frame[n + 1], upto |-> Len(sent')]
      /\ \A k \in 0..n : AnsweredBy(k)' = AnsweredBy(k)
      /\ AnsweredBy(n + 1)' = Len(sent')
  BY RanMore DEF Extended
<1>6. Record(n + 1)'
  <2>1. ASSUME NEW k \in 1..n+1
        PROVE  ran'[k].command = frame'[k] /\ ran'[k].upto <= Len(sent')
    <3>1. CASE k = n + 1
      BY <1>2, <1>5, <3>1 DEF Extended
    <3>2. CASE k # n + 1
      <4>1. k \in 1..n /\ ran[k].upto \in Nat /\ ran[k].command = frame[k] /\ ran[k].upto <= Len(sent)
        BY <3>2, RanTyped DEF Doing, Record
      <4>2. Len(sent) \in Nat /\ Len(sent') \in Nat /\ Len(sent) <= Len(sent')
        BY DEF Extended, Types
      <4> QED
        BY <1>2, <1>5, <4>1, <4>2
    <3> QED
      BY <3>1, <3>2
  <2>2. ASSUME FewSteps, NEW k \in 1..n+1
        PROVE  Fits(frame[k], AnsweredBy(k - 1), AnsweredBy(k))'
    <3>1. CASE k = n + 1
      <4>1. k - 1 = n
        BY <3>1
      <4>2. AnsweredBy(k)' = Len(sent')
        BY <1>5, <3>1
      <4> QED
        BY <2>2, <3>1, <4>1, <4>2 DEF Fits
    <3>2. CASE k # n + 1
      <4>1. \A m \in 1..n : Fits(frame[m], AnsweredBy(m - 1), AnsweredBy(m))'
        BY <1>2, <1>5, <2>2, FitsStill DEF Doing
      <4>2. k \in 1..n
        BY <3>2
      <4> QED
        BY <4>1, <4>2
    <3> QED
      BY <3>1, <3>2
  <2> QED
    BY <1>5, <2>1, <2>2 DEF Record
<1>7. Answered(n + 1)'
  BY <1>5 DEF Answered
<1>8. CASE at' = "done"
  <2>1. n + 1 = Len(frame) \/ loop_error'
    <3> SUFFICES ASSUME n + 1 < Len(frame) PROVE loop_error'
      BY <1>1
    <3>1. Boundary(n + 1) # Boundary(Len(frame))
      BY <1>1, <1>3, BoundaryGrows
    <3> QED
      BY <1>2, <1>3, <1>8, <3>1 DEF Ending
  <2> QED
    BY <1>1, <1>2, <1>6, <1>7, <1>8, <2>1 DEF Cursor, Stages
<1>9. CASE at' = "fetch"
  <2>1. pos' # Size
    BY <1>9 DEF Ending
  <2>2. n + 1 \in 0..Len(frame')-1
    BY <1>1, <1>2, <1>3, <2>1
  <2>3. Doing(n + 1)'
    BY <1>2, <1>6, <2>2 DEF Doing
  <2>4. n + 1 \in Nat /\ step' <= 3 * (n + 1)
    OBVIOUS
  <2> QED
    BY <1>1, <1>2, <1>7, <1>9, <2>3, <2>4 DEF Cursor, Stages
<1> QED
  BY <1>4, <1>8, <1>9

\* A command that is not answered, or has one answer, or a last one
LEMMA EndedWith ==
    ASSUME Types, NEW n \in Nat, Doing(n), Ending(n),
           \/ frame[n + 1].kind \in {"other", "set"} /\ Answered(n) /\ UNCHANGED sent
           \/ \E kind \in {"simu", "read"}, status \in Nat :
                 /\ Answered(n) /\ Respond(kind, status)
                 /\ frame[n + 1].kind \in IF kind = "simu" THEN SimuKind ELSE {"read_last"}
           \/ \E status \in LastCodes :
                 Underway(n) /\ Respond("fpga", status) /\ frame[n + 1].kind = "fpga",
           step' \in Nat, step' <= 3 * n + 3
    PROVE  Cursor'
<1>1. Len(sent) \in Nat /\ sent \in Seq(Answer) /\ DOMAIN sent = 1..Len(sent) /\ frame' = frame
  BY DEF Types, Ending
<1>2. CASE frame[n + 1].kind \in {"other", "set"} /\ Answered(n) /\ UNCHANGED sent
  <2>1. Extended
    BY <1>1, <1>2 DEF Extended
  <2>2. AnsweredBy(n)' = Len(sent')
    BY <1>1, <1>2, RanMore DEF Answered
  <2>3. Fits(frame[n + 1], AnsweredBy(n), Len(sent))'
    BY <1>1, <1>2, <2>2 DEF Fits
  <2> QED
    BY <2>1, <2>3, Ended
<1>3. ASSUME NEW kind \in {"simu", "read"}, NEW status \in Nat,
             Answered(n), Respond(kind, status),
             frame[n + 1].kind \in IF kind = "simu" THEN SimuKind ELSE {"read_last"}
      PROVE  Cursor'
  <2>1. /\ Len(sent') = Len(sent) + 1 /\ sent' \in Seq(Answer)
        /\ \A k \in DOMAIN sent : sent'[k] = sent[k]
        /\ sent'[Len(sent) + 1] = <<kind, status>>
    BY <1>1, <1>3, Responded
  <2>2. Extended
    BY <1>1, <2>1 DEF Extended
  <2>3. AnsweredBy(n)' = Len(sent)
    BY <1>3, <2>1, RanMore DEF Answered
  <2>4. sent'[Len(sent')][1] = kind /\ Len(sent') = AnsweredBy(n)' + 1
    BY <1>1, <2>1, <2>3
  <2>5. Fits(frame[n + 1], AnsweredBy(n), Len(sent))'
    BY <1>1, <1>3, <2>4 DEF Fits, AdKind
  <2> QED
    BY <2>2, <2>5, Ended
<1>4. ASSUME NEW status \in LastCodes, Underway(n), Respond("fpga", status),
             frame[n + 1].kind = "fpga"
      PROVE  Cursor'
  <2>1. status \in Nat
    BY DEF LastCodes, Refused, LoadFailed, ResetFailed, Finished
  <2>2. /\ Len(sent') = Len(sent) + 1 /\ sent' \in Seq(Answer)
        /\ \A k \in DOMAIN sent : sent'[k] = sent[k]
        /\ sent'[Len(sent) + 1] = <<"fpga", status>>
    BY <1>1, <1>4, <2>1, Responded
  <2>3. Extended
    BY <1>1, <2>2 DEF Extended
  <2>4. AnsweredBy(n)' = AnsweredBy(n) /\ AnsweredBy(n) \in Nat /\ AnsweredBy(n) <= Len(sent)
    <3>1. AnsweredBy(n)' = AnsweredBy(n) /\ AnsweredBy(n) \in Nat
      BY <2>2, RanMore
    <3>2. n # 0 => ran[n].upto <= Len(sent)
      BY DEF Doing, Record
    <3> QED
      BY <1>1, <3>1, <3>2 DEF AnsweredBy
  <2>5. ASSUME FewSteps PROVE Fits(frame[n + 1], AnsweredBy(n), Len(sent))'
    <3>1. ASSUME NEW k \in AnsweredBy(n)+1..Len(sent')
          PROVE  sent'[k][1] = "fpga" /\ (sent'[k][2] \in LastCodes <=> k = Len(sent'))
      <4>1. CASE k = Len(sent')
        BY <1>1, <2>2, <4>1
      <4>2. CASE k # Len(sent')
        <5>1. k \in AnsweredBy(n)+1..Len(sent) /\ k \in DOMAIN sent
          BY <1>1, <2>2, <2>4, <4>2
        <5> QED
          BY <1>4, <2>2, <2>5, <4>2, <5>1 DEF Underway
      <4> QED
        BY <4>1, <4>2
    <3>2. AnsweredBy(n)' < Len(sent')
      BY <1>1, <2>2, <2>4
    <3> QED
      BY <1>1, <1>4, <2>4, <3>1, <3>2 DEF Fits
  <2> QED
    BY <2>3, <2>5, Ended
<1> QED
  BY <1>2, <1>3, <1>4

-----------------------------------------------------------------------------
Ends ==
    /\ at' \in {"done", "fetch"} /\ pos' \in Nat /\ frame' = frame
    /\ ret' \in {"ok", "error"} /\ loop_error' \in BOOLEAN

LEMMA EndTypes ==
    ASSUME Types
    PROVE  /\ \A result \in {"ok", "error"} : EndCommand(0, FALSE, result) => Ends
           /\ EndCommand(1, FALSE, "ok") => Ends
           /\ EndCommand(0, TRUE, "error") => Ends
<1>1. VarSize(TheCommand) \in Nat /\ pos \in Nat
  BY DEF VarSize, ArgWords, Types
<1>2. ASSUME NEW result \in {"ok", "error"}, EndCommand(0, FALSE, result) PROVE Ends
  <2>1. pos' = pos + 2 + 0 + VarSize(TheCommand)
    BY <1>2 DEF EndCommand
  <2>2. pos' \in Nat
    BY <1>1, <2>1
  <2> QED
    BY <1>2, <2>2 DEF EndCommand, Ends
<1>3. ASSUME EndCommand(1, FALSE, "ok") PROVE Ends
  <2>1. pos' = pos + 2 + 1 + VarSize(TheCommand)
    BY <1>3 DEF EndCommand
  <2>2. pos' \in Nat
    BY <1>1, <2>1
  <2> QED
    BY <1>3, <2>2 DEF EndCommand, Ends
<1>4. EndCommand(0, TRUE, "error") => Ends
  BY <1>1 DEF EndCommand, Ends
<1> QED
  BY <1>2, <1>3, <1>4

LEMMA TypesKept == Types /\ [Next]_vars => Types'
<1> SUFFICES ASSUME Types, [Next]_vars PROVE Types'
  OBVIOUS
<1> USE DEF Types
<1>1. ASSUME NEW kind \in {"fpga", "read", "simu"}, NEW status \in Nat, Respond(kind, status)
      PROVE  sent' \in Seq(Answer)
  BY <1>1, Responded
<1>2. CASE Receive
  <2>1. PICK n \in 1..MaxCmds : frame' \in [1..n -> Command]
    BY <1>2 DEF Receive
  <2>2. frame' \in Seq(Command) /\ Len(frame') = n /\ n <= MaxCmds
    BY <2>1, MaxCmdsAssumption
  <2> QED
    BY <1>2, <2>2 DEF Receive, device
<1>3. CASE Return
  <2>1. <<>> \in Seq(Command) /\ <<>> \in Seq(Answer) /\ Len(<<>>) = 0
    OBVIOUS
  <2>2. 0 <= MaxCmds
    BY MaxCmdsAssumption
  <2> QED
    BY <1>3, <2>1, <2>2 DEF Return
<1>4. CASE OffTheFrame \/ SimuCommand
  BY <1>4 DEF OffTheFrame, SimuCommand, Continue, Silent, device
<1>5. CASE OtherCommand
  <2>1. EndCommand(0, FALSE, "ok")
    BY <1>5 DEF OtherCommand
  <2>2. Ends
    BY <2>1, EndTypes
  <2> QED
    BY <1>5, <2>2 DEF OtherCommand, Ends, Silent, device
<1>6. CASE SetCommand
  <2>1. PICK result \in ad9361_set(TheCommand.id) : EndCommand(0, FALSE, result)
    BY <1>6 DEF SetCommand
  <2>2. result \in {"ok", "error"}
    BY <2>1 DEF ad9361_set, sysctrl_write
  <2>3. Ends
    BY <2>1, <2>2, EndTypes
  <2> QED
    BY <1>6, <2>3 DEF SetCommand, Ends, Silent, device
<1>7. CASE ReadCommand
  <2>1. PICK status \in ReadFlag(TheCommand.id) : Respond("read", status)
    BY <1>7 DEF ReadCommand
  <2>2. status \in Nat
    BY <2>1 DEF ReadFlag
  <2>3. sent' \in Seq(Answer)
    BY <1>1, <2>1, <2>2
  <2>4. Ends
    BY <1>7, EndTypes DEF ReadCommand
  <2> QED
    BY <1>7, <2>3, <2>4 DEF ReadCommand, Ends, device
<1>8. CASE FpgaBegin
  <2>1. CASE Respond("fpga", Refused) /\ EndCommand(0, FALSE, "error") /\ UNCHANGED step
    <3>1. sent' \in Seq(Answer)
      BY <1>1, <2>1 DEF Refused
    <3>2. Ends
      BY <2>1, EndTypes
    <3> QED
      BY <1>8, <2>1, <3>1, <3>2 DEF FpgaBegin, Ends, device
  <2>2. CASE step' = step + 1 /\ Respond("fpga", step') /\ Continue("load")
    <3>1. step' \in Nat /\ sent' \in Seq(Answer)
      BY <1>1, <2>2
    <3> QED
      BY <1>8, <2>2, <3>1 DEF FpgaBegin, Continue, device
  <2> QED
    BY <1>8, <2>1, <2>2 DEF FpgaBegin
<1>9. CASE FpgaLoad
  <2>1. fpga' \in {"untouched", "partial", "loaded"} /\ ads' \subseteq registered
    BY <1>9 DEF FpgaLoad, WriteBlocks
  <2>2. CASE Respond("fpga", LoadFailed) /\ EndCommand(0, TRUE, "error") /\ UNCHANGED step
    <3>1. sent' \in Seq(Answer)
      BY <1>1, <2>2 DEF LoadFailed
    <3>2. Ends
      BY <2>2, EndTypes
    <3> QED
      BY <1>9, <2>1, <2>2, <3>1, <3>2 DEF FpgaLoad, Ends
  <2>3. CASE step' = step + 1 /\ Respond("fpga", step') /\ Continue("reset_one")
    <3>1. step' \in Nat /\ sent' \in Seq(Answer)
      BY <1>1, <2>3
    <3> QED
      BY <1>9, <2>1, <2>3, <3>1 DEF FpgaLoad, Continue
  <2> QED
    BY <1>9, <2>2, <2>3 DEF FpgaLoad
<1>10. ASSUME ResetFails PROVE Types'
  <2>1. sent' \in Seq(Answer)
    BY <1>1, <1>10 DEF ResetFails, ResetFailed
  <2>2. Ends
    BY <1>10, EndTypes DEF ResetFails
  <2> QED
    BY <1>10, <2>1, <2>2 DEF ResetFails, Ends, device
<1>11. \A chip : "ok" \in sysctrl_write(chip) => chip \in registered
  BY DEF sysctrl_write, HasPath
<1>12. CASE ResetOne
  BY <1>10, <1>11, <1>12 DEF ResetOne, Continue, Silent
<1>13. CASE ResetTwo
  <2>1. CASE "ok" \in sysctrl_write(AD_TWO_ID) /\ ads' = ads \cup {AD_TWO_ID} /\ step' = step + 1
             /\ Respond("fpga", step') /\ Continue("finish") /\ UNCHANGED <<registered, fpga>>
    <3>1. step' \in Nat /\ sent' \in Seq(Answer)
      BY <1>1, <2>1
    <3> QED
      BY <1>11, <2>1, <3>1 DEF Continue
  <2> QED
    BY <1>10, <1>13, <2>1 DEF ResetTwo
<1>14. CASE FpgaFinish
  <2>1. sent' \in Seq(Answer)
    BY <1>1, <1>14 DEF FpgaFinish, Finished
  <2>2. Ends
    BY <1>14, EndTypes DEF FpgaFinish
  <2> QED
    BY <1>14, <2>1, <2>2 DEF FpgaFinish, Ends, device
<1>15. CASE SimuAnswer
  <2>1. sent' \in Seq(Answer)
    BY <1>1, <1>15 DEF SimuAnswer, simu_resp_operate_success, simu_resp_child_process_failed
  <2>2. Ends
    BY <1>15, EndTypes DEF SimuAnswer
  <2> QED
    BY <1>15, <2>1, <2>2 DEF SimuAnswer, Ends, device
<1>16. CASE UNCHANGED dispatcher
  BY <1>16 DEF dispatcher, device
<1> QED
  BY <1>2, <1>3, <1>4, <1>5, <1>6, <1>7, <1>8, <1>9, <1>12, <1>13, <1>14, <1>15, <1>16
     DEF Next, handler_control_frm, SimuFunction, vars

\* A command is fetched only when the cursor is at one.
LEMMA Fetched ==
    ASSUME Types, Cursor, NEW kinds, Fetch(kinds)
    PROVE  \E n \in Nat : /\ Doing(n) /\ Answered(n) /\ step <= 3 * n
                          /\ TheCommand = frame[n + 1] /\ frame[n + 1] \in Command
                          /\ frame[n + 1].kind \in kinds /\ n + 1 <= Len(frame)
<1>1. at = "fetch" /\ Current # {} /\ TheCommand.kind \in kinds
  BY DEF Fetch, Here
<1>2. PICK n \in Nat : Doing(n) /\ Answered(n) /\ step <= 3 * n
  BY <1>1 DEF Cursor, Strayed
<1>3. TheCommand = frame[n + 1] /\ frame[n + 1] \in Command /\ n + 1 \in 1..Len(frame)
  BY <1>2, AtBoundary DEF Doing
<1> QED
  BY <1>1, <1>2, <1>3

LEMMA InStage ==
    ASSUME Types, Cursor, at \in Stages
    PROVE  \E n \in Nat : /\ Doing(n) /\ Underway(n) /\ step <= 3 * n + Counted
                          /\ TheCommand = frame[n + 1] /\ frame[n + 1].kind = "fpga"
                          /\ n + 1 <= Len(frame)
<1>1. PICK n \in Nat : Doing(n) /\ Underway(n) /\ step <= 3 * n + Counted
                       /\ frame[n + 1].kind = "fpga"
  BY DEF Cursor
<1>2. TheCommand = frame[n + 1] /\ n + 1 \in 1..Len(frame)
  BY <1>1, AtBoundary DEF Doing
<1> QED
  BY <1>1, <1>2

LEMMA ReceiveCursor == ASSUME Types, Cursor, Receive PROVE Cursor'
<1>1. PICK n \in 1..MaxCmds : frame' \in [1..n -> Command]
  BY DEF Receive
<1>2. Len(frame') = n /\ n \in Nat /\ n >= 1
  BY <1>1, MaxCmdsAssumption
<1>3. at' = "fetch" /\ pos' = 0 /\ step' = 0 /\ sent' = <<>>
  BY DEF Receive, Cursor
<1>4. (Boundary(0) = 0)'
  BY BoundaryFacts, PTL
<1>5. ran' = <<>>
  BY DEF Receive, Cursor
<1>6. (Record(0) /\ Answered(0))'
  <2>1. <<>> \in Seq(Ran) /\ Len(<<>>) = 0 /\ 1..0 = {}
    OBVIOUS
  <2> QED
    BY <1>3, <1>5, <2>1 DEF Record, Answered, AnsweredBy
<1>7. Doing(0)'
  BY <1>2, <1>3, <1>4, <1>6 DEF Doing
<1> QED
  BY <1>2, <1>3, <1>6, <1>7 DEF Cursor, Stages

LEMMA StrayedKept == ASSUME Types, Strayed, UNCHANGED <<frame, pos>> PROVE Strayed'
<1>1. \A k \in DOMAIN frame : k - 1 \in Nat
  BY DEF Types
<1>2. \A k \in DOMAIN frame : Boundary(k - 1)' = Boundary(k - 1)
  BY <1>1, SameFrame
<1>3. Current' = Current
  BY <1>2 DEF Current
<1> QED
  BY <1>3 DEF Strayed

LEMMA OffTheFrameCursor == ASSUME Types, Cursor, OffTheFrame PROVE Cursor'
<1>1. at = "fetch" /\ Current = {} /\ at' = "lost" /\ UNCHANGED <<frame, pos, sent, step>>
  BY DEF OffTheFrame, Here, Continue, Silent
<1>2. Strayed
  BY <1>1, AtBoundary DEF Cursor, Doing
<1>3. Strayed'
  BY <1>1, <1>2, StrayedKept
<1> QED
  BY <1>1, <1>3 DEF Cursor, Stages

LEMMA SilentCursor == ASSUME Types, Cursor, OtherCommand \/ SetCommand PROVE Cursor'
<1>1. PICK result \in {"ok", "error"} : EndCommand(0, FALSE, result)
  BY DEF OtherCommand, SetCommand, ad9361_set, sysctrl_write
<1>2. Fetch({"other", "set"}) /\ UNCHANGED <<frame, sent, step>>
  BY <1>1 DEF OtherCommand, SetCommand, Fetch, EndCommand, Silent
<1>3. PICK n \in Nat : /\ Doing(n) /\ Answered(n) /\ step <= 3 * n
                       /\ TheCommand = frame[n + 1]
                       /\ frame[n + 1].kind \in {"other", "set"}
  BY <1>2, Fetched
<1>4. Ending(n)
  <2>1. VarSize(TheCommand) = ArgWords(TheCommand) /\ ArgWords(TheCommand) \in {2, 3}
    BY <1>3 DEF VarSize, ArgWords
  <2>2. pos' = pos + 2 + 0 + ArgWords(TheCommand)
    BY <1>1, <2>1 DEF EndCommand
  <2>3. pos' = Boundary(n + 1)
    BY <1>3, <2>1, <2>2, NextBoundary
  <2> QED
    BY <1>1, <2>3 DEF EndCommand, Ending
<1>5. step' \in Nat /\ step' <= 3 * n + 3
  BY <1>2, <1>3 DEF Types
<1> QED
  BY <1>2, <1>3, <1>4, <1>5, EndedWith

LEMMA ReadCursor == ASSUME Types, Cursor, ReadCommand PROVE Cursor'
<1>1. PICK status \in ReadFlag(TheCommand.id) : Respond("read", status)
  BY DEF ReadCommand
<1>2. status \in Nat
  BY <1>1 DEF ReadFlag
<1>3. Fetch({"read", "read_last"}) /\ EndCommand(1, FALSE, "ok") /\ UNCHANGED <<frame, step>>
  BY DEF ReadCommand, EndCommand
<1>4. PICK n \in Nat : /\ Doing(n) /\ Answered(n) /\ step <= 3 * n
                       /\ TheCommand = frame[n + 1] /\ n + 1 <= Len(frame)
                       /\ frame[n + 1].kind \in {"read", "read_last"}
  BY <1>3, Fetched
<1>5. step' \in Nat /\ step' <= 3 * n + 3
  BY <1>3, <1>4 DEF Types
<1>6. CASE frame[n + 1].kind = "read_last"
  <2>1. Ending(n)
    <3>1. VarSize(TheCommand) = 1 /\ ArgWords(TheCommand) = 2
      BY <1>4, <1>6 DEF VarSize, ArgWords
    <3>2. pos' = pos + 2 + 1 + 1
      BY <1>3, <3>1 DEF EndCommand
    <3>3. pos' = Boundary(n + 1)
      BY <1>4, <3>1, <3>2, NextBoundary
    <3> QED
      BY <1>3, <3>3 DEF EndCommand, Ending
  <2> QED
    BY <1>1, <1>2, <1>4, <1>5, <1>6, <2>1, EndedWith
<1>7. CASE frame[n + 1].kind = "read"
  <2>1. VarSize(TheCommand) = 2 /\ CommandWords(n + 1) = 4
    BY <1>4, <1>7 DEF VarSize, ArgWords, CommandWords
  <2>2. /\ Boundary(n + 1) = Boundary(n) + 4 /\ Boundary(n) = pos
        /\ Boundary(n + 1) \in Nat /\ Boundary(n) \in Nat
    BY <1>4, <2>1, BoundaryFacts DEF Doing
  <2>3. pos' = Boundary(n + 1) + 1
    BY <1>3, <2>1, <2>2 DEF EndCommand
  <2>4. ASSUME NEW k \in Nat PROVE Boundary(k) # pos'
    <3>1. n + 1 \in Nat /\ Boundary(k) \in Nat
      BY BoundaryFacts
    <3>2. n + 1 < k => Boundary(n + 1) + 4 <= Boundary(k)
      BY <3>1, BoundaryGrows
    <3>3. k < n + 1 => Boundary(k) + 4 <= Boundary(n + 1)
      BY <3>1, BoundaryGrows
    <3>4. n + 1 < k \/ k < n + 1 \/ k = n + 1
      BY <3>1
    <3> QED
      BY <2>2, <2>3, <3>1, <3>2, <3>3, <3>4
  <2>5. Len(frame) \in Nat /\ DOMAIN frame = 1..Len(frame)
    BY DEF Types
  <2>6. at' = "fetch"
    BY <1>3, <2>4, <2>5 DEF EndCommand, Size
  <2>7. Current' = {}
    <3>1. \A k \in DOMAIN frame : k - 1 \in Nat
      BY <2>5
    <3>2. \A k \in DOMAIN frame : Boundary(k - 1)' # pos'
      BY <1>3, <2>4, <3>1, SameFrame
    <3> QED
      BY <1>3, <3>2 DEF Current
  <2>8. Strayed'
    BY <1>3, <1>4, <1>7, <2>5, <2>7 DEF Strayed
  <2> QED
    BY <1>3, <2>6, <2>8 DEF Cursor, Stages
<1> QED
  BY <1>4, <1>6, <1>7

LEMMA AnsweredUnderway ==
    ASSUME Types, NEW n \in Nat, Record(n), Answered(n)
    PROVE  Underway(n)
<1>1. Len(sent) \in Nat
  BY DEF Types
<1> QED
  BY <1>1 DEF Answered, Underway

\* A command that goes on, and the answer to its step if there is one
LEMMA StepUnderway ==
    ASSUME Types, NEW n \in Nat, Doing(n), Underway(n), UNCHANGED <<frame, ran, pos>>,
           step' \in Nat, step' <= 3 * n + 3,
           UNCHANGED sent \/ Respond("fpga", step')
    PROVE  Doing(n)' /\ Underway(n)'
<1>1. Len(sent) \in Nat /\ sent \in Seq(Answer) /\ DOMAIN sent = 1..Len(sent)
  BY DEF Types
<1>2. CASE UNCHANGED sent
  <2>1. Extended
    BY <1>1, <1>2 DEF Extended
  <2>2. Record(n)' /\ AnsweredBy(n)' = AnsweredBy(n)
    BY <2>1, RecordStill DEF Doing
  <2>3. Underway(n)'
    BY <1>2, <2>2 DEF Underway
  <2> QED
    BY <2>2, <2>3, SameFrame DEF Doing
<1>3. CASE Respond("fpga", step')
  <2>1. /\ Len(sent') = Len(sent) + 1 /\ sent' \in Seq(Answer)
        /\ \A k \in DOMAIN sent : sent'[k] = sent[k]
        /\ sent'[Len(sent) + 1] = <<"fpga", step'>>
    BY <1>1, <1>3, Responded
  <2>2. Extended
    BY <1>1, <2>1 DEF Extended
  <2>3. Record(n)' /\ AnsweredBy(n)' = AnsweredBy(n)
    BY <2>2, RecordStill DEF Doing
  <2>4. FewSteps => step' \notin LastCodes
    <3>1. n + 1 <= Len(frame) /\ Len(frame) <= MaxCmds /\ Len(frame) \in Nat
      BY DEF Doing, Types
    <3>2. step' <= 3 * MaxCmds
      BY <3>1, MaxCmdsAssumption
    <3> QED
      BY <3>2, MaxCmdsAssumption DEF FewSteps, LastCodes, Refused, LoadFailed, ResetFailed, Finished
  <2>5. AnsweredBy(n) \in Nat
    BY RanTyped DEF AnsweredBy, Doing, Record
  <2>6. Underway(n)'
    <3> SUFFICES ASSUME FewSteps, NEW k \in AnsweredBy(n)+1..Len(sent')
                 PROVE  sent'[k][1] = "fpga" /\ sent'[k][2] \notin LastCodes
      BY <2>3 DEF Underway
    <3>1. CASE k = Len(sent) + 1
      BY <2>1, <2>4, <3>1
    <3>2. CASE k # Len(sent) + 1
      <4>1. k \in AnsweredBy(n)+1..Len(sent) /\ k \in DOMAIN sent
        BY <1>1, <2>1, <2>5, <3>2
      <4> QED
        BY <2>1, <4>1 DEF Underway
    <3> QED
      BY <3>1, <3>2
  <2> QED
    BY <2>3, <2>6, SameFrame DEF Doing
<1> QED
  BY <1>2, <1>3

LEMMA FpgaBeginCursor == ASSUME Types, Cursor, FpgaBegin PROVE Cursor'
<1>1. Fetch({"fpga"})
  BY DEF FpgaBegin
<1>2. PICK n \in Nat : /\ Doing(n) /\ Answered(n) /\ step <= 3 * n
                       /\ TheCommand = frame[n + 1] /\ n + 1 <= Len(frame)
                       /\ frame[n + 1].kind \in {"fpga"}
  BY <1>1, Fetched
<1>3. step \in Nat
  BY DEF Types
<1>4. CASE Respond("fpga", Refused) /\ EndCommand(0, FALSE, "error") /\ UNCHANGED step
  <2>1. UNCHANGED frame
    BY <1>4 DEF EndCommand
  <2>2. Underway(n)
    BY <1>2, AnsweredUnderway DEF Doing
  <2>3. Ending(n)
    <3>1. VarSize(TheCommand) = 2 /\ ArgWords(TheCommand) = 2
      BY <1>2 DEF VarSize, ArgWords
    <3>2. pos' = pos + 2 + 0 + 2
      BY <1>4, <3>1 DEF EndCommand
    <3>3. pos' = Boundary(n + 1)
      BY <1>2, <3>1, <3>2, NextBoundary
    <3> QED
      BY <1>4, <3>3 DEF EndCommand, Ending
  <2>4. step' \in Nat /\ step' <= 3 * n + 3
    BY <1>2, <1>3, <1>4
  <2> QED
    BY <1>2, <1>4, <2>2, <2>3, <2>4, EndedWith DEF LastCodes
<1>5. CASE step' = step + 1 /\ Respond("fpga", step') /\ Continue("load")
  <2>1. at' = "load" /\ UNCHANGED <<frame, ran, pos, loop_error>>
    BY <1>5 DEF Continue
  <2>2. step' <= 3 * n + 1 /\ step' \in Nat
    BY <1>2, <1>3, <1>5
  <2>3. Underway(n)
    BY <1>2, AnsweredUnderway DEF Doing
  <2>4. Doing(n)' /\ Underway(n)'
    BY <1>2, <1>5, <2>1, <2>2, <2>3, StepUnderway
  <2>5. Counted' = 1
    BY <2>1 DEF Counted
  <2> QED
    BY <1>2, <2>1, <2>2, <2>4, <2>5 DEF Cursor, Stages, Types
<1> QED
  BY <1>4, <1>5 DEF FpgaBegin

\* A stage that fails, or the last one, ends the command.
LEMMA StageEnds ==
    ASSUME Types, Cursor, at \in Stages, NEW status \in LastCodes, Respond("fpga", status),
           EndCommand(0, TRUE, "error") \/ EndCommand(0, FALSE, "ok"), UNCHANGED step
    PROVE  Cursor'
<1>1. PICK n \in Nat : /\ Doing(n) /\ Underway(n) /\ step <= 3 * n + Counted
                       /\ TheCommand = frame[n + 1] /\ frame[n + 1].kind = "fpga"
  BY InStage
<1>2. Ending(n)
  <2>1. VarSize(TheCommand) = 2 /\ ArgWords(TheCommand) = 2
    BY <1>1 DEF VarSize, ArgWords
  <2>2. pos' = pos + 2 + 0 + 2
    BY <2>1 DEF EndCommand
  <2>3. pos' = Boundary(n + 1)
    BY <1>1, <2>1, <2>2, NextBoundary
  <2> QED
    BY <2>3 DEF EndCommand, Ending
<1>3. step' \in Nat /\ step' <= 3 * n + 3
  BY <1>1 DEF Types, Counted
<1> QED
  BY <1>1, <1>2, <1>3, EndedWith

\* A stage that succeeds is followed by the next.
LEMMA StageFollowed ==
    ASSUME Types, Cursor, at \in Stages, NEW next \in Stages, Continue(next),
           \/ at = "reset_one" /\ Silent /\ UNCHANGED step
           \/ at # "reset_one" /\ Respond("fpga", step') /\ step' = step + 1,
           <<at, next>> \in {<<"load", "reset_one">>, <<"reset_one", "reset_two">>,
                             <<"reset_two", "finish">>}
    PROVE  Cursor'
<1>1. PICK n \in Nat : /\ Doing(n) /\ Underway(n) /\ step <= 3 * n + Counted
                       /\ n + 1 <= Len(frame) /\ frame[n + 1].kind = "fpga"
  BY InStage
<1>2. at' = next /\ UNCHANGED <<frame, ran, pos, ret, loop_error>>
  BY DEF Continue
<1>3. step \in Nat /\ Len(frame) \in Nat
  BY DEF Types
<1>4. step' <= 3 * n + Counted' /\ Counted' \in {2, 3} /\ step' \in Nat
  <2>1. CASE at = "load"
    BY <1>1, <1>2, <1>3, <2>1 DEF Counted
  <2>2. CASE at = "reset_one"
    BY <1>1, <1>2, <1>3, <2>2 DEF Counted
  <2>3. CASE at = "reset_two"
    BY <1>1, <1>2, <1>3, <2>3 DEF Counted
  <2> QED
    BY <2>1, <2>2, <2>3
<1>5. step' <= 3 * n + 3 /\ step' <= 3 * Len(frame)
  <2>1. CASE Counted' = 2
    BY <1>1, <1>3, <1>4, <2>1
  <2>2. CASE Counted' = 3
    BY <1>1, <1>3, <1>4, <2>2
  <2> QED
    BY <1>4, <2>1, <2>2
<1>6. Doing(n)' /\ Underway(n)'
  BY <1>1, <1>2, <1>4, <1>5, StepUnderway DEF Silent
<1> QED
  BY <1>1, <1>2, <1>4, <1>5, <1>6 DEF Cursor, Stages

LEMMA StageCursor ==
    ASSUME Types, Cursor, FpgaLoad \/ ResetOne \/ ResetTwo \/ FpgaFinish
    PROVE  Cursor'
<1> USE DEF Stages
<1>1. CASE FpgaLoad
  <2>1. at = "load"
    BY <1>1 DEF FpgaLoad, Here
  <2>2. CASE Respond("fpga", LoadFailed) /\ EndCommand(0, TRUE, "error") /\ UNCHANGED step
    <3>1. LoadFailed \in LastCodes
      BY DEF LastCodes
    <3> QED
      BY <2>1, <2>2, <3>1, StageEnds
  <2>3. CASE step' = step + 1 /\ Respond("fpga", step') /\ Continue("reset_one")
    BY <2>1, <2>3, StageFollowed
  <2> QED
    BY <1>1, <2>2, <2>3 DEF FpgaLoad
<1>2. ASSUME at \in Stages, ResetFails PROVE Cursor'
  <2>1. ResetFailed \in LastCodes
    BY DEF LastCodes
  <2> QED
    BY <1>2, <2>1, StageEnds DEF ResetFails
<1>3. CASE ResetOne
  <2>1. at = "reset_one"
    BY <1>3 DEF ResetOne, Here
  <2>2. CASE Continue("reset_two") /\ Silent /\ UNCHANGED step
    BY <2>1, <2>2, StageFollowed DEF Silent
  <2> QED
    BY <1>2, <1>3, <2>1, <2>2 DEF ResetOne
<1>4. CASE ResetTwo
  <2>1. at = "reset_two"
    BY <1>4 DEF ResetTwo, Here
  <2>2. CASE step' = step + 1 /\ Respond("fpga", step') /\ Continue("finish")
    BY <2>1, <2>2, StageFollowed
  <2> QED
    BY <1>2, <1>4, <2>1, <2>2 DEF ResetTwo
<1>5. CASE FpgaFinish
  <2>1. Finished \in LastCodes
    BY DEF LastCodes
  <2> QED
    BY <1>5, <2>1, StageEnds DEF FpgaFinish, Here
<1> QED
  BY <1>1, <1>3, <1>4, <1>5

LEMMA SimuCommandCursor == ASSUME Types, Cursor, SimuCommand PROVE Cursor'
<1>1. Fetch(SimuKind) /\ at' = "simu" /\ UNCHANGED <<frame, pos, sent, ran, step>>
  BY DEF SimuCommand, Continue, Silent
<1>2. PICK n \in Nat : /\ Doing(n) /\ Answered(n) /\ step <= 3 * n
                       /\ frame[n + 1].kind \in SimuKind
  BY <1>1, Fetched
<1>3. Doing(n)' /\ Answered(n)'
  BY <1>1, <1>2, DoingStill
<1> QED
  BY <1>1, <1>2, <1>3 DEF Cursor, Stages

LEMMA SimuAnswerCursor == ASSUME Types, Cursor, SimuAnswer PROVE Cursor'
<1>1. at = "simu" /\ EndCommand(0, FALSE, "ok") /\ UNCHANGED <<frame, step>>
  BY DEF SimuAnswer, Here, EndCommand
<1>2. PICK status \in {simu_resp_operate_success, simu_resp_child_process_failed} :
          Respond("simu", status)
  BY DEF SimuAnswer
<1>3. PICK n \in Nat : /\ Doing(n) /\ Answered(n) /\ step <= 3 * n
                       /\ frame[n + 1].kind \in SimuKind
  BY <1>1 DEF Cursor
<1>4. TheCommand = frame[n + 1]
  BY <1>3, AtBoundary DEF Doing
<1>5. status \in Nat
  BY DEF simu_resp_operate_success, simu_resp_child_process_failed
<1>6. Ending(n)
  <2>1. VarSize(TheCommand) = 2 /\ ArgWords(TheCommand) = 2
    BY <1>3, <1>4 DEF VarSize, ArgWords, SimuKind
  <2>2. pos' = pos + 2 + 0 + 2
    BY <1>1, <2>1 DEF EndCommand
  <2>3. pos' = Boundary(n + 1)
    BY <1>3, <2>1, <2>2, NextBoundary
  <2> QED
    BY <1>1, <2>3 DEF EndCommand, Ending
<1>7. step' \in Nat /\ step' <= 3 * n + 3
  BY <1>1, <1>3 DEF Types
<1> QED
  BY <1>2, <1>3, <1>5, <1>6, <1>7, EndedWith

LEMMA CursorStays == ASSUME Types, Cursor, UNCHANGED dispatcher PROVE Cursor'
<1>1. UNCHANGED <<at, frame, pos, loop_error, step, sent, ran>>
  BY DEF dispatcher
<1>2. Strayed => Strayed'
  BY <1>1, StrayedKept
<1>3. Counted' = Counted
  BY <1>1 DEF Counted
<1>4. 1..Len(frame) \subseteq Nat
  BY DEF Types
<1>5. \A n \in 1..Len(frame) : pos = Boundary(n) => pos' = Boundary(n)'
  BY <1>1, <1>4, SameFrame
<1>6. CASE at = "done"
  <2>1. PICK n \in 1..Len(frame) : /\ pos = Boundary(n) /\ Record(n) /\ Answered(n)
                                   /\ n = Len(frame) \/ loop_error
    BY <1>6 DEF Cursor
  <2>2. n \in Nat /\ n \in 1..Len(frame)'
    BY <1>1, <1>4
  <2>3. pos' = Boundary(n)' /\ Record(n)' /\ Answered(n)'
    BY <1>1, <1>5, <2>1, <2>2, SameRecord
  <2> QED
    BY <1>1, <1>6, <2>1, <2>2, <2>3 DEF Cursor, Stages
<1>7. CASE at \in Stages
  <2>1. PICK n \in Nat : /\ Doing(n) /\ Underway(n) /\ step <= 3 * n + Counted
                         /\ frame[n + 1].kind = "fpga"
    BY <1>7 DEF Cursor
  <2>2. Doing(n)' /\ Underway(n)'
    BY <1>1, <2>1, DoingStill, SameRecord
  <2> QED
    BY <1>1, <1>3, <1>7, <2>1, <2>2 DEF Cursor, Stages
<1>8. CASE at \in {"fetch", "simu"}
  <2>1. ASSUME NEW n \in Nat, Doing(n), Answered(n) PROVE Doing(n)' /\ Answered(n)'
    BY <1>1, <2>1, DoingStill
  <2> QED
    BY <1>1, <1>2, <1>8, <2>1 DEF Cursor, Stages
<1> QED
  BY <1>1, <1>2, <1>6, <1>7, <1>8 DEF Cursor, Stages

LEMMA CursorKept == Types /\ Cursor /\ [Next]_vars => Cursor'
<1> SUFFICES ASSUME Types, Cursor, [Next]_vars PROVE Cursor'
  OBVIOUS
<1>1. CASE Return
  BY <1>1 DEF Return, Cursor, Stages
<1>2. CASE UNCHANGED dispatcher
  BY <1>2, CursorStays
<1> QED
  BY <1>1, <1>2, ReceiveCursor, OffTheFrameCursor, SilentCursor, ReadCursor, FpgaBeginCursor,
     StageCursor, SimuCommandCursor, SimuAnswerCursor
     DEF Next, handler_control_frm, SimuFunction, vars

-----------------------------------------------------------------------------
(* What the client has been told, and the state of the device *)

Failed == {LoadFailed, ResetFailed}

Ready == ads = {AD_ONE_ID, AD_TWO_ID}
Settled == fpga = "untouched" \/ Ready

Outcome ==
    /\ NothingAfterFailure
    /\ Ready \/ ToldLast(Nat \ {Finished})
    /\ at \in {"wait", "fetch", "lost", "simu", "load"} => Settled
    /\ at \in {"reset_one", "reset_two", "finish"} => ToldLast(Nat \ {Finished})
    /\ at = "reset_two" => AD_ONE_ID \in ads
    /\ at = "finish" => Ready
    /\ at = "done" => Settled \/ ToldLast(Failed)

LEMMA ToldNow ==
    ASSUME Types, NEW status \in Nat, Respond("fpga", status), NEW S, status \in S
    PROVE  ToldLast(S)'
<1>1. /\ Len(sent) \in Nat /\ DOMAIN sent = 1..Len(sent)
      /\ Answers("fpga")' = Answers("fpga") \cup {Len(sent) + 1}
      /\ sent'[Len(sent) + 1] = <<"fpga", status>>
  BY Responded DEF Types
<1> SUFFICES ASSUME NEW last \in Answers("fpga")', \A k \in Answers("fpga")' : k <= last
             PROVE  sent'[last][2] \in S
  BY DEF ToldLast
<1>2. Answers("fpga") \subseteq 1..Len(sent)
  BY <1>1 DEF Answers
<1>3. last = Len(sent) + 1
  BY <1>1, <1>2
<1> QED
  BY <1>1, <1>3

LEMMA ToldStill ==
    ASSUME Types, NEW S, ToldLast(S),
           \/ UNCHANGED sent
           \/ \E kind \in {"read", "simu"}, status \in Nat : Respond(kind, status)
    PROVE  ToldLast(S)'
<1>1. CASE UNCHANGED sent
  BY <1>1 DEF ToldLast, Answers
<1>2. ASSUME NEW kind \in {"read", "simu"}, NEW status \in Nat, Respond(kind, status)
      PROVE  ToldLast(S)'
  <2>1. /\ Answers("fpga")' = Answers("fpga")
        /\ \A k \in DOMAIN sent : sent'[k] = sent[k]
    BY <1>2, Responded DEF Types
  <2>2. Answers("fpga") \subseteq DOMAIN sent
    BY DEF Answers
  <2> QED
    BY <2>1, <2>2 DEF ToldLast
<1> QED
  BY <1>1, <1>2

\* Until the handler has returned no answer was a failure, and so ...
LEMMA StillNoFailure ==
    ASSUME Types, NothingAfterFailure, at # "done",
           \/ UNCHANGED sent
           \/ \E kind \in {"fpga", "read", "simu"}, status \in Nat \ Failed : Respond(kind, status)
    PROVE  NothingAfterFailure'
<1>1. \A k \in DOMAIN sent : sent[k][2] \notin Failed
  BY DEF NothingAfterFailure, Failed
<1>2. CASE UNCHANGED sent
  BY <1>1, <1>2 DEF NothingAfterFailure, Failed
<1>3. ASSUME NEW kind \in {"fpga", "read", "simu"}, NEW status \in Nat \ Failed,
             Respond(kind, status)
      PROVE  NothingAfterFailure'
  <2>1. /\ Len(sent) \in Nat /\ DOMAIN sent' = 1..(Len(sent) + 1) /\ DOMAIN sent = 1..Len(sent)
        /\ \A k \in DOMAIN sent : sent'[k] = sent[k]
        /\ sent'[Len(sent) + 1] = <<kind, status>>
    BY <1>3, Responded DEF Types
  <2>2. \A k \in DOMAIN sent' : sent'[k][2] \notin Failed
    BY <1>1, <2>1
  <2> QED
    BY <2>2 DEF NothingAfterFailure, Failed
<1> QED
  BY <1>2, <1>3

\* ... a failure is the last answer.
LEMMA Fails ==
    ASSUME Types, Outcome, at # "done", NEW status \in Failed, Respond("fpga", status),
           EndCommand(0, TRUE, "error")
    PROVE  Outcome'
<1>1. \A k \in DOMAIN sent : sent[k][2] \notin Failed
  BY DEF Outcome, NothingAfterFailure, Failed
<1>2. at' = "done" /\ ret' = "error"
  BY DEF EndCommand
<1>3. status \in Nat /\ status \in Nat \ {Finished}
  BY DEF Failed, LoadFailed, ResetFailed, Finished
<1>4. /\ Len(sent) \in Nat /\ DOMAIN sent' = 1..(Len(sent) + 1) /\ DOMAIN sent = 1..Len(sent)
      /\ Len(sent') = Len(sent) + 1
      /\ \A k \in DOMAIN sent : sent'[k] = sent[k]
  BY <1>3, Responded DEF Types
<1>5. NothingAfterFailure'
  <2>1. \A k \in DOMAIN sent' : k \in DOMAIN sent \/ k = Len(sent')
    BY <1>4
  <2> QED
    BY <1>1, <1>2, <1>4, <2>1 DEF NothingAfterFailure, Failed
<1>6. ToldLast(Failed)' /\ ToldLast(Nat \ {Finished})'
  <2>1. ToldLast(Failed)'
    BY <1>3, ToldNow
  <2>2. ToldLast(Nat \ {Finished})'
    BY <1>3, ToldNow
  <2> QED
    BY <2>1, <2>2
<1> QED
  BY <1>2, <1>5, <1>6 DEF Outcome

\* Nothing is said of the FPGA, and nothing is done to it.
LEMMA OthersOutcome ==
    ASSUME Types, Outcome, Receive \/ OffTheFrame \/ OtherCommand \/ SetCommand \/ ReadCommand
                           \/ SimuCommand \/ SimuAnswer
    PROVE  Outcome'
<1>1. /\ at \in {"wait", "fetch", "simu"} /\ UNCHANGED <<fpga, ads>>
      /\ at' \in {"fetch", "lost", "simu", "done"}
  BY DEF Receive, OffTheFrame, OtherCommand, SetCommand, ReadCommand, SimuCommand, SimuAnswer,
         Fetch, Here, Continue, EndCommand, device
<1>2. \/ UNCHANGED sent
      \/ \E kind \in {"read", "simu"}, status \in Nat \ Failed : Respond(kind, status)
  <2>1. CASE Receive \/ OffTheFrame \/ OtherCommand \/ SetCommand \/ SimuCommand
    BY <2>1 DEF Receive, OffTheFrame, OtherCommand, SetCommand, SimuCommand, Silent
  <2>2. CASE ReadCommand
    <3>1. PICK status \in ReadFlag(TheCommand.id) : Respond("read", status)
      BY <2>2 DEF ReadCommand
    <3>2. status \in {0, 1, 2}
      BY <3>1 DEF ReadFlag
    <3>3. status \in Nat \ Failed
      BY <3>2 DEF Failed, LoadFailed, ResetFailed
    <3> QED
      BY <3>1, <3>3
  <2>3. CASE SimuAnswer
    <3>1. PICK status \in {simu_resp_operate_success, simu_resp_child_process_failed} :
              Respond("simu", status)
      BY <2>3 DEF SimuAnswer
    <3>2. status \in Nat \ Failed
      BY DEF simu_resp_operate_success, simu_resp_child_process_failed, Failed, LoadFailed, ResetFailed
    <3> QED
      BY <3>1, <3>2
  <2> QED
    BY <2>1, <2>2, <2>3
<1>3. NothingAfterFailure'
  BY <1>1, <1>2, StillNoFailure DEF Outcome
<1>4. (Ready \/ ToldLast(Nat \ {Finished}))'
  <2>1. ToldLast(Nat \ {Finished}) => ToldLast(Nat \ {Finished})'
    BY <1>2, ToldStill
  <2> QED
    BY <1>1, <2>1 DEF Outcome, Ready
<1>5. Settled'
  BY <1>1 DEF Outcome, Settled, Ready
<1> QED
  BY <1>1, <1>3, <1>4, <1>5 DEF Outcome

\* The answers on the way to a success
LEMMA StepTold ==
    ASSUME FewSteps, Types, Types', Cursor', Outcome, at # "done", step' = step + 1,
           Respond("fpga", step')
    PROVE  NothingAfterFailure' /\ ToldLast(Nat \ {Finished})'
<1>1. step' <= 3 * MaxCmds /\ step' \in Nat
  <2>1. step' <= 3 * Len(frame') /\ Len(frame') <= MaxCmds /\ Len(frame') \in Nat /\ step' \in Nat
    BY DEF Types, Cursor
  <2> QED
    BY <2>1, MaxCmdsAssumption
<1>2. step' \in Nat \ Failed /\ step' \in Nat \ {Finished}
  BY <1>1, MaxCmdsAssumption DEF FewSteps, Refused, Failed, LoadFailed, ResetFailed, Finished
<1>3. NothingAfterFailure'
  BY <1>2, StillNoFailure DEF Outcome
<1>4. ToldLast(Nat \ {Finished})'
  BY <1>1, <1>2, ToldNow
<1> QED
  BY <1>3, <1>4

LEMMA FpgaBeginOutcome ==
    ASSUME FewSteps, Types, Types', Cursor', Outcome, FpgaBegin
    PROVE  Outcome'
<1>1. at = "fetch" /\ UNCHANGED <<fpga, ads>>
  BY DEF FpgaBegin, Fetch, Here, device
<1>2. Settled'
  BY <1>1 DEF Outcome, Settled, Ready
<1>3. CASE Respond("fpga", Refused) /\ EndCommand(0, FALSE, "error")
  <2>1. Refused \in Nat /\ Refused \in Nat \ Failed /\ Refused \in Nat \ {Finished}
    BY DEF Refused, Failed, LoadFailed, ResetFailed, Finished
  <2>2. NothingAfterFailure'
    BY <1>1, <1>3, <2>1, StillNoFailure DEF Outcome
  <2>3. ToldLast(Nat \ {Finished})'
    BY <1>3, <2>1, ToldNow
  <2>4. at' \in {"done", "fetch"}
    BY <1>3 DEF EndCommand
  <2> QED
    BY <1>2, <2>2, <2>3, <2>4 DEF Outcome
<1>4. CASE step' = step + 1 /\ Respond("fpga", step') /\ Continue("load")
  BY <1>1, <1>2, <1>4, StepTold DEF Outcome, Continue
<1> QED
  BY <1>3, <1>4 DEF FpgaBegin

LEMMA StageOutcome ==
    ASSUME FewSteps, Types, Types', Cursor', Outcome,
           FpgaLoad \/ ResetOne \/ ResetTwo \/ FpgaFinish
    PROVE  Outcome'
<1>1. at \in {"load", "reset_one", "reset_two", "finish"} /\ at # "done"
  BY DEF FpgaLoad, ResetOne, ResetTwo, FpgaFinish, Here
<1>2. CASE FpgaLoad
  <2>1. CASE Respond("fpga", LoadFailed) /\ EndCommand(0, TRUE, "error")
    BY <1>1, <2>1, Fails DEF Failed
  <2>2. CASE step' = step + 1 /\ Respond("fpga", step') /\ Continue("reset_one")
    BY <1>1, <2>2, StepTold DEF Outcome, Continue
  <2> QED
    BY <1>2, <2>1, <2>2 DEF FpgaLoad
<1>3. CASE ResetFails
  BY <1>1, <1>3, Fails DEF Failed, ResetFails
<1>4. CASE ResetOne /\ ~ResetFails
  <2>1. /\ at = "reset_one" /\ at' = "reset_two" /\ UNCHANGED <<fpga, sent>>
        /\ ads' = ads \cup {AD_ONE_ID}
    BY <1>4 DEF ResetOne, Here, Continue, Silent
  <2>2. NothingAfterFailure'
    BY <1>1, <2>1, StillNoFailure DEF Outcome
  <2>3. ToldLast(Nat \ {Finished})'
    BY <2>1, ToldStill DEF Outcome
  <2> QED
    BY <2>1, <2>2, <2>3 DEF Outcome
<1>5. CASE ResetTwo /\ ~ResetFails
  <2>1. /\ at = "reset_two" /\ at' = "finish" /\ UNCHANGED fpga
        /\ ads' = ads \cup {AD_TWO_ID} /\ step' = step + 1 /\ Respond("fpga", step')
    BY <1>5 DEF ResetTwo, Here, Continue
  <2>2. Ready'
    BY <2>1 DEF Outcome, Ready, Types, Registrations
  <2> QED
    BY <1>1, <2>1, <2>2, StepTold DEF Outcome
<1>6. CASE FpgaFinish
  <2>1. at = "finish" /\ UNCHANGED <<fpga, ads>> /\ Respond("fpga", Finished) /\ at' \in {"done", "fetch"}
    BY <1>6 DEF FpgaFinish, Here, EndCommand, device
  <2>2. Ready' /\ Settled'
    BY <2>1 DEF Outcome, Ready, Settled
  <2>3. Finished \in Nat \ Failed
    BY DEF Finished, Failed, LoadFailed, ResetFailed
  <2>4. NothingAfterFailure'
    BY <1>1, <2>1, <2>3, StillNoFailure DEF Outcome
  <2> QED
    BY <2>1, <2>2, <2>4 DEF Outcome
<1> QED
  BY <1>2, <1>3, <1>4, <1>5, <1>6

LEMMA OutcomeKept ==
    ASSUME FewSteps, Types, Cursor, Outcome, [Next]_vars, Types', Cursor'
    PROVE  Outcome'
<1>1. CASE Return
  <2>1. at' = "wait" /\ sent' = <<>> /\ fpga' = "untouched"
    BY <1>1 DEF Return
  <2>2. Answers("fpga")' = {}
    BY <2>1 DEF Answers
  <2> QED
    BY <2>1, <2>2 DEF Outcome, NothingAfterFailure, ToldLast, Settled
<1>2. CASE UNCHANGED dispatcher
  <2>1. UNCHANGED <<at, sent, fpga, ads, ret>>
    BY <1>2 DEF dispatcher, device
  <2>2. \A S : ToldLast(S) => ToldLast(S)'
    BY <2>1 DEF ToldLast, Answers
  <2>3. NothingAfterFailure'
    BY <2>1 DEF Outcome, NothingAfterFailure
  <2> QED
    BY <2>1, <2>2, <2>3 DEF Outcome, Ready, Settled
<1> QED
  BY <1>1, <1>2, OthersOutcome, FpgaBeginOutcome, StageOutcome
     DEF Next, handler_control_frm, SimuFunction, vars

-----------------------------------------------------------------------------
LEMMA InitCursor == Init => Types /\ Cursor /\ Outcome
<1> SUFFICES ASSUME Init PROVE Types /\ Cursor /\ Outcome
  OBVIOUS
<1>1. <<>> \in Seq(Command) /\ <<>> \in Seq(Answer) /\ Len(<<>>) = 0 /\ 0 <= MaxCmds
  BY MaxCmdsAssumption
<1>2. Types
  BY <1>1 DEF Init, Types
<1>3. Cursor
  BY <1>1 DEF Init, Cursor, Stages
<1>4. Answers("fpga") = {}
  BY DEF Init, Answers
<1>5. Outcome
  BY <1>4 DEF Init, Outcome, NothingAfterFailure, ToldLast, Settled
<1> QED
  BY <1>2, <1>3, <1>5

\* Whatever the frames, the dispatcher's variables keep their types; the steps of the
\* reconfigurations are at most three for each command (network_op.c:859-1287).
THEOREM TypeCorrect == Spec => []TypeOK
<1>1. Types /\ Cursor => TypeOK
  <2> SUFFICES ASSUME Types, Cursor PROVE TypeOK
    OBVIOUS
  <2>1. \A k \in DOMAIN frame : frame[k] \in Command
    BY DEF Types
  <2>2. step \in 0..(3 * MaxCmds)
    BY MaxCmdsAssumption DEF Types, Cursor
  <2> QED
    BY <2>1, <2>2 DEF Types, TypeOK
<1> QED
  BY <1>1, InitCursor, TypesKept, CursorKept, PTL DEF Spec

\* Whatever the commands of a frame, their number and their order, the cursor stays
\* at the beginning of one, or at the end of the payload, but for the read that
\* counts both its arguments (network_op.c:859-866, 1014, 1285-1287).
THEOREM CursorStaysAtCommands == Spec => []CursorAtCommand
<1>1. Types /\ Cursor => CursorAtCommand
  <2> SUFFICES ASSUME Types, Cursor, \A k \in DOMAIN frame : frame[k].kind # "read"
               PROVE  \E n \in 0..Len(frame) : pos = Boundary(n)
    BY DEF CursorAtCommand
  <2>1. Len(frame) \in Nat
    BY DEF Types
  <2>2. \A n \in Nat : Doing(n) => n \in 0..Len(frame) /\ pos = Boundary(n)
    BY <2>1 DEF Doing
  <2>3. CASE at = "wait"
    BY <2>1, <2>3, BoundaryFacts DEF Cursor
  <2>4. CASE at = "done"
    BY <2>1, <2>4 DEF Cursor
  <2>5. CASE at \notin {"wait", "done"}
    <3>1. \E n \in Nat : Doing(n)
      BY <2>5 DEF Cursor, Types, Stages, Strayed
    <3> QED
      BY <2>2, <3>1
  <2> QED
    BY <2>3, <2>4, <2>5
<1> QED
  BY <1>1, InitCursor, TypesKept, CursorKept, PTL DEF Spec

\* For frames of any length with step numbers below the codes, when the handler returns
\* it has run the commands of the frame, each once and in their order, all of them or
\* those up to the failure, and the answers sent are theirs in the same order, the last
\* to an FPGA command alone being its code (network_op.c:859-1287).
THEOREM CommandsRunOnce == ASSUME FewSteps PROVE Spec => []EveryCommandOnce
<1>1. Types /\ Cursor => EveryCommandOnce
  <2> SUFFICES ASSUME Types, Cursor, at = "done" PROVE EveryCommandOnce
    BY DEF EveryCommandOnce
  <2>1. PICK n \in 1..Len(frame) : Record(n) /\ Answered(n) /\ (n = Len(frame) \/ loop_error)
    BY DEF Cursor
  <2>2. n \in DOMAIN frame
    BY DEF Types
  <2>3. Len(ran) = n /\ DOMAIN ran = 1..n
    BY <2>1 DEF Record
  <2> QED
    BY <2>1, <2>2, <2>3 DEF EveryCommandOnce, Record, Answered
<1> QED
  BY <1>1, InitCursor, TypesKept, CursorKept, PTL DEF Spec

\* For frames of any length with step numbers below the codes of failure, a load or a
\* reset that fails is the last thing of the frame (network_op.c:1145-1176, 1287).
THEOREM FailureEndsFrame == ASSUME FewSteps PROVE Spec => []NothingAfterFailure
<1>1. Outcome => NothingAfterFailure
  BY DEF Outcome
<1>2. Types /\ Cursor /\ Outcome /\ [Next]_vars => Types' /\ Cursor' /\ Outcome'
  BY TypesKept, CursorKept, OutcomeKept
<1> QED
  BY <1>1, <1>2, InitCursor, PTL DEF Spec

\* For the same frames, what the client is told last of a reconfiguration is so of the
\* reset of the chips (network_op.c:1114-1202).
THEOREM ResetIsAsTold == ASSUME FewSteps PROVE Spec => []ResetAsTold
<1>1. Outcome => ResetAsTold
  BY DEF Outcome, ResetAsTold, Ready, Settled, Failed
<1>2. Types /\ Cursor /\ Outcome /\ [Next]_vars => Types' /\ Cursor' /\ Outcome'
  BY TypesKept, CursorKept, OutcomeKept
<1> QED
  BY <1>1, <1>2, InitCursor, PTL DEF Spec

-----------------------------------------------------------------------------
(* The simulator under the dispatcher *)

SimuProofs == INSTANCE SimuExeProofs WITH Program <- {"MDKServer"}

Reconfiguring == at \in {"load", "reset_one", "reset_two", "finish"}

\* A reconfiguration begins with the flag idle and no function of SimuExe at work:
\* no child runs that is recorded, and by One none that is not.  None can be
\* started before it ends.
Alone == Reconfiguring => pc = "ready" /\ (~raced => \A n \in Simu!Pid : ~Simu!Running(n))

Inv == Types /\ SimuProofs!Inv /\ Alone

LEMMA CommandTyped ==
    ASSUME Types, Current # {}, TheCommand.kind \in SimuKind
    PROVE  TheCommand.elf \in Elf
<1>1. TheCommand \in Command
  BY DEF Types, Current, TheCommand
<1> QED
  BY <1>1 DEF Command, SimuKind, AdKind

\* Every step of the dispatcher is one of SimuExe, or changes nothing of it.
LEMMA StepSupervises == Types /\ [Next]_vars => [Simu!Next]_(Simu!vars)
<1> SUFFICES ASSUME Types, [Next]_vars PROVE Simu!Next \/ UNCHANGED simu
  BY DEF simu, Simu!vars, Simu!kernel, Simu!globals, Simu!control, Simu!history
<1>1. CASE SimuCommand
  <2>1. TheCommand.elf \in Elf /\ TheCommand.kind \in SimuKind
    BY <1>1, CommandTyped DEF SimuCommand, Fetch
  <2>2. Functions(TheCommand.kind) \in {<<"start">>, <<"stop">>, <<"stop", "start">>}
    BY <2>1 DEF Functions, SimuKind
  <2>3. Simu!Operation
    BY <1>1, <2>1, <2>2 DEF SimuCommand, Simu!Operation
  <2> QED
    BY <2>3 DEF Simu!Next, Simu!Main
<1>2. CASE SimuFunction
  BY <1>2 DEF SimuFunction, Simu!Next, Simu!Main
<1>3. CASE Receive \/ Return \/ OffTheFrame \/ OtherCommand \/ SetCommand \/ ReadCommand
  BY <1>3 DEF Receive, Return, OffTheFrame, OtherCommand, SetCommand, ReadCommand
<1>4. CASE FpgaBegin \/ FpgaLoad \/ ResetOne \/ ResetTwo \/ FpgaFinish \/ SimuAnswer
  BY <1>4 DEF FpgaBegin, FpgaLoad, ResetOne, ResetTwo, FpgaFinish, SimuAnswer
<1>5. CASE Simu!child_proc_exit \/ \E n \in Simu!Pid : Simu!ChildExit(n)
  BY <1>5 DEF Simu!Next
<1>6. CASE UNCHANGED vars
  BY <1>6 DEF vars
<1> QED
  BY <1>1, <1>2, <1>3, <1>4, <1>5, <1>6 DEF Next, handler_control_frm

\* The two instances are of the same module, with the same constants.
LEMMA SameNext == Simu!Next <=> SimuProofs!Next
<1> USE DEF Simu!Pid, SimuProofs!Pid, Simu!NoPid, SimuProofs!NoPid, Simu!Freed,
         SimuProofs!Freed, Simu!kernel, SimuProofs!kernel, Simu!globals,
         SimuProofs!globals, Simu!control, SimuProofs!control, Simu!history,
         SimuProofs!history, Simu!At, SimuProofs!At, Simu!Goto, SimuProofs!Goto,
         Simu!Return, SimuProofs!Return
<1>1. Simu!Forked = SimuProofs!Forked
  BY DEF Simu!Forked, SimuProofs!Forked
<1>2. Simu!start_simu_exe <=> SimuProofs!start_simu_exe
  <2>1. Simu!StartCheck <=> SimuProofs!StartCheck
    BY DEF Simu!StartCheck, SimuProofs!StartCheck
  <2>2. Simu!Fork <=> SimuProofs!Fork
    BY <1>1 DEF Simu!Fork, SimuProofs!Fork
  <2>3. Simu!SetPid <=> SimuProofs!SetPid
    BY DEF Simu!SetPid, SimuProofs!SetPid
  <2>4. Simu!DupCmd <=> SimuProofs!DupCmd
    BY DEF Simu!DupCmd, SimuProofs!DupCmd
  <2>5. Simu!SetRunning <=> SimuProofs!SetRunning
    BY DEF Simu!SetRunning, SimuProofs!SetRunning
  <2> QED
    BY <2>1, <2>2, <2>3, <2>4, <2>5 DEF Simu!start_simu_exe, SimuProofs!start_simu_exe
<1>3. Simu!stop_simu_exe <=> SimuProofs!stop_simu_exe
  <2>1. Simu!StopCheck <=> SimuProofs!StopCheck
    BY DEF Simu!StopCheck, SimuProofs!StopCheck
  <2>2. Simu!StopCompare <=> SimuProofs!StopCompare
    BY DEF Simu!StopCompare, SimuProofs!StopCompare
  <2>3. Simu!StopWait <=> SimuProofs!StopWait
    BY DEF Simu!StopWait, SimuProofs!StopWait, Simu!Waited, SimuProofs!Waited, Simu!Running, SimuProofs!Running, Simu!Exists, SimuProofs!Exists
  <2>4. Simu!StopKill <=> SimuProofs!StopKill
    BY DEF Simu!StopKill, SimuProofs!StopKill
  <2>5. Simu!StopLog <=> SimuProofs!StopLog
    BY DEF Simu!StopLog, SimuProofs!StopLog
  <2>6. Simu!SetIdle <=> SimuProofs!SetIdle
    BY DEF Simu!SetIdle, SimuProofs!SetIdle
  <2>7. Simu!ResetPid <=> SimuProofs!ResetPid
    BY DEF Simu!ResetPid, SimuProofs!ResetPid
  <2>8. Simu!FreeStopped <=> SimuProofs!FreeStopped
    BY DEF Simu!FreeStopped, SimuProofs!FreeStopped, Simu!FreeCmd, SimuProofs!FreeCmd
  <2>9. Simu!ClearStopped <=> SimuProofs!ClearStopped
    BY DEF Simu!ClearStopped, SimuProofs!ClearStopped
  <2>10. Simu!StopReturn <=> SimuProofs!StopReturn
    BY DEF Simu!StopReturn, SimuProofs!StopReturn
  <2> QED
    BY <2>1, <2>2, <2>3, <2>4, <2>5, <2>6, <2>7, <2>8, <2>9, <2>10 DEF Simu!stop_simu_exe, SimuProofs!stop_simu_exe
<1>4. Simu!child_proc_exit <=> SimuProofs!child_proc_exit
  BY DEF Simu!child_proc_exit, SimuProofs!child_proc_exit, Simu!Logging,
         SimuProofs!Logging, Simu!Late, SimuProofs!Late, Simu!Early, SimuProofs!Early,
         Simu!Running, SimuProofs!Running
<1>5. \A c : Simu!ChildExit(c) <=> SimuProofs!ChildExit(c)
  BY DEF Simu!ChildExit, SimuProofs!ChildExit, Simu!Exists, SimuProofs!Exists,
         Simu!HandlerInstalled, SimuProofs!HandlerInstalled
<1>6. \A f, e : Simu!Begin(f, e) <=> SimuProofs!Begin(f, e)
  BY DEF Simu!Begin, SimuProofs!Begin
<1> QED
  BY <1>2, <1>3, <1>4, <1>5, <1>6 DEF Simu!Next, SimuProofs!Next, Simu!Main, SimuProofs!Main, Simu!Operation,
         SimuProofs!Operation

LEMMA InstanceAssumptions ==
    SimuProofs!ProgramAssumption /\ SimuProofs!ForksAssumption /\ SimuProofs!ElfAssumption
BY SimuAssumption
   DEF SimuProofs!ProgramAssumption, SimuProofs!ForksAssumption, SimuProofs!ElfAssumption,
       Simu!Lost, Simu!Freed, SimuProofs!Lost, SimuProofs!Freed

LEMMA SimuStep == SimuProofs!Inv /\ [Simu!Next]_(Simu!vars) => SimuProofs!Inv'
<1>1. SimuProofs!ProgramAssumption /\ SimuProofs!ForksAssumption /\ SimuProofs!ElfAssumption
  BY InstanceAssumptions
<1>2. UNCHANGED Simu!vars => UNCHANGED SimuProofs!vars
  BY DEF Simu!vars, SimuProofs!vars, Simu!kernel, SimuProofs!kernel, Simu!globals,
         SimuProofs!globals, Simu!control, SimuProofs!control, Simu!history, SimuProofs!history
<1>3. SimuProofs!Inv /\ [SimuProofs!Next]_(SimuProofs!vars) => SimuProofs!Inv'
  BY <1>1, SimuProofs!NextInv
<1> QED
  BY <1>2, <1>3, SameNext

-----------------------------------------------------------------------------
LEMMA InitInv == Init => Inv
<1> SUFFICES ASSUME Init PROVE Inv
  OBVIOUS
<1>1. SimuProofs!ProgramAssumption /\ SimuProofs!ForksAssumption /\ SimuProofs!ElfAssumption
  BY InstanceAssumptions
<1>2. SimuProofs!Init
  BY DEF Init, Simu!Init, SimuProofs!Init, Simu!Pid, SimuProofs!Pid, Simu!NoPid, SimuProofs!NoPid
<1>3. SimuProofs!Inv
  BY <1>1, <1>2, SimuProofs!InitInv
<1>4. Types /\ Alone
  BY InitCursor DEF Init, Alone, Reconfiguring
<1> QED
  BY <1>3, <1>4 DEF Inv

\* Functions of SimuExe run, or begin, only where no reconfiguration is under way.
LEMMA AloneKept == Inv /\ [Next]_vars => Alone'
<1> SUFFICES ASSUME Inv, [Next]_vars, Reconfiguring' PROVE Alone'
  BY DEF Alone
<1> USE DEF Inv, Alone, Reconfiguring, Simu!At, Simu!Running
<1>1. CASE FpgaBegin
  <2>1. pc = "ready" /\ flag = "idle" /\ UNCHANGED simu
    BY <1>1 DEF FpgaBegin, Fetch, Here, EndCommand
  <2>2. ~raced => \A n \in Simu!Pid : ~Simu!Running(n)
    BY <2>1 DEF SimuProofs!Inv, SimuProofs!One, SimuProofs!Early, SimuProofs!Running,
                SimuProofs!Pid, Simu!Pid
  <2> QED
    BY <2>1, <2>2 DEF simu
<1>2. CASE FpgaLoad \/ ResetOne \/ ResetTwo
  BY <1>2 DEF FpgaLoad, ResetOne, ResetTwo, ResetFails, EndCommand, Continue, Here, simu
<1>3. CASE Receive \/ Return \/ OffTheFrame \/ OtherCommand \/ SetCommand \/ ReadCommand
             \/ FpgaFinish \/ SimuCommand \/ SimuAnswer
  BY <1>3 DEF Receive, Return, OffTheFrame, OtherCommand, SetCommand, ReadCommand,
              FpgaFinish, SimuCommand, SimuAnswer, EndCommand, Continue
<1>4. CASE SimuFunction
  <2>1. Reconfiguring
    BY <1>4 DEF SimuFunction, dispatcher
  <2>2. pc = "ready"
    BY <2>1
  <2>3. ~Simu!start_simu_exe /\ ~Simu!stop_simu_exe
    BY <2>2 DEF Simu!start_simu_exe, Simu!stop_simu_exe, Simu!StartCheck, Simu!Fork, Simu!SetPid,
        Simu!DupCmd, Simu!SetRunning, Simu!StopCheck, Simu!StopCompare, Simu!StopWait,
        Simu!StopKill, Simu!StopLog, Simu!SetIdle, Simu!ResetPid, Simu!FreeStopped,
        Simu!ClearStopped, Simu!StopReturn
  <2> QED
    BY <1>4, <2>3 DEF SimuFunction
<1>5. CASE Simu!child_proc_exit /\ UNCHANGED dispatcher
  BY <1>5 DEF Simu!child_proc_exit, Simu!control, dispatcher, SimuProofs!Inv, SimuProofs!Flow
<1>6. CASE (\E n \in Simu!Pid : Simu!ChildExit(n)) /\ UNCHANGED dispatcher
  <2>1. PICK n \in Simu!Pid : Simu!ChildExit(n)
    BY <1>6
  <2>2. UNCHANGED <<pc, raced, at>>
    BY <1>6, <2>1 DEF Simu!ChildExit, Simu!control, Simu!history, dispatcher
  <2>3. child' = [child EXCEPT ![n] = "zombie"] /\ child \in [Simu!Pid -> {"none", "alive", "killed", "zombie", "reaped"}]
    BY <2>1 DEF Simu!ChildExit, SimuProofs!Inv, SimuProofs!TypeOK, SimuProofs!Pid, Simu!Pid
  <2>4. \A m \in Simu!Pid : Simu!Running(m)' => Simu!Running(m)
    BY <2>3
  <2> QED
    BY <2>2, <2>4
<1>7. CASE UNCHANGED vars
  BY <1>7 DEF vars, simu, dispatcher
<1> QED
  BY <1>1, <1>2, <1>3, <1>4, <1>5, <1>6, <1>7 DEF Next, handler_control_frm

LEMMA NextInv == Inv /\ [Next]_vars => Inv'
BY StepSupervises, SimuStep, AloneKept, TypesKept DEF Inv

\* Whatever the frames, the simulator is started, stopped and restarted as SimuExe
\* has it, so that its theorems hold of the server as a whole
\* (network_op.c:1218-1268).
THEOREM DispatcherSupervises == Spec => Simu!Spec
<1>1. Init => Simu!Init /\ Types
  BY InitCursor DEF Init
<1> QED
  BY <1>1, StepSupervises, TypesKept, PTL DEF Spec, Simu!Spec

\* For frames of any length, any executables and any number of children, the FPGA is
\* written to, and the AD chips are reset, only while no simulator runs, unless a
\* signal has come between a fork and the flag or for an older child
\* (network_op.c:1114-1202).
THEOREM ReconfiguresAlone == Spec => []ReconfigureAlone
<1>1. Inv => ReconfigureAlone
  BY DEF Inv, Alone, Reconfiguring, ReconfigureAlone
<1> QED
  BY <1>1, InitInv, NextInv, PTL DEF Spec
=============================================================================
