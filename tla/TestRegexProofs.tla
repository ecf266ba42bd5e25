--------------------------- MODULE TestRegexProofs ---------------------------
(***************************************************************************)
(* Theorems about the regular expression test harness, for any files, any  *)
(* options and any library.                                                *)
(***************************************************************************)
EXTENDS TestRegex, TLAPS

----------------------------------------------------------------------------
(* Patterns and the alarm *)

(* Where in a call the harness can be, and what that says of preg and of   *)
(* the alarm.  A call that has returned a result of the library has the    *)
(* alarm still on; one that was interrupted has not.                       *)
CallsInv ==
  /\ pc \in {"read", "compile", "start", "call", "hung", "returned", "exit"}
  /\ call.fn \in {"regcomp", "regexec", "regfree"}
  /\ call.then \in {"compile", "start", "read"}
  /\ pc \in {"read", "compile", "start"} => preg # "compiled"
  /\ pc \in {"call", "hung"} =>
       (preg = "compiled" <=> call.fn \in {"regexec", "regfree"})
  /\ pc = "returned" =>
       /\ call.fn = "regcomp" => (preg = "compiled" <=> result \in {"ok", "short"})
       /\ call.fn = "regexec" => preg = "compiled"
       /\ call.fn = "regfree" => preg # "compiled"
  /\ alarm => \/ pc \in {"call", "hung", "exit"}
              \/ pc = "returned" /\ result \notin Interrupted

LEMMA CallsInit == Init => CallsInv
BY DEF Init, CallsInv, Interrupted

(* Reading lines calls nothing. *)
LEMMA CallsRead ==
  ASSUME CallsInv, ReadLine \/ Comment \/ BadLine \/ EndOfFile
  PROVE  CallsInv'
<1>1. CASE ReadLine
  <2>1. /\ pc = "read" /\ pc' \in {"read", "compile"}
        /\ UNCHANGED <<call, result, preg, alarm>>
    BY <1>1 DEF ReadLine, Sequenced, signals
  <2>. QED BY <2>1 DEF CallsInv, Interrupted
<1>2. CASE Comment
  BY <1>2 DEF Comment, CallsInv, signals, Interrupted
<1>3. CASE BadLine
  BY <1>3 DEF BadLine, CallsInv, signals, Interrupted
<1>4. CASE EndOfFile
  BY <1>4 DEF EndOfFile, CallsInv, signals, Interrupted
<1>. QED BY <1>1, <1>2, <1>3, <1>4

(* What the harness does of itself: it frees what it has compiled before   *)
(* it goes on, and comes back from a call with the alarm off.              *)
LEMMA CallsTest ==
  ASSUME CallsInv, Testing
  PROVE  CallsInv'
<1>1. CASE Compile
  <2>1. /\ pc = "compile" /\ pc' \in {"start", "read"}
        /\ UNCHANGED <<call, result, preg, alarm>>
    BY <1>1 DEF Compile, signals
  <2>. QED BY <2>1 DEF CallsInv, Interrupted
<1>2. CASE Start
  BY <1>2 DEF Start, Call, CallsInv, Interrupted
<1>3. CASE Compiled
  <2>1. /\ pc = "returned" /\ call.fn = "regcomp" /\ result \in {"ok", "short"}
        /\ UNCHANGED preg
        /\ \/ Call("regfree", "read") \/ Call("regexec", "compile")
    BY <1>3 DEF Compiled, GiveUp
  <2>. QED BY <2>1 DEF CallsInv, Call, Interrupted
<1>4. CASE Refused
  BY <1>4 DEF Refused, CallsInv, Interrupted, AlarmLeft
<1>5. CASE Executed
  <2>1. /\ pc = "returned" /\ call.fn = "regexec" /\ UNCHANGED preg
        /\ Call("regfree", IF Again THEN "start" ELSE "compile")
    BY <1>5 DEF Executed
  <2>. QED BY <2>1 DEF CallsInv, Call, Interrupted
<1>6. CASE Freed
  <2>1. /\ pc = "returned" /\ call.fn = "regfree" /\ UNCHANGED <<call, preg, result>>
        /\ alarm' = AlarmLeft
        /\ pc' \in {"read", call.then}
    BY <1>6 DEF Freed
  <2>. QED BY <2>1 DEF CallsInv, AlarmLeft, Interrupted
<1>. QED BY <1>1, <1>2, <1>3, <1>4, <1>5, <1>6 DEF Testing

(* Whatever the library does, and wherever the alarm interrupts it. *)
LEMMA CallsLibrary ==
  ASSUME CallsInv, Returns \/ Hangs \/ Faults \/ AlarmExpires
  PROVE  CallsInv'
<1>. USE TestRegexAssumption
<1>1. CASE Returns
  <2>1. PICK r \in Answers(call.fn) :
          /\ pc = "call" /\ pc' = "returned" /\ result' = r
          /\ preg' = CASE call.fn = "regcomp" -> IF r \in Code THEN "none" ELSE "compiled"
                       [] call.fn = "regexec" -> preg
                       [] call.fn = "regfree" -> "none"
          /\ UNCHANGED <<call, alarm>>
    BY <1>1 DEF Returns, signals
  <2>2. CASE call.fn = "regcomp"
    <3>1. r \in {"ok", "short"} \cup Code
      BY <2>1, <2>2 DEF Answers
    <3>2. preg' = IF r \in Code THEN "none" ELSE "compiled"
      BY <2>1, <2>2
    <3>. QED BY <2>1, <2>2, <3>1, <3>2 DEF CallsInv, Interrupted
  <2>3. CASE call.fn = "regexec"
    <3>1. r \in {"NOMATCH", "ESPACE"} \cup Match
      BY <2>1, <2>3 DEF Answers, Positions, Match
    <3>. QED BY <2>1, <2>3, <3>1 DEF CallsInv, Interrupted, Match
  <2>4. CASE call.fn = "regfree"
    BY <2>1, <2>4 DEF CallsInv, Interrupted, Answers
  <2>. QED BY <2>2, <2>3, <2>4 DEF CallsInv
<1>2. CASE Hangs
  BY <1>2 DEF Hangs, CallsInv, signals, Interrupted
<1>3. CASE Faults
  <2>1. /\ pc = "call" /\ UNCHANGED call
        /\ \/ /\ alarm' = FALSE /\ pc' = "returned" /\ result' \in Interrupted
              /\ preg' = IF call.fn = "regexec" THEN preg ELSE "unknown"
           \/ pc' = "exit" /\ UNCHANGED <<alarm, result, preg>>
    BY <1>3 DEF Faults, gotcha, Interrupted
  <2>. QED BY <2>1 DEF CallsInv, Interrupted
<1>4. CASE AlarmExpires
  <2>1. /\ alarm /\ pc # "exit" /\ UNCHANGED call
        /\ alarm' = FALSE /\ pc' = "returned" /\ result' = "EHUNG"
        /\ preg' = IF call.fn = "regexec" THEN preg ELSE "unknown"
    BY <1>4 DEF AlarmExpires, gotcha
  <2>. QED BY <2>1 DEF CallsInv, Interrupted
<1>. QED BY <1>1, <1>2, <1>3, <1>4

(* In every state the pattern and the alarm are as the calls made so far    *)
(* leave them: the invariant that the next two theorems rest on.           *)
THEOREM CallsInvariant == Spec => []CallsInv
<1>1. CallsInv /\ [Next]_vars => CallsInv'
  <2>. SUFFICES ASSUME CallsInv, [Next]_vars PROVE CallsInv'
    OBVIOUS
  <2>1. CASE UNCHANGED vars
    BY <2>1 DEF vars, signals, CallsInv, Interrupted
  <2>. QED
    BY <2>1, CallsRead, CallsTest, CallsLibrary DEF Next, Testing
<1>. QED BY CallsInit, <1>1, PTL DEF Spec

(* Every pattern that was compiled is freed before the next is, and none is *)
(* used or freed twice, for any library and any interruption.              *)
THEOREM PatternsFreed == Spec => []PatternsAreFreed
<1>1. CallsInv => PatternsAreFreed
  BY DEF CallsInv, PatternsAreFreed
<1>. QED BY <1>1, CallsInvariant, PTL

(* No alarm goes off outside a call. *)
THEOREM AlarmsOff == Spec => []AlarmsAreOff
<1>1. CallsInv => AlarmsAreOff
  BY DEF CallsInv, AlarmsAreOff
<1>. QED BY <1>1, CallsInvariant, PTL

----------------------------------------------------------------------------
(* Counting *)

Counters ==
  [errors : Int, ignored : Nat, passed : Nat, signals : Nat, unspecified : Nat,
   warnings : Nat]

Verdicts == [count : Counters, skip : SUBSET Nat, extracted : BOOLEAN]

(* What a check makes of a verdict: it skips at most the block it is in,   *)
(* and that only in a listing or for a line that opens the block.          *)
Becomes(v, f, w) ==
  /\ w \in Verdicts
  /\ \/ w.skip = v.skip
     \/ w.skip = v.skip \cup {level} /\ f \cap (Listing \cup {"QUERY"}) # {}

LEMMA CountedType ==
  ASSUME NEW c \in Counters, NEW f PROVE Counted(c, f) \in Counters
BY DEF Counted, Counters

LEMMA ReportType ==
  ASSUME NEW v \in Verdicts, NEW f PROVE Becomes(v, f, report(v, f))
BY CountedType DEF Becomes, report, Verdicts

LEMMA ExtractType ==
  ASSUME NEW v \in Verdicts, NEW f, NEW ok \in BOOLEAN, level \in Nat
  PROVE  Becomes(v, f, extract(v, f, ok))
<1>. DEFINE c == IF ok THEN [v.count EXCEPT !.passed = @ + 1] ELSE Counted(v.count, f)
<1>1. v.count \in Counters /\ v.skip \in SUBSET Nat /\ v.extracted \in BOOLEAN
  BY DEF Verdicts
<1>2. c \in Counters
  BY <1>1, CountedType DEF Counters
<1>. HIDE DEF c
<1>3. Becomes(v, f, [count |-> c, extracted |-> TRUE, skip |-> v.skip])
  BY <1>1, <1>2 DEF Becomes, Verdicts
<1>4. f \cap Listing # {} =>
        Becomes(v, f, [count |-> c, extracted |-> TRUE, skip |-> v.skip \cup {level}])
  BY <1>1, <1>2 DEF Becomes, Verdicts
<1>5. "QUERY" \in f => Becomes(v, f, note(v))
  BY <1>1 DEF Becomes, Verdicts, note
<1>6. Becomes(v, f, [v EXCEPT !.extracted = @ \/ "VERIFY" \in f])
  <2>1. ASSUME NEW e \in BOOLEAN PROVE Becomes(v, f, [v EXCEPT !.extracted = e])
    BY DEF Becomes, Verdicts
  <2>2. (v.extracted \/ "VERIFY" \in f) \in BOOLEAN
    OBVIOUS
  <2>. QED BY <2>1, <2>2
<1>7. CASE f \cap Listing # {} \/ ok
  BY <1>1, <1>3, <1>4, <1>7 DEF extract, c
<1>8. CASE ~(f \cap Listing # {} \/ ok)
  BY <1>5, <1>6, <1>8 DEF extract
<1>. QED BY <1>7, <1>8

LEMMA FailedType ==
  ASSUME NEW v \in Verdicts, NEW f, level \in Nat
  PROVE  Becomes(v, f, failed(v, f))
BY ReportType, ExtractType DEF failed

LEMMA BecomesTwice ==
  ASSUME NEW u, NEW v, NEW w, NEW f, Becomes(u, f, v), Becomes(v, f, w)
  PROVE  Becomes(u, f, w)
BY DEF Becomes

LEMMA CountersChange ==
  ASSUME NEW c \in Counters
  PROVE  /\ [c EXCEPT !.errors = @ + 1] \in Counters
         /\ [c EXCEPT !.ignored = @ + 1] \in Counters
         /\ [[c EXCEPT !.errors = @ - 1] EXCEPT !.warnings = @ + 1] \in Counters
<1>1. c.errors + 1 \in Int /\ c.errors - 1 \in Int /\ c.ignored + 1 \in Nat
        /\ c.warnings + 1 \in Nat
  BY DEF Counters
<1>2. \A e \in Int : [c EXCEPT !.errors = e] \in Counters
  BY DEF Counters
<1>3. \A e \in Nat : [c EXCEPT !.ignored = e] \in Counters
  BY DEF Counters
<1>4. \A e \in Int, n \in Nat : [[c EXCEPT !.errors = e] EXCEPT !.warnings = n] \in Counters
  BY DEF Counters
<1>5. [c EXCEPT !.errors = c.errors - 1].warnings = c.warnings
  BY DEF Counters
<1>. QED BY <1>1, <1>2, <1>3, <1>4, <1>5

LEMMA OneMore ==
  ASSUME NEW v, NEW f, NEW w, Becomes(v, f, w)
  PROVE  /\ Becomes(v, f, [w EXCEPT !.count.errors = @ + 1])
         /\ Becomes(v, f, [w EXCEPT !.count.ignored = @ + 1])
         /\ Becomes(v, f, [w EXCEPT !.count.errors = @ - 1, !.count.warnings = @ + 1])
<1>1. w \in Verdicts /\ w.count \in Counters
  BY DEF Becomes, Verdicts
<1>2. /\ [w.count EXCEPT !.errors = @ + 1] \in Counters
      /\ [w.count EXCEPT !.ignored = @ + 1] \in Counters
      /\ [[w.count EXCEPT !.errors = @ - 1] EXCEPT !.warnings = @ + 1] \in Counters
  BY <1>1, CountersChange
<1>3. ASSUME NEW c \in Counters PROVE Becomes(v, f, [w EXCEPT !.count = c])
  BY <1>1 DEF Becomes, Verdicts
<1>4. /\ [w EXCEPT !.count.errors = @ + 1] =
           [w EXCEPT !.count = [w.count EXCEPT !.errors = @ + 1]]
      /\ [w EXCEPT !.count.ignored = @ + 1] =
           [w EXCEPT !.count = [w.count EXCEPT !.ignored = @ + 1]]
      /\ [w EXCEPT !.count.errors = @ - 1, !.count.warnings = @ + 1] =
           [w EXCEPT !.count = [[w.count EXCEPT !.errors = @ - 1] EXCEPT !.warnings = @ + 1]]
  BY <1>1 DEF Verdicts, Counters
<1>. QED BY <1>2, <1>3, <1>4

LEMMA SelfVerdict ==
  ASSUME NEW v \in Verdicts, NEW f PROVE Becomes(v, f, v)
BY DEF Becomes

(* The verdicts of main. *)
LEMMA VerdictTypes ==
  ASSUME Unjudged \in Verdicts, level \in Nat
  PROVE  /\ Becomes(Unjudged, Flags, GroupsJudged)
         /\ Becomes(Unjudged, Flags, RefusalJudged)
         /\ Becomes(Unjudged, Flags, MatchJudged)
         /\ \A v \in {GroupsJudged} :
              /\ Becomes(Unjudged, Flags, extract(v, Flags, FALSE))
              /\ Becomes(Unjudged, Flags, report(v, Flags))
<1>1. Becomes(Unjudged, Flags, GroupsJudged)
  BY ReportType, ExtractType, OneMore, SelfVerdict DEF GroupsJudged
<1>2. ASSUME NEW v, Becomes(Unjudged, Flags, v)
      PROVE  /\ Becomes(Unjudged, Flags, extract(v, Flags, FALSE))
             /\ Becomes(Unjudged, Flags, extract(v, Flags, TRUE))
             /\ Becomes(Unjudged, Flags, report(v, Flags))
  <2>1. v \in Verdicts
    BY <1>2 DEF Becomes
  <2>. QED BY <1>2, <2>1, ReportType, ExtractType, BecomesTwice
<1>3. Becomes(Unjudged, Flags, Warned(Unjudged))
  BY ReportType, ExtractType, OneMore, SelfVerdict DEF Warned
<1>4. Becomes(Unjudged, Flags, RefusalJudged)
  BY <1>3, FailedType, SelfVerdict DEF RefusalJudged
<1>5. Becomes(Unjudged, Flags, Mismatch(Unjudged))
  BY ReportType, OneMore, SelfVerdict DEF Mismatch
<1>6. Becomes(Unjudged, Flags, MatchJudged)
  BY <1>2, <1>5, FailedType, ExtractType, SelfVerdict DEF MatchJudged
<1>. QED BY <1>1, <1>2, <1>4, <1>6

----------------------------------------------------------------------------
(* Blocks and types *)

(* Once a block is skipped, so are those within it; the locale belongs to  *)
(* an open block, which is not skipped as long as nothing is listed.       *)
BlocksInv ==
  /\ lines \in Nat /\ lines <= MaxLines
  /\ level \in Nat /\ 1 <= level /\ level <= lines + 1
  /\ locale \in Nat /\ locale <= lines + 1
  /\ \A k \in skip : k \in Nat /\ 1 <= k /\ k <= lines + 1
  /\ \A j, k \in Nat : k \in skip /\ k <= j /\ j <= level => j \in skip
  /\ pc = "call" /\ call.fn = "regcomp" => level \notin skip
  /\ options \cap Listing = {} /\ file = 1 =>
       /\ locale <= level
       /\ locale = 0 => "CTYPE" \notin changed
       /\ locale \notin skip
       /\ "QUERY" \in test => locale < level

(* TypeOK but for the lines and the blocks, which BlocksInv bounds. *)
RestOK ==
  /\ options \in OptionSets /\ line \in Line
  /\ file \in 1..MaxFiles
  /\ test \subseteq Mode \cup {"UNSPECIFIED", "LENIENT", "QUERY", "VERIFY", "AND", "OR"}
  /\ changed \subseteq {"COLLATE", "CTYPE"}
  /\ verify \in Nat
  /\ count \in Counters
  /\ extracted \in BOOLEAN /\ grouped \in BOOLEAN /\ nosub \in BOOLEAN
  /\ pc \in Status
  /\ call \in [fn : {"regcomp", "regexec", "regfree"}, then : {"compile", "start", "read"}]
  /\ preg \in {"none", "compiled", "unknown"}
  /\ alarm \in BOOLEAN /\ blocked \subseteq {"SIGALRM", "SIGSEGV", "SIGBUS"}

HarnessInv == RestOK /\ BlocksInv

LEMMA TypeParts == HarnessInv => TypeOK
BY TestRegexAssumption DEF HarnessInv, TypeOK, RestOK, BlocksInv, Counters

LEMMA HarnessInit == Init => HarnessInv
<1>. SUFFICES ASSUME Init PROVE HarnessInv
  OBVIOUS
<1>1. line \in Line
  BY TestRegexAssumption DEF Init
<1>2. RestOK
  <2>1. options \in OptionSets /\ file \in 1..MaxFiles
    BY TestRegexAssumption DEF Init
  <2>2. count \in Counters
    BY DEF Init, Counters
  <2>. QED BY <1>1, <2>1, <2>2 DEF Init, RestOK, Status
<1>3. BlocksInv
  BY TestRegexAssumption DEF Init, BlocksInv
<1>. QED BY <1>2, <1>3 DEF HarnessInv

(* Opening and closing a block, entering a locale or not, and reading      *)
(* another line.                                                           *)
LEMMA BlocksRead ==
  ASSUME BlocksInv, lines < MaxLines, lines' = lines + 1,
         UNCHANGED <<options, file>>, pc' # "call",
         \/ level' = level + 1 /\ skip' = Opened /\ UNCHANGED <<locale, changed>>
         \/ /\ level' = level + 1 /\ locale = 0 /\ "QUERY" \notin test'
            /\ level \notin skip /\ EnterLocale
         \/ /\ level > 1 /\ level' = level - 1 /\ locale' = LocaleLeft
            /\ changed' = IF locale = level /\ level \notin skip THEN {} ELSE changed
            /\ UNCHANGED skip /\ "QUERY" \notin test'
         \/ UNCHANGED blocks /\ "QUERY" \notin test'
  PROVE  BlocksInv'
<1>0. MaxLines \in Nat
  BY TestRegexAssumption
<1>. USE <1>0 DEF BlocksInv
<1>1. CASE level' = level + 1 /\ skip' = Opened /\ UNCHANGED <<locale, changed>>
  BY <1>1 DEF Opened
<1>2. CASE /\ level' = level + 1 /\ locale = 0 /\ skip' = Opened /\ "QUERY" \notin test'
           /\ level \notin skip /\ locale' = level + 1
  BY <1>2 DEF Opened
<1>3. CASE /\ level' = level + 1 /\ locale = 0 /\ "QUERY" \notin test'
           /\ level \notin skip /\ skip' = Opened \cup {level + 1} /\ UNCHANGED locale
           /\ changed' \in {changed, changed \ {"COLLATE"}, changed \cup {"COLLATE"},
                            {"COLLATE"}}
  BY <1>3 DEF Opened
<1>4. CASE /\ level > 1 /\ level' = level - 1 /\ locale' = LocaleLeft
           /\ changed' = IF locale = level /\ level \notin skip THEN {} ELSE changed
           /\ UNCHANGED skip /\ "QUERY" \notin test'
  BY <1>4 DEF LocaleLeft
<1>5. CASE UNCHANGED blocks /\ "QUERY" \notin test'
  BY <1>5 DEF blocks
<1>. QED BY <1>1, <1>2, <1>3, <1>4, <1>5 DEF EnterLocale

(* Testing a line. *)
LEMMA BlocksKept ==
  ASSUME BlocksInv, UNCHANGED <<options, file, lines, level, locale, changed>>,
         test' \subseteq test,
         \/ skip' = skip
         \/ /\ skip' = skip \cup {level}
            /\ options \cap Listing = {} => "QUERY" \in test,
         ~(pc' = "call" /\ call'.fn = "regcomp" /\ level \in skip')
  PROVE  BlocksInv'
<1>0. MaxLines \in Nat
  BY TestRegexAssumption
<1>. USE <1>0 DEF BlocksInv
<1>1. CASE skip' = skip
  BY <1>1
<1>2. CASE /\ skip' = skip \cup {level}
           /\ options \cap Listing = {} => "QUERY" \in test
  BY <1>2
<1>. QED BY <1>1, <1>2

TestBits == Mode \cup {"UNSPECIFIED", "LENIENT", "QUERY", "VERIFY", "AND", "OR"}

LEMMA ControlledType ==
  ASSUME NEW l \in Line
  PROVE  /\ Controlled(l) \subseteq TestBits
         /\ "QUERY" \in Controlled(l) => l.control = "{"
<1>1. l \in LineType
  BY TestRegexAssumption
<1>2. l.modes \subseteq Mode /\ l.flags \subseteq {"UNSPECIFIED", "LENIENT"}
  BY <1>1 DEF LineType
<1>. DEFINE kept == (test \cap {"AND", "OR"}) \cup l.modes \cup l.flags
<1>3. kept \subseteq TestBits /\ "QUERY" \notin kept
  BY <1>2 DEF TestBits, Mode
<1>. HIDE DEF kept
<1>4. Controlled(l) \in {kept, (kept \ {"AND", "OR"}) \cup {"VERIFY"},
        (kept \ {"OR"}) \cup {"VERIFY", "AND"}, (kept \ {"AND"}) \cup {"VERIFY", "OR"},
        (kept \ {"AND"}) \cup {"OR"}, kept \cup {"QUERY"}}
  BY DEF Controlled, kept
<1>5. Controlled(l) = kept \cup {"QUERY"} => l.control = "{" \/ Controlled(l) = kept
  BY DEF Controlled, kept
<1>. QED BY <1>3, <1>4, <1>5 DEF TestBits

LEMMA HarnessReadLine ==
  ASSUME HarnessInv, ReadLine
  PROVE  HarnessInv'
<1>1. PICK l \in Line :
        /\ line' = l
        /\ \/ OpenBlock(l)
           \/ CloseBlock(l)
           \/ l.control \notin {"{", "{C", "}", "malformed"} /\ UNCHANGED blocks
        /\ verify' = IF l.control = "?" THEN count.passed ELSE verify
        /\ \/ /\ Untested(l)
              /\ test' = Controlled(l) /\ pc' = "read"
              /\ UNCHANGED count
           \/ /\ ~Untested(l)
              /\ Sequenced(Controlled(l), verify',
                           IF l.feature = "supported" THEN "compile" ELSE "read")
        /\ nosub' = l.nosub
  BY DEF ReadLine
<1>2. /\ lines < MaxLines /\ lines' = lines + 1
      /\ extracted' = FALSE /\ grouped' = FALSE
      /\ UNCHANGED <<options, file, call, result, preg, alarm, blocked>>
  BY DEF ReadLine, signals
<1>3. l \in LineType /\ l.nosub \in BOOLEAN
  BY TestRegexAssumption DEF LineType
<1>4. verify' \in Nat
  BY <1>1 DEF HarnessInv, RestOK, Counters
<1>5. /\ test' \in {Controlled(l), Controlled(l) \ {"OR"}}
      /\ pc' \in {"read", "compile"}
      /\ count' \in {count, [count EXCEPT !.passed = verify']}
  BY <1>1 DEF Sequenced
<1>6. test' \subseteq TestBits /\ ("QUERY" \in test' => l.control = "{")
  BY <1>5, ControlledType
<1>7. count' \in Counters
  BY <1>4, <1>5 DEF HarnessInv, RestOK, Counters
<1>8. changed' \subseteq {"COLLATE", "CTYPE"}
  BY <1>1 DEF OpenBlock, EnterLocale, CloseBlock, blocks, HarnessInv, RestOK
<1>9. RestOK'
  BY <1>1, <1>2, <1>3, <1>4, <1>5, <1>6, <1>7, <1>8 DEF HarnessInv, RestOK, TestBits, Status
<1>10. BlocksInv'
  <2>1. \/ level' = level + 1 /\ skip' = Opened /\ UNCHANGED <<locale, changed>>
        \/ /\ level' = level + 1 /\ locale = 0 /\ "QUERY" \notin test'
           /\ level \notin skip /\ EnterLocale
        \/ /\ level > 1 /\ level' = level - 1 /\ locale' = LocaleLeft
           /\ changed' = IF locale = level /\ level \notin skip THEN {} ELSE changed
           /\ UNCHANGED skip /\ "QUERY" \notin test'
        \/ UNCHANGED blocks /\ "QUERY" \notin test'
    BY <1>1, <1>6 DEF OpenBlock, CloseBlock
  <2>. QED BY <1>2, <1>5, <2>1, BlocksRead DEF HarnessInv
<1>. QED BY <1>9, <1>10 DEF HarnessInv

LEMMA HarnessOther ==
  ASSUME HarnessInv, Comment \/ BadLine \/ EndOfFile
  PROVE  HarnessInv'
<1>0. MaxLines \in Nat
  BY TestRegexAssumption
<1>1. CASE Comment
  <2>1. RestOK'
    BY <1>1 DEF Comment, HarnessInv, RestOK, blocks, signals
  <2>2. /\ lines < MaxLines /\ lines' = lines + 1 /\ pc' = "read"
        /\ UNCHANGED <<options, file, test, level, skip, locale, changed>>
    BY <1>1 DEF Comment, blocks
  <2>3. BlocksInv'
    BY <1>0, <2>2 DEF HarnessInv, BlocksInv
  <2>. QED BY <2>1, <2>3 DEF HarnessInv
<1>2. CASE BadLine
  <2>1. /\ lines < MaxLines /\ lines' = lines + 1 /\ pc' = "exit" /\ line' \in Line
        /\ \E f : count' = Counted(count, f)
        /\ UNCHANGED <<options, file, test, level, skip, locale, changed>>
        /\ UNCHANGED <<verify, extracted, grouped, nosub, call, preg, alarm, blocked>>
    BY <1>2 DEF BadLine, blocks, signals
  <2>2. RestOK'
    BY <2>1, CountedType DEF HarnessInv, RestOK, Status
  <2>3. BlocksInv'
    BY <1>0, <2>1 DEF HarnessInv, BlocksInv
  <2>. QED BY <2>2, <2>3 DEF HarnessInv
<1>3. CASE EndOfFile
  <2>1. /\ pc' # "call"
        /\ \/ file < MaxFiles /\ file' = file + 1 /\ skip' = {} /\ level' = 1
           \/ UNCHANGED <<file, skip, level>>
        /\ UNCHANGED <<options, lines, test, locale, changed>>
    BY <1>3 DEF EndOfFile
  <2>2. file' \in 1..MaxFiles
    BY <2>1, TestRegexAssumption DEF HarnessInv, RestOK
  <2>3. count' \in Counters
    BY <1>3 DEF EndOfFile, HarnessInv, RestOK, Counters
  <2>4. RestOK'
    BY <1>3, <2>2, <2>3 DEF EndOfFile, HarnessInv, RestOK, Status, signals
  <2>5. CASE file < MaxFiles /\ file' = file + 1 /\ skip' = {} /\ level' = 1
    <3>1. file' # 1
      BY <2>5 DEF HarnessInv, RestOK
    <3>. QED BY <1>0, <2>1, <2>4, <2>5, <3>1 DEF HarnessInv, BlocksInv
  <2>6. CASE UNCHANGED <<file, skip, level>>
    <3>1. BlocksInv'
      BY <1>0, <2>1, <2>6 DEF HarnessInv, BlocksInv
    <3>. QED BY <2>4, <3>1 DEF HarnessInv
  <2>. QED BY <2>1, <2>5, <2>6
<1>. QED BY <1>1, <1>2, <1>3

(* A verdict that is left keeps types and blocks. *)
LEMMA HarnessLeave ==
  ASSUME HarnessInv, NEW v, Becomes(Unjudged, Flags, v), Leave(v),
         UNCHANGED <<input, test, level, locale, changed>>,
         ~(pc' = "call" /\ call'.fn = "regcomp")
  PROVE  BlocksInv' /\ count' \in Counters /\ extracted' \in BOOLEAN
<1>1. count' \in Counters /\ extracted' \in BOOLEAN
  BY DEF Leave, Becomes, Verdicts
<1>2. options \cap Listing = {} =>
        (Flags \cap (Listing \cup {"QUERY"}) # {} => "QUERY" \in test)
  <2>1. test \subseteq Mode \cup {"UNSPECIFIED", "LENIENT", "QUERY", "VERIFY", "AND", "OR"}
    BY DEF HarnessInv, RestOK
  <2>2. test \cap Listing = {}
    BY <2>1 DEF Mode, Listing
  <2>3. "QUERY" \notin options
    BY TestRegexAssumption DEF HarnessInv, RestOK, Option, Listing
  <2>. QED BY <2>2, <2>3 DEF Flags
<1>3. \/ skip' = skip
      \/ /\ skip' = skip \cup {level}
         /\ options \cap Listing = {} => "QUERY" \in test
  BY <1>2 DEF Becomes, Leave, Unjudged
<1>4. UNCHANGED <<options, file, lines, line, test, level, locale, changed>>
  BY DEF input
<1>. QED BY <1>1, <1>3, <1>4, BlocksKept DEF HarnessInv

LEMMA Judging ==
  ASSUME HarnessInv
  PROVE  /\ Unjudged \in Verdicts /\ Unjudged.skip = skip /\ level \in Nat
         /\ Becomes(Unjudged, Flags, Unjudged)
         /\ Becomes(Unjudged, Flags, GroupsJudged)
         /\ Becomes(Unjudged, Flags, RefusalJudged)
         /\ Becomes(Unjudged, Flags, MatchJudged)
         /\ Becomes(Unjudged, Flags, extract(GroupsJudged, Flags, FALSE))
         /\ Becomes(Unjudged, Flags, report(GroupsJudged, Flags))
         /\ Becomes(Unjudged, Flags, extract(Unjudged, Flags, TRUE))
         /\ Becomes(Unjudged, Flags, failed(Unjudged, Flags))
<1>1. Unjudged \in Verdicts /\ Unjudged.skip = skip /\ level \in Nat
  BY DEF HarnessInv, RestOK, BlocksInv, Unjudged, Verdicts
<1>. QED BY <1>1, VerdictTypes, SelfVerdict, ExtractType, FailedType

LEMMA CallType ==
  ASSUME NEW fn, NEW then, Call(fn, then)
  PROVE  pc' = "call" /\ call' = [fn |-> fn, then |-> then] /\ alarm' \in BOOLEAN
<1>1. Catching \in BOOLEAN
  BY DEF Catching
<1>. QED BY <1>1 DEF Call

LEMMA HarnessTest ==
  ASSUME HarnessInv, Testing
  PROVE  HarnessInv'
<1>1. CASE Compile
  <2>1. /\ count' \in Counters /\ extracted' \in BOOLEAN
    <3>. PICK v : v = extract(Unjudged, Flags, TRUE)
      OBVIOUS
    <3>1. Becomes(Unjudged, Flags, v)
      BY Judging
    <3>2. \/ count' = v.count /\ extracted' = v.extracted
          \/ UNCHANGED <<count, extracted>>
      BY <1>1 DEF Compile
    <3>3. v.count \in Counters /\ v.extracted \in BOOLEAN
      BY <3>1 DEF Becomes, Verdicts
    <3>. QED BY <3>2, <3>3 DEF HarnessInv, RestOK
  <2>2. /\ pc' \in {"start", "read"} /\ test' \subseteq test
        /\ nosub' \in {nosub, line.nosub}
        /\ UNCHANGED <<options, file, lines, line, skip, level, locale, changed>>
        /\ UNCHANGED <<verify, grouped, call, preg, alarm, blocked>>
    BY <1>1 DEF Compile, input, blocks, signals
  <2>3. line.nosub \in BOOLEAN
    BY TestRegexAssumption DEF HarnessInv, RestOK, LineType
  <2>4. RestOK'
    BY <2>1, <2>2, <2>3 DEF HarnessInv, RestOK, Status
  <2>5. BlocksInv'
    BY <2>2, BlocksKept DEF HarnessInv
  <2>. QED BY <2>4, <2>5 DEF HarnessInv
<1>2. CASE Start
  <2>1. /\ \/ pc' = "read" /\ UNCHANGED <<call, alarm>>
           \/ /\ level \notin skip /\ pc' = "call" /\ alarm' \in BOOLEAN
              /\ call' = [fn |-> "regcomp", then |-> "compile"]
        /\ UNCHANGED <<options, file, lines, line, test, skip, level, locale, changed>>
        /\ UNCHANGED <<verify, count, extracted, grouped, nosub, preg, blocked>>
    <3>1. \/ pc' = "read" /\ UNCHANGED <<call, alarm>>
          \/ level \notin skip /\ Call("regcomp", "compile")
      BY <1>2 DEF Start, Done
    <3>2. UNCHANGED <<input, test, blocks, verify, count, extracted, grouped, nosub, preg,
                      blocked>>
      BY <1>2 DEF Start
    <3>. QED BY <3>1, <3>2, CallType DEF input, blocks
  <2>2. RestOK'
    BY <2>1 DEF HarnessInv, RestOK, Status
  <2>3. BlocksInv'
    BY <2>1, BlocksKept DEF HarnessInv
  <2>. QED BY <2>2, <2>3 DEF HarnessInv
<1>3. CASE Compiled
  <2>1. PICK v : Becomes(Unjudged, Flags, v) /\ Leave(v)
    BY <1>3, Judging DEF Compiled
  <2>2. /\ pc' = "call" /\ alarm' \in BOOLEAN
        /\ call' \in [fn : {"regexec", "regfree"}, then : {"compile", "read"}]
        /\ UNCHANGED <<input, test, level, locale, changed>>
        /\ UNCHANGED <<verify, nosub, preg, blocked>>
    <3>1. Call("regfree", "read") \/ Call("regexec", "compile")
      BY <1>3 DEF Compiled, GiveUp
    <3>2. UNCHANGED <<input, test, level, locale, changed>> /\ UNCHANGED <<verify, nosub, preg, blocked>>
      BY <1>3 DEF Compiled
    <3>. QED BY <3>1, <3>2, CallType
  <2>3. grouped' \in BOOLEAN
    BY <1>3 DEF Compiled
  <2>4. BlocksInv' /\ count' \in Counters /\ extracted' \in BOOLEAN
    BY <2>1, <2>2, HarnessLeave
  <2>5. RestOK'
    BY <2>2, <2>3, <2>4 DEF HarnessInv, RestOK, Status, input
  <2>. QED BY <2>4, <2>5 DEF HarnessInv
<1>4. CASE Refused
  <2>1. Becomes(Unjudged, Flags, RefusalJudged) /\ Leave(RefusalJudged)
    BY <1>4, Judging DEF Refused
  <2>2. /\ pc' = "compile" /\ alarm' \in BOOLEAN
        /\ UNCHANGED <<input, test, level, locale, changed>>
        /\ UNCHANGED <<verify, grouped, nosub, call, preg, blocked>>
    BY <1>4 DEF Refused, AlarmLeft
  <2>3. BlocksInv' /\ count' \in Counters /\ extracted' \in BOOLEAN
    BY <2>1, <2>2, HarnessLeave
  <2>4. RestOK'
    BY <2>2, <2>3 DEF HarnessInv, RestOK, Status, input
  <2>. QED BY <2>3, <2>4 DEF HarnessInv
<1>5. CASE Executed
  <2>1. PICK v : Becomes(Unjudged, Flags, v) /\ Leave(v)
    BY <1>5, Judging DEF Executed
  <2>2. /\ pc' = "call" /\ alarm' \in BOOLEAN
        /\ call' \in [fn : {"regfree"}, then : {"compile", "start"}]
        /\ UNCHANGED <<input, test, level, locale, changed>>
        /\ UNCHANGED <<verify, grouped, nosub, preg, blocked>>
    BY <1>5 DEF Executed, Call, Catching
  <2>3. BlocksInv' /\ count' \in Counters /\ extracted' \in BOOLEAN
    BY <2>1, <2>2, HarnessLeave
  <2>4. RestOK'
    BY <2>2, <2>3 DEF HarnessInv, RestOK, Status, input
  <2>. QED BY <2>3, <2>4 DEF HarnessInv
<1>6. CASE Freed
  <2>1. count' \in Counters /\ extracted' \in BOOLEAN
    <3>. PICK v : v = failed(Unjudged, Flags)
      OBVIOUS
    <3>1. Becomes(Unjudged, Flags, v)
      BY Judging
    <3>2. \/ count' = v.count /\ extracted' = v.extracted
          \/ UNCHANGED <<count, extracted>>
      BY <1>6 DEF Freed
    <3>3. v.count \in Counters /\ v.extracted \in BOOLEAN
      BY <3>1 DEF Becomes, Verdicts
    <3>. QED BY <3>2, <3>3 DEF HarnessInv, RestOK
  <2>2. /\ pc' \in {"read", call.then} /\ alarm' \in BOOLEAN /\ nosub' \in BOOLEAN
        /\ UNCHANGED <<options, file, lines, line, test, skip, level, locale, changed>>
        /\ UNCHANGED <<verify, grouped, call, preg, blocked>>
    BY <1>6 DEF Freed, AlarmLeft, input, blocks, HarnessInv, RestOK
  <2>3. call.then \in {"compile", "start", "read"}
    BY DEF HarnessInv, RestOK
  <2>4. RestOK'
    BY <2>1, <2>2, <2>3 DEF HarnessInv, RestOK, Status
  <2>5. BlocksInv'
    BY <2>2, <2>3, BlocksKept DEF HarnessInv
  <2>. QED BY <2>4, <2>5 DEF HarnessInv
<1>. QED BY <1>1, <1>2, <1>3, <1>4, <1>5, <1>6 DEF Testing

LEMMA HarnessLibrary ==
  ASSUME HarnessInv, Returns \/ Hangs \/ Faults \/ AlarmExpires
  PROVE  HarnessInv'
<1>1. /\ pc' \in {"hung", "returned", "exit"}
      /\ UNCHANGED <<options, file, lines, line, test, skip, level, locale, changed>>
      /\ UNCHANGED <<verify, extracted, grouped, nosub, call>>
  BY DEF Returns, Hangs, Faults, AlarmExpires, gotcha, input, blocks
<1>2. count' \in Counters
  BY DEF Returns, Hangs, Faults, AlarmExpires, gotcha, HarnessInv, RestOK, Counters
<1>3. alarm' \in BOOLEAN /\ blocked' \subseteq {"SIGALRM", "SIGSEGV", "SIGBUS"}
  BY DEF Returns, Hangs, Faults, AlarmExpires, gotcha, sigunblock, HarnessInv, RestOK, signals
<1>4. preg' \in {"none", "compiled", "unknown"}
  <2>1. call.fn \in {"regcomp", "regexec", "regfree"} /\ preg \in {"none", "compiled", "unknown"}
    BY DEF HarnessInv, RestOK
  <2>2. CASE Returns
    BY <2>1, <2>2 DEF Returns
  <2>3. CASE Hangs \/ Faults \/ AlarmExpires
    BY <2>1, <2>3 DEF Hangs, Faults, AlarmExpires, gotcha
  <2>. QED BY <2>2, <2>3
<1>5. RestOK'
  BY <1>1, <1>2, <1>3, <1>4 DEF HarnessInv, RestOK, Status
<1>6. BlocksInv'
  BY <1>1, BlocksKept DEF HarnessInv
<1>. QED BY <1>5, <1>6 DEF HarnessInv

(* The types and the numbering of blocks hold together: a skipped block is   *)
(* around or within the current one only as main has opened it.            *)
THEOREM HarnessInvariant == Spec => []HarnessInv
<1>1. HarnessInv /\ [Next]_vars => HarnessInv'
  <2>. SUFFICES ASSUME HarnessInv, [Next]_vars PROVE HarnessInv'
    OBVIOUS
  <2>1. CASE UNCHANGED vars
    <3>1. RestOK'
      BY <2>1 DEF vars, input, blocks, signals, HarnessInv, RestOK
    <3>2. BlocksInv'
      BY <2>1 DEF vars, input, blocks, HarnessInv, BlocksInv
    <3>. QED BY <3>1, <3>2 DEF HarnessInv
  <2>. QED
    BY <2>1, HarnessReadLine, HarnessOther, HarnessTest, HarnessLibrary DEF Next, Testing
<1>. QED BY HarnessInit, <1>1, PTL DEF Spec

(* Everything keeps its type, however many lines and files there are. *)
THEOREM TypeCorrect == Spec => []TypeOK
BY HarnessInvariant, TypeParts, PTL

(* Nothing is compiled in a block that is skipped or within one, however   *)
(* deep blocks are nested and wherever the failure was.                    *)
THEOREM SkippedBlocks == Spec => []NothingInSkippedBlocks
<1>1. HarnessInv => NothingInSkippedBlocks
  <2>. SUFFICES ASSUME HarnessInv, pc = "call", call.fn = "regcomp"
                PROVE  (1..level) \cap skip = {}
    BY DEF NothingInSkippedBlocks
  <2>1. level \in Nat /\ level \notin skip
    BY DEF HarnessInv, BlocksInv
  <2>2. \A k \in Nat : k \in skip /\ k <= level => level \in skip
    BY <2>1 DEF HarnessInv, BlocksInv
  <2>. QED BY <2>1, <2>2
<1>. QED BY <1>1, HarnessInvariant, PTL

(* The locale of a block does not outlive it, as long as nothing is listed *)
(* and the file is the first.                                              *)
THEOREM LocalesLeft == Spec => []LocaleIsLeft
<1>1. HarnessInv => LocaleIsLeft
  BY DEF HarnessInv, BlocksInv, LocaleIsLeft
<1>. QED BY <1>1, HarnessInvariant, PTL

----------------------------------------------------------------------------
(* Verdicts *)

(* What the library can have answered, and that a pattern that should not  *)
(* compile is never run.                                                   *)
AnswersInv ==
  /\ pc \in {"call", "hung", "returned"} /\ call.fn = "regexec" => line.answer \notin Code
  /\ pc = "returned" /\ call.fn = "regcomp" =>
       result \in {"ok", "short"} \cup Code \cup Interrupted
  /\ pc = "returned" /\ call.fn = "regexec" =>
       /\ result \in {"NOMATCH", "ESPACE"} \cup Match \cup Interrupted
       /\ result = "negative" => line.answer = "match"

(* The harness calls regexec for lines that should compile, and the library *)
(* answers to what it is called for.                                       *)
LEMMA AnswersStep ==
  ASSUME CallsInv, AnswersInv, [Next]_vars
  PROVE  AnswersInv'
<1>1. CASE ReadLine \/ Comment \/ BadLine \/ EndOfFile \/ Compile \/ Refused
  <2>1. pc' \notin {"call", "hung", "returned"}
    BY <1>1 DEF ReadLine, Sequenced, Comment, BadLine, EndOfFile, Compile, Refused
  <2>. QED BY <2>1 DEF AnswersInv
<1>2. CASE Start
  <2>1. pc' = "read" \/ Call("regcomp", "compile")
    BY <1>2 DEF Start
  <2>2. \/ pc' \notin {"call", "hung", "returned"}
        \/ pc' = "call" /\ call'.fn # "regexec"
    BY <2>1, CallType
  <2>. QED BY <2>2 DEF AnswersInv
<1>3. CASE Compiled
  <2>1. \/ Call("regfree", "read")
        \/ line.answer \notin Code /\ Call("regexec", "compile")
    BY <1>3 DEF Compiled, GiveUp
  <2>2. UNCHANGED line
    BY <1>3 DEF Compiled, input
  <2>. QED BY <2>1, <2>2, CallType DEF AnswersInv
<1>4. CASE Executed
  <2>1. Call("regfree", IF Again THEN "start" ELSE "compile")
    BY <1>4 DEF Executed
  <2>. QED BY <2>1, CallType DEF AnswersInv
<1>5. CASE Freed
  <2>1. pc' \in {"read", call.then} /\ call.then \in {"compile", "start", "read"}
    BY <1>5 DEF Freed, CallsInv
  <2>2. pc' \notin {"call", "hung", "returned"}
    BY <2>1
  <2>. QED BY <2>2 DEF AnswersInv
<1>6. CASE Returns
  <2>1. /\ pc = "call" /\ pc' = "returned" /\ UNCHANGED <<line, call>>
        /\ result' \in Answers(call.fn)
    BY <1>6 DEF Returns, input
  <2>2. call.fn = "regexec" => /\ result' \in {"NOMATCH", "ESPACE"} \cup Match
                               /\ result' = "negative" => line.answer = "match"
    BY <2>1 DEF Answers, Positions, Match
  <2>3. call.fn = "regcomp" => result' \in {"ok", "short"} \cup Code
    BY <2>1 DEF Answers
  <2>. QED BY <2>1, <2>2, <2>3 DEF AnswersInv
<1>7. CASE Hangs
  <2>1. pc = "call" /\ pc' = "hung" /\ UNCHANGED <<line, call>>
    BY <1>7 DEF Hangs, input
  <2>. QED BY <2>1 DEF AnswersInv
<1>8. CASE Faults
  <2>1. /\ pc = "call" /\ UNCHANGED <<line, call>>
        /\ \/ pc' = "exit"
           \/ pc' = "returned" /\ result' \in Interrupted
    BY <1>8 DEF Faults, gotcha, Interrupted, input
  <2>. QED BY <2>1 DEF AnswersInv, Interrupted
<1>9. CASE AlarmExpires
  <2>1. /\ pc' = "returned" /\ result' \in Interrupted /\ UNCHANGED <<line, call>>
        /\ alarm /\ pc # "exit"
    BY <1>9 DEF AlarmExpires, gotcha, Interrupted, input
  <2>. QED BY <1>9, <2>1 DEF AnswersInv, CallsInv, Interrupted
<1>10. CASE UNCHANGED vars
  BY <1>10 DEF vars, input, AnswersInv
<1>. QED
  BY <1>1, <1>2, <1>3, <1>4, <1>5, <1>6, <1>7, <1>8, <1>9, <1>10 DEF Next

(* What the bits of test say of a line whose mismatches count. *)
LEMMA PlainFlags ==
  ASSUME HarnessInv, Plain
  PROVE  /\ "QUERY" \notin Flags /\ "VERIFY" \notin Flags /\ "LENIENT" \notin test
         /\ Quiet(Flags) <=> Listed
         /\ "UNSPECIFIED" \in Flags <=> "UNSPECIFIED" \in test
         /\ line.answer = "OK" => Flags \cap {"ACTUAL", "FAIL", "SUMMARY"} = {}
<1>1. test \subseteq TestBits /\ options \subseteq Option
  BY TestRegexAssumption DEF HarnessInv, RestOK, TestBits
<1>2. /\ "QUERY" \notin Flags /\ "VERIFY" \notin Flags /\ "LENIENT" \notin test
  BY <1>1 DEF Plain, Flags, Option, Listing
<1>3. Quiet(Flags) <=> Listed
  <2>1. test \cap Listing = {}
    BY <1>1 DEF TestBits, Mode, Listing
  <2>. QED BY <1>2, <2>1 DEF Quiet, Flags, Listed
<1>4. test \cap {"ACTUAL", "FAIL", "SUMMARY"} = {}
  BY <1>1 DEF TestBits, Mode
<1>5. line.answer = "OK" => Flags \cap {"ACTUAL", "FAIL", "SUMMARY"} = {}
  BY <1>4 DEF Plain, Flags
<1>6. "UNSPECIFIED" \notin options
  BY <1>1 DEF Option, Listing
<1>. QED BY <1>2, <1>3, <1>5, <1>6 DEF Flags

(* The counter of failures, and a verdict that counts once, in counter t.   *)
Failures == IF "UNSPECIFIED" \in test THEN "unspecified" ELSE "errors"
Once(v, t) == v.count = [count EXCEPT ![t] = @ + 1]

(* What is the verdict on a failure and on a code that is not the expected *)
(* one: each is counted once, but for a wrong code of a line with 'u'; a   *)
(* test that passes is counted as passed.                                  *)
LEMMA FailureVerdicts ==
  ASSUME HarnessInv, Plain
  PROVE  /\ Unjudged.count = count
         /\ extract(Unjudged, Flags, TRUE).count = [count EXCEPT !.passed = @ + 1]
         /\ Once(failed(Unjudged, Flags), Failures)
         /\ Once(report(Unjudged, Flags), Failures)
         /\ Listed => Once(extract(Unjudged, Flags, FALSE), Failures)
         /\ Listed => Once(Warned(Unjudged), Failures)
         /\ ~Listed /\ "IGNORE_ERROR" \in options => Once(Warned(Unjudged), "ignored")
         /\ ~Listed /\ "IGNORE_ERROR" \notin options /\ "UNSPECIFIED" \notin test =>
              Once(Warned(Unjudged), "warnings")
<1>1. Unjudged.count = count /\ count \in Counters
  BY DEF Unjudged, HarnessInv, RestOK
<1>2. Counted(count, Flags) = [count EXCEPT ![Failures] = @ + 1]
  BY PlainFlags DEF Counted, Failures
<1>3. Once(report(Unjudged, Flags), Failures)
  BY <1>1, <1>2 DEF report, Unjudged, Once
<1>4. Listed => Once(extract(Unjudged, Flags, FALSE), Failures)
  <2>1. Listed => Flags \cap Listing # {}
    BY DEF Listed, Flags
  <2>. QED BY <1>1, <1>2, <2>1 DEF extract, Once
<1>5. extract(Unjudged, Flags, TRUE).count = [count EXCEPT !.passed = @ + 1]
  BY <1>1 DEF extract
<1>6. Once(failed(Unjudged, Flags), Failures)
  BY <1>3, <1>4, PlainFlags DEF failed
<1>7. Listed => Once(Warned(Unjudged), Failures)
  BY <1>4, PlainFlags DEF Warned
<1>8. ASSUME ~Listed, "IGNORE_ERROR" \in options
      PROVE  Once(Warned(Unjudged), "ignored")
  <2>1. Warned(Unjudged) = [Unjudged EXCEPT !.count.ignored = @ + 1]
    BY <1>8, PlainFlags DEF Warned
  <2>2. [Unjudged EXCEPT !.count.ignored = @ + 1].count = [count EXCEPT !.ignored = @ + 1]
    BY DEF Unjudged
  <2>. QED BY <2>1, <2>2 DEF Once
<1>9. ASSUME ~Listed, "IGNORE_ERROR" \notin options, "UNSPECIFIED" \notin test
      PROVE  Once(Warned(Unjudged), "warnings")
  <2>0. PICK c : c = [count EXCEPT !.errors = @ + 1]
    OBVIOUS
  <2>1. report(Unjudged, Flags) = [Unjudged EXCEPT !.count = c]
    BY <2>0, <1>1, <1>2, <1>9 DEF report, Failures, Unjudged
  <2>2. Warned(Unjudged) = [report(Unjudged, Flags) EXCEPT !.count.errors = @ - 1,
                                                            !.count.warnings = @ + 1]
    BY <1>9, PlainFlags DEF Warned
  <2>3. Warned(Unjudged).count = [[c EXCEPT !.errors = @ - 1] EXCEPT !.warnings = @ + 1]
    <3>1. [report(Unjudged, Flags) EXCEPT !.count.errors = @ - 1,
                                          !.count.warnings = @ + 1].count =
            [[c EXCEPT !.errors = @ - 1] EXCEPT !.warnings = @ + 1]
      BY <2>1 DEF Unjudged
    <3>. QED BY <2>2, <3>1
  <2>4. [c EXCEPT !.errors = @ - 1] = count
    <3>1. count.errors \in Int /\ DOMAIN count = {"errors", "ignored", "passed", "signals",
                                                 "unspecified", "warnings"}
      BY <1>1 DEF Counters
    <3>2. count = [d \in DOMAIN count |-> count[d]]
      BY <1>1 DEF Counters
    <3>3. DOMAIN c = DOMAIN count /\ c.errors = count.errors + 1
      BY <2>0, <3>1
    <3>4. c.errors - 1 = count.errors
      BY <3>1, <3>3
    <3>5. \A d \in DOMAIN count : [c EXCEPT !.errors = @ - 1][d] = count[d]
      BY <2>0, <3>3, <3>4
    <3>. QED BY <3>2, <3>3, <3>5
  <2>. QED BY <2>3, <2>4 DEF Once
<1>. QED BY <1>1, <1>3, <1>4, <1>5, <1>6, <1>7, <1>8, <1>9

(* What VerdictsAreRight asks of the counters that a judged answer leaves. *)
Rightly(c) ==
  IF Expected THEN c \in {count, [count EXCEPT !.passed = @ + 1]}
  ELSE Miscounted \/ c = [count EXCEPT ![Tally] = @ + 1]

(* What matchcheck reports or ignores, or main lists, is counted once, but *)
(* for what -p ignores with -S; a match with the answer OK is not held     *)
(* against a specification.                                                *)
LEMMA MismatchVerdicts ==
  ASSUME HarnessInv, Plain, line.answer \in {"match", "OK"}, ~matchcheck,
         call.fn = "regexec"
  PROVE  LET v == IF Quiet(Flags) THEN extract(Mismatch(Unjudged), Flags, FALSE)
                                  ELSE Mismatch(Unjudged)
         IN  /\ line.answer = "OK" => v.count = count
             /\ line.answer = "match" => Miscounted \/ Once(v, Tally)
<1>. DEFINE v == IF Quiet(Flags) THEN extract(Mismatch(Unjudged), Flags, FALSE)
                                 ELSE Mismatch(Unjudged)
            ignores == result = "negative" /\ "IGNORE_POSITION" \in options
<1>1. test \subseteq TestBits /\ options \subseteq Option
  BY TestRegexAssumption DEF HarnessInv, RestOK, TestBits
<1>2. CASE line.answer = "OK"
  <2>1. Flags \cap {"BASELINE", "PASS", "VERIFY"} = {}
    BY <1>2 DEF matchcheck
  <2>2. ~Quiet(Flags)
    BY <1>2, <2>1, PlainFlags DEF Listing, Quiet
  <2>3. Mismatch(Unjudged) = Unjudged
    BY <1>2 DEF Mismatch
  <2>. QED BY <1>2, <2>2, <2>3, FailureVerdicts
<1>3. CASE line.answer = "match"
  <2>1. ~WrongCode /\ (Ignored <=> ignores)
    BY DEF WrongCode, Ignored
  <2>2. CASE ignores /\ Flags \cap {"ACTUAL", "BASELINE", "FAIL", "PASS", "QUERY", "VERIFY"} = {}
    <3>1. Mismatch(Unjudged) = [Unjudged EXCEPT !.count.ignored = @ + 1]
      BY <1>3, <2>2 DEF Mismatch
    <3>2. [Unjudged EXCEPT !.count.ignored = @ + 1].count = [count EXCEPT !.ignored = @ + 1]
      BY DEF Unjudged
    <3>3. CASE Listed
      <4>1. options \cap Listing = {"SUMMARY"}
        BY <2>2, <3>3 DEF Listed, Listing, Flags
      <4>. QED BY <1>3, <2>1, <2>2, <4>1 DEF Miscounted
    <3>4. CASE ~Listed
      <4>1. Tally = "ignored" /\ ~Quiet(Flags)
        BY <2>1, <2>2, <3>4, PlainFlags DEF Tally
      <4>. QED BY <1>3, <3>1, <3>2, <4>1 DEF Once
    <3>. QED BY <3>3, <3>4
  <2>3. CASE ~(ignores /\ Flags \cap {"ACTUAL", "BASELINE", "FAIL", "PASS", "QUERY", "VERIFY"} = {})
    <3>1. Mismatch(Unjudged) = IF Quiet(Flags) THEN Unjudged ELSE report(Unjudged, Flags)
      BY <1>3, <2>3 DEF Mismatch
    <3>2. Once(v, Failures)
      BY <3>1, FailureVerdicts, PlainFlags
    <3>3. ignores => Listed
      <4>. SUFFICES ASSUME ignores, ~Listed PROVE FALSE
        OBVIOUS
      <4>1. options \cap {"ACTUAL", "BASELINE", "FAIL", "PASS", "QUERY", "VERIFY"} = {}
        BY <1>1 DEF Listed, Listing, Option
      <4>2. test \cap {"ACTUAL", "BASELINE", "FAIL", "PASS", "QUERY", "VERIFY"} = {}
        BY <1>1 DEF Plain, TestBits, Mode
      <4>. QED BY <2>3, <4>1, <4>2 DEF Flags
    <3>4. Tally = Failures
      BY <2>1, <3>3 DEF Tally, Failures
    <3>. QED BY <1>3, <3>2, <3>4
  <2>. QED BY <2>2, <2>3
<1>. QED BY <1>2, <1>3

(* The verdict on what regcomp made of a pattern. *)
LEMMA CompileVerdict ==
  ASSUME HarnessInv, AnswersInv, Plain, pc = "returned", Compiled \/ Refused
  PROVE  Rightly(count')
<1>1. /\ call.fn = "regcomp" /\ result \in {"ok", "short"} \cup Code \cup Interrupted
      /\ line.answer \in {"match", "NOMATCH", "OK", "NULL"} \cup Code
  <2>1. line \in LineType
    BY TestRegexAssumption DEF HarnessInv, RestOK
  <2>2. call.fn = "regcomp"
    BY DEF Compiled, Refused
  <2>. QED BY <2>1, <2>2 DEF AnswersInv, LineType
<1>2. "LENIENT" \notin test
  BY PlainFlags
<1>4. CASE Compiled
  <2>1. result \in {"ok", "short"}
    BY <1>4 DEF Compiled
  <2>2. ~WrongCode /\ ~Ignored /\ Tally = Failures
    BY <2>1 DEF WrongCode, Ignored, Tally, Failures
  <2>3. CASE line.answer \in Code
    <3>1. GroupsJudged = Unjudged
      BY <2>3, TestRegexAssumption DEF GroupsJudged, Grouping
    <3>2. \/ Quiet(Flags) /\ Leave(extract(Unjudged, Flags, FALSE))
          \/ Leave(report(Unjudged, Flags))
      BY <1>2, <1>4, <2>3, <3>1 DEF Compiled
    <3>3. count' = [count EXCEPT ![Failures] = @ + 1]
      BY <3>2, FailureVerdicts, PlainFlags DEF Leave, Once
    <3>4. ~Expected
      BY <1>1, <2>1, <2>3 DEF Expected
    <3>. QED BY <2>2, <3>3, <3>4 DEF Rightly
  <2>4. CASE line.answer \notin Code
    <3>1. Leave(GroupsJudged)
      BY <1>4, <2>4 DEF Compiled
    <3>2. CASE Expected
      <4>1. GroupsJudged = Unjudged
        BY <1>1, <2>1, <3>2 DEF Expected, GroupsJudged, Grouping
      <4>. QED BY <3>1, <3>2, <4>1, FailureVerdicts DEF Leave, Rightly
    <3>3. CASE ~Expected
      <4>1. result = "short" /\ ~nosub /\ line.answer = "match" /\ "IGNORE_OVER" \notin options
        BY <1>1, <2>1, <2>4, <3>3 DEF Expected
      <4>2. CASE grouped \/ ~Listed
        BY <3>3, <4>1, <4>2 DEF Miscounted, Rightly
      <4>3. CASE ~grouped /\ Listed
        <5>1. GroupsJudged = extract(Unjudged, Flags, FALSE)
          BY <4>1, <4>3, PlainFlags DEF GroupsJudged, Grouping
        <5>2. count' = [count EXCEPT ![Failures] = @ + 1]
          BY <3>1, <4>3, <5>1, FailureVerdicts DEF Leave, Once
        <5>. QED BY <2>2, <3>3, <5>2 DEF Rightly
      <4>. QED BY <4>2, <4>3
    <3>. QED BY <3>2, <3>3
  <2>. QED BY <2>3, <2>4
<1>5. CASE Refused
  <2>1. result \in Code \cup Interrupted /\ result \notin {"ok", "short"} /\ Leave(RefusalJudged)
    BY <1>1, <1>5 DEF Refused
  <2>2. Expected <=> line.answer \in Code /\ result \in {line.answer, "BADPAT"}
    BY <1>1, <2>1 DEF Expected
  <2>3. {"match", "NULL", "OK", "NOMATCH"} \cap Code = {} /\ "NOMATCH" \notin Interrupted
    BY TestRegexAssumption DEF Interrupted
  <2>4. CASE \/ line.answer \in {"match", "NULL", "OK"}
             \/ line.answer = "NOMATCH" /\ result = "BADPAT"
    <3>1. RefusalJudged = failed(Unjudged, Flags)
      BY <1>2, <2>3, <2>4 DEF RefusalJudged
    <3>2. ~Expected
      BY <2>2, <2>3, <2>4
    <3>3. ~WrongCode
      BY <2>3, <2>4 DEF WrongCode
    <3>4. result # "negative"
      BY <2>1, TestRegexAssumption DEF Match, Interrupted
    <3>5. Tally = Failures
      BY <3>3, <3>4 DEF Tally, Failures, Ignored
    <3>6. count' = [count EXCEPT ![Failures] = @ + 1]
      BY <2>1, <3>1, FailureVerdicts DEF Leave, Once
    <3>. QED BY <3>2, <3>5, <3>6 DEF Rightly
  <2>5. CASE line.answer \in Code \cup {"NOMATCH"} /\ result \notin {line.answer, "BADPAT"}
    <3>1. RefusalJudged = Warned(Unjudged)
      BY <1>2, <2>3, <2>5 DEF RefusalJudged
    <3>2. ~Expected
      BY <2>2, <2>5
    <3>3. WrongCode /\ result # "negative"
      BY <1>1, <2>1, <2>5, TestRegexAssumption DEF WrongCode, Match, Interrupted
    <3>4. Ignored <=> "IGNORE_ERROR" \in options
      BY <3>3 DEF Ignored
    <3>5. Miscounted \/ Once(Warned(Unjudged), Tally)
      BY <3>3, <3>4, FailureVerdicts DEF Miscounted, Tally, Failures
    <3>. QED BY <2>1, <3>1, <3>2, <3>5 DEF Leave, Once, Rightly
  <2>6. CASE line.answer \in Code /\ result \in {line.answer, "BADPAT"}
    <3>1. RefusalJudged = Unjudged
      BY <1>2, <2>3, <2>6 DEF RefusalJudged
    <3>. QED BY <2>1, <2>2, <2>6, <3>1, FailureVerdicts DEF Leave, Rightly
  <2>. QED BY <1>1, <2>1, <2>3, <2>4, <2>5, <2>6
<1>. QED BY <1>4, <1>5

(* The verdict on a match, or on there being none. *)
LEMMA ExecuteVerdict ==
  ASSUME HarnessInv, AnswersInv, Plain, pc = "returned", Executed
  PROVE  Rightly(count')
<1>1. /\ call.fn = "regexec"
      /\ result \in {"NOMATCH", "ESPACE"} \cup Match \cup Interrupted
      /\ result = "negative" => line.answer = "match"
      /\ line.answer \in {"match", "NOMATCH", "OK", "NULL"}
  <2>1. line \in LineType
    BY TestRegexAssumption DEF HarnessInv, RestOK
  <2>2. call.fn = "regexec"
    BY DEF Executed
  <2>. QED BY <2>1, <2>2 DEF AnswersInv, LineType
<1>2. line.answer # "match" \/ result \notin Match => Tally = Failures
  BY <1>1 DEF Tally, Failures, Ignored, WrongCode, Match
<1>3. Leave(IF Again THEN Unjudged ELSE MatchJudged)
  BY DEF Executed
<1>4. Expected <=>
        IF line.answer = "NOMATCH" THEN result = "NOMATCH"
        ELSE /\ result \in Match
             /\ line.answer = "NULL" => nosub \/ result = "equal"
             /\ line.answer = "match" => \/ nosub \/ result = "equal"
                                         \/ result = "overran" /\ "IGNORE_OVER" \in options
  BY <1>1 DEF Expected
<1>5. Match \cap ({"NOMATCH", "ESPACE"} \cup Interrupted) = {}
  BY DEF Match, Interrupted
<1>6. CASE Again
  <2>1. Expected
    BY <1>1, <1>4, <1>6 DEF Again, matchcheck
  <2>. QED BY <1>3, <1>6, <2>1, FailureVerdicts DEF Leave, Rightly
<1>7. CASE ~Again /\ result \notin Match
  <2>1. MatchJudged = IF result = "NOMATCH" /\ line.answer = "NOMATCH" THEN Unjudged
                      ELSE failed(Unjudged, Flags)
    BY <1>1, <1>7 DEF MatchJudged
  <2>2. Expected <=> result = "NOMATCH" /\ line.answer = "NOMATCH"
    BY <1>4, <1>7
  <2>. QED BY <1>2, <1>3, <1>7, <2>1, <2>2, FailureVerdicts DEF Leave, Once, Rightly
<1>8. CASE ~Again /\ result \in Match /\ line.answer = "NOMATCH"
  <2>1. MatchJudged = failed(Unjudged, Flags)
    BY <1>5, <1>8 DEF MatchJudged
  <2>2. ~Expected
    BY <1>4, <1>5, <1>8
  <2>. QED BY <1>2, <1>3, <1>8, <2>1, <2>2, FailureVerdicts DEF Leave, Once, Rightly
<1>9. CASE ~Again /\ result \in Match /\ line.answer # "NOMATCH" /\ nosub
  <2>1. MatchJudged = Unjudged
    BY <1>5, <1>9 DEF MatchJudged
  <2>. QED BY <1>3, <1>4, <1>9, <2>1, FailureVerdicts DEF Leave, Rightly
<1>10. CASE ~Again /\ result \in Match /\ line.answer = "NULL" /\ ~nosub
  <2>1. MatchJudged = IF result = "equal" THEN Unjudged ELSE failed(Unjudged, Flags)
    BY <1>5, <1>10 DEF MatchJudged
  <2>. QED BY <1>2, <1>3, <1>4, <1>10, <2>1, FailureVerdicts DEF Leave, Once, Rightly
<1>11. CASE ~Again /\ result \in Match /\ line.answer \in {"match", "OK"} /\ ~nosub
  <2>1. CASE matchcheck
    <3>1. MatchJudged \in {extract(Unjudged, Flags, TRUE), Unjudged}
      BY <1>5, <1>11, <2>1 DEF MatchJudged
    <3>2. Expected
      BY <1>4, <1>11, <2>1 DEF matchcheck
    <3>. QED BY <1>3, <1>11, <3>1, <3>2, FailureVerdicts DEF Leave, Rightly
  <2>2. CASE ~matchcheck
    <3>1. MatchJudged = IF Quiet(Flags) THEN extract(Mismatch(Unjudged), Flags, FALSE)
                                        ELSE Mismatch(Unjudged)
      BY <1>5, <1>11, <2>2 DEF MatchJudged
    <3>2. Expected <=> line.answer = "OK"
      BY <1>4, <1>11, <2>2 DEF matchcheck
    <3>. QED
      BY <1>1, <1>3, <1>11, <2>2, <3>1, <3>2, MismatchVerdicts DEF Leave, Once, Rightly
  <2>. QED BY <2>1, <2>2
<1>. QED BY <1>1, <1>6, <1>7, <1>8, <1>9, <1>10, <1>11

(* The verdict on a regfree that was interrupted. *)
LEMMA FreeVerdict ==
  ASSUME HarnessInv, AnswersInv, Plain, pc = "returned", Freed
  PROVE  Rightly(count')
<1>1. call.fn = "regfree"
  BY DEF Freed
<1>2. Expected <=> result \notin Interrupted
  BY <1>1 DEF Expected
<1>3. CASE result \in Interrupted
  <2>1. count' = failed(Unjudged, Flags).count
    BY <1>3 DEF Freed
  <2>2. Tally = Failures
    BY <1>1, <1>3 DEF Tally, Failures, Ignored, WrongCode, Interrupted
  <2>. QED BY <1>2, <1>3, <2>1, <2>2, FailureVerdicts DEF Once, Rightly
<1>4. CASE result \notin Interrupted
  BY <1>2, <1>4 DEF Freed, Rightly
<1>. QED BY <1>3, <1>4

(* For any library and options, and for the lines that Plain describes: an *)
(* answer of the library that is not the expected one is counted once, by  *)
(* the counter that it belongs to, when the harness goes on from it, and no *)
(* other is counted, except as passed.  Miscounted names the answers that  *)
(* this does not hold of: fewer groups than expected, reported or in a     *)
(* later mode; a wrong error code of a line with 'u'; what -p ignores with *)
(* -S.                                                                     *)
THEOREM VerdictsHold == Spec => VerdictsAreRight
<1>. DEFINE Right == pc = "returned" /\ pc' # "returned" /\ Plain => Rightly(count')
<1>1. Init => AnswersInv
  BY DEF Init, AnswersInv
<1>2. CallsInv /\ AnswersInv /\ [Next]_vars => AnswersInv'
  BY AnswersStep
<1>3. HarnessInv /\ AnswersInv /\ [Next]_vars => Right
  <2>. SUFFICES ASSUME HarnessInv, AnswersInv, [Next]_vars, Plain,
                       pc = "returned", pc' # "returned"
                PROVE  Rightly(count')
    OBVIOUS
  <2>1. Compiled \/ Refused \/ Executed \/ Freed
    BY DEF Next, vars, ReadLine, Comment, BadLine, EndOfFile, Compile, Start, Returns,
           Hangs, Faults, AlarmExpires, gotcha
  <2>. QED BY <2>1, CompileVerdict, ExecuteVerdict, FreeVerdict
<1>4. Right => (pc = "returned" /\ pc' # "returned" /\ Plain =>
                  IF Expected THEN count' \in {count, [count EXCEPT !.passed = @ + 1]}
                  ELSE Miscounted \/ count' = [count EXCEPT ![Tally] = @ + 1])
  BY DEF Rightly
<1>. QED
  BY <1>1, <1>2, <1>3, <1>4, CallsInvariant, HarnessInvariant, PTL DEF Spec, VerdictsAreRight
=============================================================================
