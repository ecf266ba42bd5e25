------------------------------ MODULE TestRegex ------------------------------
(***************************************************************************)
(* testsuite/league/ataresearch/testregex.c: the harness that goes with    *)
(* the regular expression suites (.dat files), which League's own test     *)
(* driver reads too.  It reads a specification a line, tests it in each of *)
(* its modes with and without match positions, counts what fails, and with *)
(* -c catches signals and calls that do not return.                        *)
(*                                                                         *)
(* The build modelled is that over a POSIX regex(3): BRE and ERE, no       *)
(* REG_AUGMENTED and its like, no regnexec, regsubcomp or regdecomp.  The  *)
(* library answers as it likes.  Its answers and the expected ones are     *)
(* abstracted to what the harness tells apart.                             *)
(***************************************************************************)
EXTENDS Integers

CONSTANTS
  Line,         \* the specifications that a file may hold, see LineType
  OptionSets,   \* sets of options of the command line
  Code,         \* error codes of regcomp, "BADPAT" among them
  MaxLines,     \* bound: lines of all files
  MaxFiles      \* bound: files

Listing == {"ACTUAL", "BASELINE", "FAIL", "PASS", "SUMMARY"}

Option == Listing \cup
  {"CATCH", "IGNORE_ERROR", "IGNORE_OVER", "IGNORE_POSITION", "NONOSUB"}

Mode == {"BRE", "ERE", "ARE"}  \* ARE: a mode that the library does not have

(* How the positions found compare with those of the answer: beyond them   *)
(* there may be more, some of them -1 ("negative"), or more than asked for.*)
Match == {"equal", "differs", "more", "negative", "overran"}

(* A specification: the control characters, the modes, what else field 1   *)
(* sets, whether the library has the flags and functions it takes, and the *)
(* outcome of field 4 ("NULL" when it is empty).                           *)
LineType ==
  [control : {"none", "?", "&", "|", ";", "{", "{C", "}", "malformed"},
   modes : SUBSET Mode, flags : SUBSET {"UNSPECIFIED", "LENIENT"}, nosub : BOOLEAN,
   feature : {"supported", "flag missing", "function missing"},
   answer : {"match", "NOMATCH", "OK", "NULL"} \cup Code]

ASSUME TestRegexAssumption ==
  /\ Line \subseteq LineType /\ Line # {}
  /\ OptionSets \subseteq SUBSET Option
  /\ "BADPAT" \in Code
  /\ Code \cap {"ok", "short", "none", "match", "NOMATCH", "OK", "NULL", "EHUNG",
              "EFAULT", "EBUS"} = {}
  /\ Code \cap Match = {}
  /\ MaxLines \in Nat /\ MaxFiles \in Nat \ {0}

VARIABLES
  options,    \* the global bits of test
  file,
  lines,      \* read so far
  line,       \* the specification being tested
  test,       \* the other bits of test
  skip,       \* the blocks, by level, that are skipped
  level, locale,
  changed,    \* the categories of the locale that are not those of "C"
  verify,     \* passed when the last '?' was met
  count,      \* the counters of state
  extracted, grouped,   \* grouped: nsub was computed
  nosub,      \* REG_NOSUB in flags
  pc,
  call,       \* the library function called, and where catchfree returns to
  result,
  preg,       \* the pattern: "none", "compiled" or, once interrupted, "unknown"
  alarm, blocked

input == <<options, file, lines, line>>
blocks == <<skip, level, locale, changed>>
signals == <<alarm, blocked>>
vars == <<input, test, blocks, verify, count, extracted, grouped, nosub, pc, call,
          result, preg, signals>>

----------------------------------------------------------------------------
(* Counting and listing *)

Flags == test \cup options

(* What extract takes care of; report writes about the rest. *)
Quiet(f) == f \cap (Listing \cup {"QUERY", "VERIFY"}) # {}

Counted(c, f) ==
  IF "UNSPECIFIED" \in f THEN [c EXCEPT !.unspecified = @ + 1]
                         ELSE [c EXCEPT !.errors = @ + 1]

(* What a check leaves behind: the counters, the skipped blocks, and       *)
(* whether the line is done with.                                          *)
Unjudged == [count |-> count, skip |-> skip, extracted |-> extracted]

report(v, f) == [v EXCEPT !.count = Counted(@, f)]

note(v) == [v EXCEPT !.skip = @ \cup {level}]

extract(v, f, ok) ==
  LET listed == f \cap Listing # {}
      c == IF ok THEN [v.count EXCEPT !.passed = @ + 1] ELSE Counted(v.count, f)
      stops == IF ok THEN listed /\ "VERIFY" \in f ELSE f \cap {"QUERY", "VERIFY"} # {}
  IN  IF listed \/ ok
      THEN [count |-> c, extracted |-> TRUE,
            skip |-> IF stops THEN v.skip \cup {level} ELSE v.skip]
      ELSE IF "QUERY" \in f THEN note(v)
      ELSE [v EXCEPT !.extracted = @ \/ "VERIFY" \in f]

failed(v, f) == IF Quiet(f) THEN extract(v, f, FALSE) ELSE report(v, f)

Leave(v) ==
  /\ count' = v.count
  /\ skip' = v.skip
  /\ extracted' = v.extracted

----------------------------------------------------------------------------
(* Reading a line *)

Init ==
  /\ options \in OptionSets
  /\ file = 1 /\ lines = 0
  /\ line = CHOOSE l \in Line : TRUE  \* not read before a line has been
  /\ test = {} /\ skip = {} /\ level = 1 /\ locale = 0 /\ changed = {} /\ verify = 0
  /\ count = [errors |-> 0, ignored |-> 0, passed |-> 0, signals |-> 0,
              unspecified |-> 0, warnings |-> 0]
  /\ extracted = FALSE /\ grouped = FALSE /\ nosub = FALSE
  /\ pc = "read" /\ call = [fn |-> "regcomp", then |-> "compile"]
  /\ result = "none" /\ preg = "none"
  /\ alarm = FALSE /\ blocked = {}

(* What the control characters of field 1 do to the bits of test... *)
Controlled(l) ==
  LET kept == (test \cap {"AND", "OR"}) \cup l.modes \cup l.flags
  IN  CASE l.control = "?" -> (kept \ {"AND", "OR"}) \cup {"VERIFY"}
        [] l.control = "&" -> (kept \ {"OR"}) \cup {"VERIFY", "AND"}
        [] l.control = "|" -> (kept \ {"AND"}) \cup {"VERIFY", "OR"}
        [] l.control = ";" -> (kept \ {"AND"}) \cup {"OR"}
        [] l.control = "{" /\ level \notin skip -> kept \cup {"QUERY"}
        [] OTHER -> kept

(* ... and to the blocks: '{' opens one, skipped when the one around it is; *)
(* 'C' enters a locale for the block, if the system has it; '}' leaves it.  *)
OpenedAnew == skip \ {level + 1}
Opened == IF level \in skip THEN skip \cup {level + 1} ELSE skip \ {level + 1}

(* setlocale refuses a category, or names it "C" when there is no other     *)
(* locale: LC_COLLATE, which is set first, keeps what became of it.        *)
EnterLocale ==
  \/ /\ skip' = Opened
     /\ locale' = level + 1
     /\ changed' = {"COLLATE", "CTYPE"}
  \/ /\ skip' = Opened \cup {level + 1}
     /\ changed' \in {changed, changed \ {"COLLATE"}, changed \cup {"COLLATE"}, {"COLLATE"}}
     /\ UNCHANGED locale

OpenBlock(l) ==
  /\ level' = level + 1
  /\ \/ /\ l.control \in {"{", "{C"}
        /\ l.control = "{C" => locale = 0 /\ level \in skip
        /\ skip' = Opened
        /\ UNCHANGED <<locale, changed>>
     \/ /\ l.control = "{C" /\ locale = 0 /\ level \notin skip
        /\ EnterLocale

LocaleKept == locale
LocaleLeft ==
  IF level \in skip /\ level - 1 \notin skip THEN locale
  ELSE IF locale = level THEN 0 ELSE locale

CloseBlockAnyhow(l) ==
  /\ l.control = "}"
  /\ level' = level - 1
  /\ locale' = LocaleLeft
  /\ changed' = IF locale = level /\ level \notin skip THEN {} ELSE changed
  /\ UNCHANGED skip

CloseBlock(l) ==
  /\ l.control = "}"
  /\ level > 1
  /\ level' = level - 1
  /\ locale' = LocaleLeft
  /\ changed' = IF locale = level /\ level \notin skip THEN {} ELSE changed
  /\ UNCHANGED skip

(* NOTEST: a flag that the library does not have, the ends of blocks. *)
Untested(l) ==
  \/ l.feature = "flag missing"
  \/ l.control \in {"{C", "}"}
  \/ l.control = "{" /\ level \in skip
  \/ "BASELINE" \in options /\ (level' \in skip')

(* ';' only tells, '|' is for when nothing has passed since the last '?',  *)
(* '&' for when something has.  The bits stay for the lines that follow.   *)
Sequenced(t, v, next) ==
  \/ /\ "OR" \in t /\ "VERIFY" \notin t
     /\ test' = t \ {"OR"} /\ pc' = "read"
     /\ UNCHANGED count
  \/ /\ "OR" \in t /\ "VERIFY" \in t
     /\ test' = t
     /\ pc' = IF count.passed > v THEN "read" ELSE next
     /\ UNCHANGED count
  \/ /\ "OR" \notin t /\ "AND" \in t
     /\ test' = t
     /\ pc' = IF count.passed = v THEN "read" ELSE next
     /\ count' = [count EXCEPT !.passed = v]
  \/ /\ {"OR", "AND"} \cap t = {}
     /\ test' = t /\ pc' = next
     /\ UNCHANGED count

ReadLine ==
  /\ pc = "read" /\ lines < MaxLines
  /\ \E l \in Line :
       /\ line' = l
       /\ \/ OpenBlock(l)
          \/ CloseBlock(l)
          \/ l.control \notin {"{", "{C", "}", "malformed"} /\ UNCHANGED blocks
       /\ verify' = IF l.control = "?" THEN count.passed ELSE verify
       /\ \/ /\ Untested(l)
             /\ test' = Controlled(l) /\ pc' = "read"
             /\ UNCHANGED count
          \/ /\ ~Untested(l)
             /\ Sequenced(Controlled(l), verify',
                          IF l.feature = "supported" THEN "compile" ELSE "read")
       /\ nosub' = l.nosub
  /\ lines' = lines + 1
  /\ extracted' = FALSE /\ grouped' = FALSE
  /\ UNCHANGED <<options, file, call, result, preg, signals>>

(* Blank lines, comments and notes. *)
Comment ==
  /\ pc = "read" /\ lines < MaxLines
  /\ lines' = lines + 1
  /\ UNCHANGED <<options, file, line, test, blocks, verify, count, extracted, grouped,
                 nosub, pc, call, result, preg, signals>>

(* bad: a line that is no specification, '}' without a block and a locale  *)
(* within a locale end the program.                                        *)
BadLine ==
  /\ pc = "read" /\ lines < MaxLines
  /\ \E l \in Line :
       /\ line' = l
       /\ \/ l.control = "}" /\ level = 1
          \/ l.control = "{C" /\ locale # 0
          \/ l.control = "malformed"
       /\ count' = Counted(count, IF l.control = "malformed" THEN l.flags ELSE {})
  /\ lines' = lines + 1
  /\ pc' = "exit"
  /\ UNCHANGED <<options, file, test, blocks, verify, extracted, grouped, nosub, call,
                 result, preg, signals>>

(* The next file; or the end, when there is none or it cannot be opened.   *)
(* verify, the locale, AND and OR are kept.                                *)
EndOfFile ==
  /\ pc = "read"
  /\ \/ /\ file < MaxFiles
        /\ file' = file + 1
        /\ count' = [c \in DOMAIN count |-> 0]
        /\ skip' = {} /\ level' = 1
        /\ UNCHANGED pc
     \/ /\ pc' = "exit"
        /\ UNCHANGED <<file, count, skip, level>>
  /\ UNCHANGED <<options, lines, line, test, locale, changed, verify, extracted, grouped,
                 nosub, call, result, preg, signals>>

----------------------------------------------------------------------------
(* Calls of the library.  With -c each is made under setjmp with an alarm  *)
(* set: gotcha is where a signal goes, and returns from the call with an   *)
(* error of its own.  The alarm can also go off in the moment between the  *)
(* return of the library and alarm(0).                                     *)

Catching == "CATCH" \in options

Call(fn, then) ==
  /\ pc' = "call"
  /\ call' = [fn |-> fn, then |-> then]
  /\ alarm' = Catching
  /\ result' = "none"

Interrupted == {"EHUNG", "EFAULT", "EBUS"}

(* alarm(0), which a call that was interrupted does not come to. *)
AlarmLeft == alarm /\ result \in Interrupted

sigunblockNone(sigs, sig) == sigs
sigunblock(sigs, sig) == sigs \ {sig}

gotchaArmed(sig, ret) ==
  /\ count' = [count EXCEPT !.signals = @ + 1]
  /\ blocked' = sigunblock(blocked \cup {sig}, sig)
  /\ result' = ret
  /\ pc' = "returned"
  /\ preg' = IF call.fn = "regexec" THEN preg ELSE "unknown"
  /\ UNCHANGED alarm

gotcha(sig, ret) ==
  /\ alarm' = FALSE
  /\ count' = [count EXCEPT !.signals = @ + 1]
  /\ blocked' = sigunblock(blocked \cup {sig}, sig)
  /\ result' = ret
  /\ pc' = "returned"
  /\ preg' = IF call.fn = "regexec" THEN preg ELSE "unknown"

AlarmExpires ==
  /\ alarm /\ "SIGALRM" \notin blocked /\ pc # "exit"
  /\ gotcha("SIGALRM", "EHUNG")
  /\ UNCHANGED <<input, test, blocks, verify, extracted, grouped, nosub, call>>

Faults ==
  /\ pc = "call"
  /\ \E f \in {<<"SIGSEGV", "EFAULT">>, <<"SIGBUS", "EBUS">>} :
       IF Catching /\ f[1] \notin blocked
       THEN gotcha(f[1], f[2])
       ELSE pc' = "exit" /\ UNCHANGED <<alarm, count, blocked, result, preg>>
  /\ UNCHANGED <<input, test, blocks, verify, extracted, grouped, nosub, call>>

Hangs ==
  /\ pc = "call"
  /\ pc' = "hung"
  /\ UNCHANGED <<input, test, blocks, verify, count, extracted, grouped, nosub, call,
                 result, preg, signals>>

(* "short": a pattern with fewer groups than the answer has.  How positions *)
(* compare matters only where there are some; with -o no more are asked for *)
(* than the answer has; where it has none, "equal" leaves match untouched.  *)
Positions ==
  IF nosub THEN {"equal"}
  ELSE CASE line.answer = "match" ->
              Match \ (IF "IGNORE_OVER" \in options THEN {"more", "negative"} ELSE {})
         [] line.answer = "NULL" -> {"equal", "differs"}
         [] OTHER -> {"equal"}

Answers(fn) ==
  CASE fn = "regcomp" -> {"ok", "short"} \cup Code
    [] fn = "regexec" -> {"NOMATCH", "ESPACE"} \cup Positions
    [] fn = "regfree" -> {"ok"}

Returns ==
  /\ pc = "call"
  /\ \E r \in Answers(call.fn) :
       /\ result' = r
       /\ preg' = CASE call.fn = "regcomp" -> IF r \in Code THEN "none" ELSE "compiled"
                    [] call.fn = "regexec" -> preg
                    [] call.fn = "regfree" -> "none"
  /\ pc' = "returned"
  /\ UNCHANGED <<input, test, blocks, verify, count, extracted, grouped, nosub, call,
                 signals>>

----------------------------------------------------------------------------
(* Testing a line *)

Done == extracted \/ level \in skip

(* compile: the next mode, or, after the last one, the line has passed. *)
NextMode == IF "BRE" \in test THEN "BRE" ELSE "ERE"

Compile ==
  /\ pc = "compile"
  /\ IF ~Done /\ {"BRE", "ERE"} \cap test # {}
     THEN /\ test' = test \ {NextMode}
          /\ nosub' = line.nosub
          /\ pc' = "start"
          /\ UNCHANGED <<count, extracted>>
     ELSE /\ IF ~Done /\ Flags \cap {"BASELINE", "PASS", "VERIFY"} # {}
             THEN LET v == extract(Unjudged, Flags, TRUE)
                  IN  count' = v.count /\ extracted' = v.extracted
             ELSE UNCHANGED <<count, extracted>>
          /\ pc' = "read"
          /\ UNCHANGED <<test, nosub>>
  /\ UNCHANGED <<input, blocks, verify, grouped, call, result, preg, signals>>

(* nosub: the pattern is compiled, the second time with REG_NOSUB. *)
Start ==
  /\ pc = "start"
  /\ IF Done
     THEN pc' = "read" /\ UNCHANGED <<call, alarm, result>>
     ELSE Call("regcomp", "compile")
  /\ UNCHANGED <<input, test, blocks, verify, count, extracted, grouped, nosub, preg,
                 blocked>>

(* The groups of the answer are counted once for a line. *)
Grouping == ~nosub /\ ~grouped /\ line.answer = "match"

GroupsJudged ==
  IF ~Grouping \/ "IGNORE_OVER" \in options \/ result # "short" THEN Unjudged
  ELSE IF Quiet(Flags) THEN extract(Unjudged, Flags, FALSE)
  ELSE [report(Unjudged, Flags) EXCEPT !.count.errors = @ + 1]

(* regcomp accepts the pattern: it is run, unless it should not compile;   *)
(* then the line is given up, whatever modes it has left.                  *)
GiveUpUnfreed ==
  /\ pc' = "read" /\ alarm' = FALSE
  /\ UNCHANGED <<call, result>>
GiveUp == Call("regfree", "read")

Compiled ==
  /\ pc = "returned" /\ call.fn = "regcomp" /\ result \in {"ok", "short"}
  /\ grouped' = (grouped \/ Grouping)
  /\ IF line.answer \in Code
     THEN /\ Leave(IF Quiet(Flags) THEN extract(GroupsJudged, Flags, FALSE)
                   ELSE IF "LENIENT" \in test THEN GroupsJudged
                   ELSE report(GroupsJudged, Flags))
          /\ GiveUp
     ELSE /\ Leave(GroupsJudged)
          /\ Call("regexec", "compile")
  /\ UNCHANGED <<input, test, level, locale, changed, verify, nosub, preg, blocked>>

(* regcomp refuses it, or was interrupted.  BADPAT will do for any code;    *)
(* another code than the one expected is a warning and no error.           *)
Warned(v) ==
  IF Quiet(Flags) THEN extract(v, Flags, FALSE)
  ELSE IF "IGNORE_ERROR" \in options THEN [v EXCEPT !.count.ignored = @ + 1]
  ELSE [report(v, Flags) EXCEPT !.count.errors = @ - 1, !.count.warnings = @ + 1]

RefusalJudged ==
  CASE "LENIENT" \in test -> Unjudged
    [] "LENIENT" \notin test /\
         \/ line.answer \in {"match", "NULL", "OK"}
         \/ line.answer = "NOMATCH" /\ result = "BADPAT" -> failed(Unjudged, Flags)
    [] "LENIENT" \notin test /\ result # "BADPAT" /\
       line.answer \in (Code \cup {"NOMATCH"}) \ {result} -> Warned(Unjudged)
    [] OTHER -> Unjudged

Refused ==
  /\ pc = "returned" /\ call.fn = "regcomp" /\ result \notin {"ok", "short"}
  /\ Leave(RefusalJudged)
  /\ alarm' = AlarmLeft
  /\ pc' = "compile"
  /\ UNCHANGED <<input, test, level, locale, changed, verify, grouped, nosub, call, result,
                 preg, blocked>>

(* matchcheck: the positions found against those of the answer. *)
matchcheckShort ==
  \/ line.answer = "OK" /\ Flags \cap {"BASELINE", "PASS", "VERIFY"} # {}
  \/ line.answer = "match" /\ result \in {"equal", "more"}
  \/ line.answer = "match" /\ result = "overran" /\ "IGNORE_OVER" \in options

matchcheck ==
  \/ line.answer = "OK" /\ Flags \cap {"BASELINE", "PASS", "VERIFY"} # {}
  \/ line.answer = "match" /\ result = "equal"
  \/ line.answer = "match" /\ result = "overran" /\ "IGNORE_OVER" \in options

(* A mismatch is reported where it is found; -p lets a negative one pass. *)
Mismatch(v) ==
  CASE line.answer = "OK" -> v
    [] line.answer = "match" /\ result = "negative" /\ "IGNORE_POSITION" \in options /\
       (Flags \cap {"ACTUAL", "BASELINE", "FAIL", "PASS", "QUERY", "VERIFY"} = {}) ->
         [v EXCEPT !.count.ignored = @ + 1]
    [] OTHER -> IF Quiet(Flags) THEN v ELSE report(v, Flags)

MatchJudged ==
  IF result \in {"NOMATCH", "ESPACE"} \cup Interrupted
  THEN IF result = "NOMATCH" /\ line.answer = "NOMATCH" THEN Unjudged
       ELSE failed(Unjudged, Flags)
  ELSE IF line.answer = "NOMATCH" THEN failed(Unjudged, Flags)
  ELSE IF nosub THEN Unjudged
  ELSE IF line.answer = "NULL"
  THEN IF result = "equal" THEN Unjudged ELSE failed(Unjudged, Flags)
  ELSE IF matchcheck
  THEN IF Flags \cap {"BASELINE", "PASS", "VERIFY"} # {}
       THEN extract(Unjudged, Flags, TRUE) ELSE Unjudged
  ELSE IF Quiet(Flags) THEN extract(Mismatch(Unjudged), Flags, FALSE)
  ELSE Mismatch(Unjudged)

(* A test that passed is run again with REG_NOSUB. *)
Again ==
  /\ ~nosub /\ result \in Match /\ line.answer \notin {"NOMATCH", "NULL"} /\ matchcheck
  /\ "VERIFY" \notin test /\ "NONOSUB" \notin options

Executed ==
  /\ pc = "returned" /\ call.fn = "regexec"
  /\ IF Again THEN Leave(Unjudged) ELSE Leave(MatchJudged)
  /\ Call("regfree", IF Again THEN "start" ELSE "compile")
  /\ UNCHANGED <<input, test, level, locale, changed, verify, grouped, nosub, preg, blocked>>

(* catchfree: when regfree is interrupted the line is given up. *)
Freed ==
  /\ pc = "returned" /\ call.fn = "regfree"
  /\ IF result \in Interrupted
     THEN LET v == failed(Unjudged, Flags)
          IN  /\ count' = v.count /\ extracted' = v.extracted
              /\ pc' = "read" /\ UNCHANGED nosub
     ELSE /\ pc' = call.then
          /\ nosub' = (nosub \/ call.then = "start")
          /\ UNCHANGED <<count, extracted>>
  /\ alarm' = AlarmLeft
  /\ UNCHANGED <<input, test, blocks, verify, grouped, call, result, preg, blocked>>

Testing == Compile \/ Start \/ Compiled \/ Refused \/ Executed \/ Freed

Next ==
  \/ ReadLine \/ Comment \/ BadLine \/ EndOfFile
  \/ Compile \/ Start \/ Compiled \/ Refused \/ Executed \/ Freed
  \/ Returns \/ Hangs \/ Faults
  \/ AlarmExpires

(* The harness runs on, and the alarm it has set expires.  The library need *)
(* not return, and no file need have more lines.                            *)
Spec == Init /\ [][Next]_vars /\ WF_vars(Testing) /\ WF_vars(AlarmExpires)

----------------------------------------------------------------------------
(* Properties *)

Status == {"read", "compile", "start", "call", "hung", "returned", "exit"}

(* Everything keeps its type.  errors may go below zero: a warning takes an *)
(* error back that, for a line with 'u', has not been counted.             *)
TypeOK ==
  /\ options \in OptionSets /\ line \in Line
  /\ file \in 1..MaxFiles /\ lines \in 0..MaxLines
  /\ test \subseteq Mode \cup {"UNSPECIFIED", "LENIENT", "QUERY", "VERIFY", "AND", "OR"}
  /\ level \in 1..MaxLines + 1 /\ skip \subseteq 1..MaxLines + 1
  /\ locale \in 0..MaxLines + 1 /\ changed \subseteq {"COLLATE", "CTYPE"}
  /\ verify \in Nat
  /\ count \in [errors : Int, ignored : Nat, passed : Nat, signals : Nat,
                unspecified : Nat, warnings : Nat]
  /\ extracted \in BOOLEAN /\ grouped \in BOOLEAN /\ nosub \in BOOLEAN
  /\ pc \in Status
  /\ call \in [fn : {"regcomp", "regexec", "regfree"}, then : {"compile", "start", "read"}]
  /\ preg \in {"none", "compiled", "unknown"}
  /\ alarm \in BOOLEAN /\ blocked \subseteq {"SIGALRM", "SIGSEGV", "SIGBUS"}

(* A pattern is compiled only when the one before it has been freed, and   *)
(* used and freed only while it is compiled, along all the ways through    *)
(* main: failures, modes, the second time, interrupted calls.              *)
PatternsAreFreed ==
  /\ pc \in {"read", "compile", "start"} => preg # "compiled"
  /\ pc = "call" /\ call.fn = "regcomp" => preg # "compiled"
  /\ pc = "call" /\ call.fn \in {"regexec", "regfree"} => preg = "compiled"

(* The alarm is set around calls of the library and nowhere else: gotcha   *)
(* never jumps back into a call that has been left.                        *)
AlarmsAreOff == alarm => pc \in {"call", "hung", "returned", "exit"}

(* "{test ...  skip if failed until }" (line 250): nothing is compiled in  *)
(* a block that is skipped, nor in the blocks within it.                   *)
NothingInSkippedBlocks ==
  pc = "call" /\ call.fn = "regcomp" => (1..level) \cap skip = {}

(* A locale is left with its block, when no lines are listed, and no later  *)
(* line is tested with its LC_CTYPE; with its LC_COLLATE one is, when       *)
(* LC_CTYPE was refused (line 1484).  (A failing '?' of a listing skips the *)
(* rest of the block, and '}' then forgets the locale; a file that ends in  *)
(* the block leaves it to the next one.)                                   *)
LocaleIsLeft ==
  options \cap Listing = {} /\ file = 1 =>
    locale <= level /\ (locale = 0 => "CTYPE" \notin changed)

(* What field 4 promises of an answer of the library (lines 265 to 279),   *)
(* with the leave that -o gives.                                           *)
Expected ==
  CASE call.fn = "regcomp" ->
         IF result \in {"ok", "short"}
         THEN /\ line.answer \notin Code
              /\ result = "short" =>
                   nosub \/ line.answer # "match" \/ "IGNORE_OVER" \in options
         ELSE line.answer \in Code /\ result \in {line.answer, "BADPAT"}
    [] call.fn = "regexec" ->
         IF line.answer = "NOMATCH" THEN result = "NOMATCH"
         ELSE /\ result \in Match
              /\ line.answer = "NULL" => nosub \/ result = "equal"
              /\ line.answer = "match" =>
                   \/ nosub \/ result = "equal"
                   \/ result = "overran" /\ "IGNORE_OVER" \in options
    [] call.fn = "regfree" -> result \notin Interrupted

(* Specifications that count: no '?', '&', '|', '{' nor 'x'; a match with  *)
(* the answer OK is an error under -A, -F and -S.                          *)
Plain ==
  /\ {"VERIFY", "QUERY", "LENIENT"} \cap test = {}
  /\ line.answer = "OK" => options \cap {"ACTUAL", "FAIL", "SUMMARY"} = {}

Listed == options \cap Listing # {}

(* Another error than the one expected, and what -e and -p ignore. *)
WrongCode ==
  call.fn = "regcomp" /\ result \notin {"ok", "short"}
    /\ result # "BADPAT" /\ line.answer \in Code \cup {"NOMATCH"}
Ignored ==
  \/ WrongCode /\ "IGNORE_ERROR" \in options
  \/ result = "negative" /\ "IGNORE_POSITION" \in options

(* The counter that an answer belongs to which is not the expected one:    *)
(* without -A to -S what may be ignored, and a wrong error code, have one  *)
(* of their own, and with 'u' "errors [are] not counted" (line 233).       *)
Tally ==
  IF ~Listed /\ Ignored THEN "ignored"
  ELSE IF ~Listed /\ WrongCode THEN "warnings"
  ELSE IF "UNSPECIFIED" \in test THEN "unspecified" ELSE "errors"

(* What the code counts otherwise: fewer groups than expected are errors   *)
(* twice, the second time even with 'u' (1936 to 1938), and are not        *)
(* noticed in the modes after the first (1914); with 'u' a wrong error     *)
(* code is unspecified and a warning, and takes back an error that was not *)
(* counted (2008); with -S what -p ignores (938) is an error too (2163).   *)
Miscounted ==
  \/ result = "short" /\ line.answer = "match" /\ (grouped \/ ~Listed)
  \/ WrongCode /\ "UNSPECIFIED" \in test /\ ~Listed /\ ~Ignored
  \/ result = "negative" /\ Ignored /\ options \cap Listing = {"SUMMARY"}

(* But for those, an answer that differs from the expected one is counted  *)
(* once, by the counter that it belongs to, whatever the options; and an   *)
(* expected one never is, except as passed.                                *)
VerdictsAreRight ==
  [][pc = "returned" /\ pc' # "returned" /\ Plain =>
       IF Expected THEN count' \in {count, [count EXCEPT !.passed = @ + 1]}
       ELSE Miscounted \/ count' = [count EXCEPT ![Tally] = @ + 1]]_vars

(* "-c catch signals and non-terminating calls" (line 179): with it every  *)
(* line that is begun is done with, though the library may never return.   *)
LinesEnd ==
  (Catching /\ pc \notin {"read", "exit"}) ~> (pc \in {"read", "exit"})
=============================================================================
