----------------------------- MODULE MCTestRegex -----------------------------
(***************************************************************************)
(* TestRegex for TLC: the specifications that files are made of, after     *)
(* those of the suites, and the options.                                   *)
(***************************************************************************)
EXTENDS TestRegex

Plainly(modes, answer) ==
  [control |-> "none", modes |-> modes, flags |-> {}, nosub |-> FALSE,
   feature |-> "supported", answer |-> answer]

Controlling(control, modes, answer) ==
  [Plainly(modes, answer) EXCEPT !.control = control]

Lines ==
  {Plainly({"BRE", "ERE"}, "match"), Plainly({"BRE", "ERE"}, "EBRACE"),
   Plainly({"ERE", "ARE"}, "NOMATCH"), Plainly({"ERE"}, "OK"),
   [Plainly({"ERE"}, "NULL") EXCEPT !.nosub = TRUE],
   [Plainly({"ERE"}, "EBRACE") EXCEPT !.flags = {"UNSPECIFIED"}],
   [Plainly({"ERE"}, "EBRACE") EXCEPT !.flags = {"LENIENT"}],
   [Plainly({"ERE"}, "match") EXCEPT !.feature = "flag missing"],
   Controlling("?", {"ERE"}, "match"), Controlling("|", {"ERE"}, "OK"),
   [Controlling("&", {"ERE"}, "match") EXCEPT !.feature = "function missing"],
   Controlling(";", {}, "NULL"),
   Controlling("{", {"ERE"}, "match"), Controlling("{C", {}, "NULL"),
   Controlling("}", {}, "NULL"), Controlling("malformed", {}, "NULL")}

OptionsTried ==
  {{}, {"CATCH"}, {"SUMMARY", "IGNORE_POSITION"}, {"BASELINE", "NONOSUB"},
   {"CATCH", "IGNORE_ERROR", "IGNORE_OVER", "IGNORE_POSITION"}}
=============================================================================
