----------------------------- MODULE RouteParts -----------------------------
(***************************************************************************)
(* The steps the analysis routes are made of.  A route is a sequence of    *)
(* them; Parsing says what each one does.                                  *)
(*                                                                         *)
(*   target   looks for the evidence, or for a file system in it           *)
(*   guard    refuses work in a case that is closed                        *)
(*   fresh    refuses to write over an output that is there                *)
(*   copy     copies one file out of an image to a temporary file          *)
(*   read     parses a file: records, none, or a failure                   *)
(*   parse    the same with a parser that catches its own failures         *)
(*   extract  as read, and writes what it finds out to a folder            *)
(*   recover  as extract, to a folder and files that were not there        *)
(*   create   writes one file that must not be there (O_EXCL), or none     *)
(*   drop     removes the temporary file                                   *)
(*   check    answers with an error when the file could not be read        *)
(*   write    writes the output of the analysis                            *)
(*   look     looks at the case's status before something is recorded      *)
(*   index    replaces the source's rows of parsed_artifacts               *)
(*   result   adds a row to analysis_results                               *)
(*   lose     the same on a worker's thread that names nobody              *)
(*   seek,tag look for the role tag of the output, and add it              *)
(*   carry    adds the tags the file had inside the image to the output    *)
(*   wipe     removes the image's rows of triage_hits                      *)
(*   hits     adds rows to triage_hits                                     *)
(*   custody  writes the entry in the chain of custody                     *)
(*   answer   answers; "indexed" as the route works it out                 *)
(***************************************************************************)
EXTENDS Naturals, Sequences

(* A step about candidate c, taken only if its records were "found", only  *)
(* if the last step "raised", only if it did not ("went"), or "always".   *)
At(op, c, when) == <<[op |-> op, of |-> c, when |-> when]>>
Do(op) == At(op, 1, "always")

Program(kind, steps) == [kind |-> kind, steps |-> steps]

(* Every route goes through what it found; two files stand for any number. *)
Each(P(_)) == P(1) \o P(2)

Index(c, when) == At("look", c, when) \o At("index", c, when)
Result(c, when) == At("look", c, when) \o At("result", c, when)
Tag(c, when) == At("seek", c, when) \o At("tag", c, when)

(* extract to temp / parse / os.remove in the finally clause.              *)
InCopy(c, op) == At("copy", c, "always") \o At(op, c, "always") \o At("drop", c, "always")

Answers(kind) == <<[op |-> "answer", of |-> 1, when |-> kind]>>

=============================================================================
