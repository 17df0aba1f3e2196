---------------------------- MODULE MCUtilities -----------------------------
(***************************************************************************)
(* The utilities side by side: a behaviour is one of one of them           *)
(* (subject), the others stay as they are, so that their states add up and *)
(* do not multiply.                                                        *)
(***************************************************************************)
EXTENDS Options, Changes, Trace, ErrorMessage, Tracers, Split

\* Options of a parser: two with parameters, one of them left in params, and
\* a flag; the same item has a character and a string, others are unknown.
TestOptions(key) ==
  CASE key = "o" -> "options"
    [] key = "l" -> "left"
    [] key = "f" -> "flag"
    [] OTHER -> "no item"

VARIABLE subject

utilityVars == <<subject, optionVars, changesVars, traceVars, messageVars,
                 tracerVars, splitVars>>

UtilitiesInit ==
  /\ subject \in {"options", "changes", "trace", "message", "tracers", "split"}
  /\ OptionsInit
  /\ ChangesInit /\ (subject # "changes" => values[1] = "a")
  /\ TraceInit /\ (subject # "trace" => environment = Unset)
  /\ MessageInit
  /\ TracersInit
  /\ SplitInit

UtilitiesNext ==
  /\ UNCHANGED subject
  /\ \/ /\ subject = "options" /\ OptionsNext
        /\ UNCHANGED <<changesVars, traceVars, messageVars, tracerVars, splitVars>>
     \/ /\ subject = "changes" /\ ChangesNext
        /\ UNCHANGED <<optionVars, traceVars, messageVars, tracerVars, splitVars>>
     \/ /\ subject = "trace" /\ TraceNext
        /\ UNCHANGED <<optionVars, changesVars, messageVars, tracerVars, splitVars>>
     \/ /\ subject = "message" /\ MessageNext
        /\ UNCHANGED <<optionVars, changesVars, traceVars, tracerVars, splitVars>>
     \/ /\ subject = "tracers" /\ TracersNext
        /\ UNCHANGED <<optionVars, changesVars, traceVars, messageVars, splitVars>>
     \/ /\ subject = "split" /\ SplitNext
        /\ UNCHANGED <<optionVars, changesVars, traceVars, messageVars, tracerVars>>

UtilitiesSpec ==
  UtilitiesInit /\ [][UtilitiesNext]_utilityVars /\ TraceFairness

(* The values of the variables of all the utilities are of their types. *)
UtilitiesTypeOK ==
  /\ OptionsTypeOK
  /\ ChangesTypeOK
  /\ TraceTypeOK
  /\ MessageTypeOK
  /\ TracersTypeOK
  /\ SplitTypeOK
=============================================================================
