------------------------------ MODULE Tracers ------------------------------
(***************************************************************************)
(* The functions of include/cor/error.hpp:218-256 that run a function,     *)
(* print what it throws, with the stack of a cor::Error, and pass it on    *)
(* (error_trace_msg, error_tracer) or not (error_trace_msg_nothrow,        *)
(* error_trace_nothrow), nested in each other, and the Backtrace they      *)
(* print (79-150; src/error.cpp:19-43).                                    *)
(*                                                                         *)
(* The names of a Backtrace are looked up when they are first needed.      *)
(* Throwing e of a handler copies it, as the type the handler names; the   *)
(* copy constructor of Backtrace, when the names are known, fills a new    *)
(* array with zeros and copies that over the source's, so that both have   *)
(* null pointers for names: Backtrace_::name() makes a std::string of one, *)
(* which throws.                                                           *)
(***************************************************************************)
EXTENDS Integers

CONSTANT MaxTracers   \* bound: tracers around the function

ASSUME TracersAssumption == MaxTracers \in Nat

VARIABLES
  in_flight,  \* "none", or the type of the exception: "cor::Error",
              \* "derived" from it, "std::derived", "std::exception",
              \* "logic_error" (thrown by the printing), "other"
  symbols,    \* of its Backtrace: "unknown", "known" or "null"
  origin,     \* what the function itself has thrown
  passed      \* the tracers it has met: a function to "none", "msg", "nothrow"

tracerVars == <<in_flight, symbols, origin, passed>>

Thrown == {"cor::Error", "derived", "std::derived", "other"}

HasTrace == {"cor::Error", "derived"}

IsStd == HasTrace \cup {"std::derived", "std::exception", "logic_error"}

TracersInit ==
  /\ in_flight = "none"
  /\ symbols = "unknown"
  /\ origin = "none"
  /\ passed = [i \in 1 .. MaxTracers |-> "none"]

FunctionThrows(type) ==
  /\ origin = "none"
  /\ in_flight' = type
  /\ origin' = type
  /\ UNCHANGED <<symbols, passed>>

Meets(i, tracer) ==
  /\ in_flight # "none"
  /\ passed[i] = "none"
  /\ \A j \in 1 .. i - 1 : passed[j] # "none"
  /\ passed' = [passed EXCEPT ![i] = tracer]
  /\ UNCHANGED origin

\* The symbols of a trace that print_trace() has written out.
UpdateSymbols == IF symbols = "unknown" THEN "known" ELSE symbols

\* Backtrace(Backtrace const &) of a trace with these symbols.
CopySymbols(s) == IF s = "unknown" THEN "unknown" ELSE "null"

\* catch (Error const &e): print_trace() throws, or the handler goes on.
CatchError(i, tracer) ==
  /\ in_flight \in HasTrace
  /\ Meets(i, tracer)
  /\ IF UpdateSymbols = "null"
       THEN in_flight' = "logic_error" /\ symbols' = symbols
       ELSE /\ symbols' = CopySymbols(UpdateSymbols)
            /\ in_flight' = IF tracer = "msg" THEN "cor::Error" ELSE "none"

\* Mutant: the handler does not throw.
CatchStd_Swallows(i, tracer) ==
  /\ in_flight \in IsStd \ HasTrace
  /\ Meets(i, tracer)
  /\ in_flight' = "none"
  /\ UNCHANGED symbols

\* catch (std::exception const &e)
CatchStd(i, tracer) ==
  /\ in_flight \in IsStd \ HasTrace
  /\ Meets(i, tracer)
  /\ in_flight' = IF tracer = "msg" THEN "std::exception" ELSE "none"
  /\ UNCHANGED symbols

PassOther(i, tracer) ==
  /\ in_flight = "other"
  /\ Meets(i, tracer)
  /\ UNCHANGED <<in_flight, symbols>>

TracersNext ==
  \/ \E type \in Thrown : FunctionThrows(type)
  \/ \E i \in 1 .. MaxTracers, tracer \in {"msg", "nothrow"} :
       CatchError(i, tracer) \/ CatchStd(i, tracer) \/ PassOther(i, tracer)

TracersSpec == TracersInit /\ [][TracersNext]_tracerVars

-----------------------------------------------------------------------------

(* The values of the variables are of their types. *)
TracersTypeOK ==
  /\ in_flight \in IsStd \cup {"none", "other"}
  /\ symbols \in {"unknown", "known", "null"}
  /\ origin \in Thrown \cup {"none"}
  /\ passed \in [1 .. MaxTracers -> {"none", "msg", "nothrow"}]

Met == {i \in 1 .. MaxTracers : passed[i] # "none"}

(***************************************************************************)
(* An exception is never replaced or lost by the first tracer it meets,    *)
(* which stops it exactly when it is one that does not throw, and what the *)
(* standard library would not know passes all of them; a cor::Error is     *)
(* replaced by an exception of the printing only at the second tracer, or  *)
(* after it, and then even when that tracer is one that should not throw   *)
(* (error.hpp:218-244).                                                    *)
(***************************************************************************)
ErrorReachesCaller ==
  /\ origin = "other" => in_flight = "other"
  /\ origin \in HasTrace /\ Met = {1} =>
       in_flight = IF passed[1] = "msg" THEN "cor::Error" ELSE "none"
  /\ origin = "std::derived" /\ Met # {} =>
       (in_flight = "none" <=> \E i \in Met : passed[i] = "nothrow")
  /\ in_flight = "logic_error" => origin \in HasTrace /\ 2 \in Met
=============================================================================
