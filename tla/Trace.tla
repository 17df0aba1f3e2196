------------------------------- MODULE Trace -------------------------------
(***************************************************************************)
(* The level of cor::debug (src/trace.cpp:16-52) and the functions that    *)
(* print by it (include/cor/trace.hpp:188-238).  current_level is a plain  *)
(* int: it is initialised from COR_DEBUG in a std::call_once by whoever    *)
(* comes first, and written by level() and read by is_tracing_level(),     *)
(* which reads it twice, without a lock.  (That is a data race; what a     *)
(* reader gets is one of the values written.)  std::stoi throws on         *)
(* a text that is not a number: the exception leaves the call, whichever   *)
(* it is, and the next one tries again; the program may have set the       *)
(* variable to something else by then.                                     *)
(***************************************************************************)
EXTENDS Integers

CONSTANTS Threads,
          Levels,     \* the levels that the program uses: Level::Debug is 1
          Texts,      \* numbers in COR_DEBUG, which need not be levels
          Unset,      \* COR_DEBUG is not in the environment
          Blank,      \* it is empty
          Malformed,  \* it is something that std::stoi can not read
          Default,    \* Level::Error
          MaxCalls    \* bound: calls, per thread

ASSUME TraceAssumption ==
  /\ Levels \subseteq Nat \ {0}
  /\ Texts \subseteq Int
  /\ Default \in Nat \ {0}
  /\ {Unset, Blank, Malformed} \cap Texts = {}
  /\ Malformed \notin {Unset, Blank}
  /\ MaxCalls \in Nat

VARIABLES
  environment,   \* COR_DEBUG
  once,          \* set_level_once_: "no", "running" or "done"
  current_level,
  pc,            \* pc[t]: where thread t is, "idle" outside of the calls
  call,          \* call[t]: "level" or "print", the function it called last
  argument,      \* argument[t]: its level
  in_force,      \* in_force[t]: the levels set since that call began
  answer,        \* answer[t]: "none", "threw", "set", "printed", "silent"
  asked,         \* what level() has been called with
  calls          \* calls[t]: calls made so far

traceVars == <<environment, once, current_level, pc, call, argument, in_force,
               answer, asked, calls>>

TraceInit ==
  /\ environment \in Texts \cup {Unset, Blank, Malformed}
  /\ once = "no"
  /\ current_level = Default
  /\ pc = [t \in Threads |-> "idle"]
  /\ call = [t \in Threads |-> "print"]
  /\ argument = [t \in Threads |-> Default]
  /\ in_force = [t \in Threads |-> {}]
  /\ answer = [t \in Threads |-> "none"]
  /\ asked = {}
  /\ calls = [t \in Threads |-> 0]

\* current_level becomes v: whoever is inside a call may see it.
Becomes(v) ==
  /\ current_level' = v
  /\ in_force' = [t \in Threads |->
       IF pc[t] # "idle" THEN in_force[t] \cup {v} ELSE in_force[t]]

\* level(l), or one of print_line_ge(l, ...), Log::debug() ... critical()
TraceCall(t, function, l) ==
  /\ pc[t] = "idle"
  /\ calls[t] < MaxCalls
  /\ calls' = [calls EXCEPT ![t] = @ + 1]
  /\ pc' = [pc EXCEPT ![t] = "once"]
  /\ call' = [call EXCEPT ![t] = function]
  /\ argument' = [argument EXCEPT ![t] = l]
  /\ answer' = [answer EXCEPT ![t] = "none"]
  /\ in_force' = [in_force EXCEPT ![t] =
                    IF once = "done" THEN {current_level} ELSE {}]
  /\ asked' = IF function = "level" THEN asked \cup {l} ELSE asked
  /\ UNCHANGED <<environment, once, current_level>>

\* Where a call goes on when init() has returned.
AfterInit(t) == IF call[t] = "level" THEN "write" ELSE "read"

\* Mutant: a thread does not wait for the one that runs the function.
EnterOnce_Early(t) ==
  /\ pc[t] = "once"
  /\ \/ /\ once = "no"
        /\ once' = "running"
        /\ pc' = [pc EXCEPT ![t] = "init"]
     \/ /\ once # "no"
        /\ pc' = [pc EXCEPT ![t] = AfterInit(t)]
        /\ UNCHANGED once
  /\ UNCHANGED <<environment, current_level, call, argument, in_force, answer,
                 asked, calls>>

\* Mutant: is_tracing_level() does not call init().
EnterOnce_WritersOnly(t) ==
  /\ pc[t] = "once"
  /\ \/ /\ once = "no" /\ call[t] = "level"
        /\ once' = "running"
        /\ pc' = [pc EXCEPT ![t] = "init"]
     \/ /\ once = "done" \/ call[t] = "print"
        /\ pc' = [pc EXCEPT ![t] = AfterInit(t)]
        /\ UNCHANGED once
  /\ UNCHANGED <<environment, current_level, call, argument, in_force, answer,
                 asked, calls>>

\* std::call_once: one thread runs the function, the others wait for it.
EnterOnce(t) ==
  /\ pc[t] = "once"
  /\ \/ /\ once = "no"
        /\ once' = "running"
        /\ pc' = [pc EXCEPT ![t] = "init"]
     \/ /\ once = "done"
        /\ pc' = [pc EXCEPT ![t] = AfterInit(t)]
        /\ UNCHANGED once
  /\ UNCHANGED <<environment, current_level, call, argument, in_force, answer,
                 asked, calls>>

FromEnvironment ==
  CASE environment = Unset -> current_level
    [] environment = Blank -> Default
    [] OTHER -> environment

InitLevel(t) ==
  /\ pc[t] = "init"
  /\ environment # Malformed
  /\ Becomes(FromEnvironment)
  /\ once' = "done"
  /\ pc' = [pc EXCEPT ![t] = AfterInit(t)]
  /\ UNCHANGED <<environment, call, argument, answer, asked, calls>>

\* Mutant: the exception leaves the flag as if somebody were inside.
InitThrows_Inside(t) ==
  /\ pc[t] = "init"
  /\ environment = Malformed
  /\ pc' = [pc EXCEPT ![t] = "idle"]
  /\ answer' = [answer EXCEPT ![t] = "threw"]
  /\ UNCHANGED <<environment, once, current_level, call, argument, in_force,
                 asked, calls>>

InitThrows(t) ==
  /\ pc[t] = "init"
  /\ environment = Malformed
  /\ once' = "no"
  /\ pc' = [pc EXCEPT ![t] = "idle"]
  /\ answer' = [answer EXCEPT ![t] = "threw"]
  /\ UNCHANGED <<environment, current_level, call, argument, in_force, asked,
                 calls>>

WriteLevel(t) ==
  /\ pc[t] = "write"
  /\ Becomes(argument[t])
  /\ pc' = [pc EXCEPT ![t] = "idle"]
  /\ answer' = [answer EXCEPT ![t] = "set"]
  /\ UNCHANGED <<environment, once, call, argument, asked, calls>>

\* current_level ? ...
TestLevel(t) ==
  /\ pc[t] = "read"
  /\ IF current_level = 0
       THEN /\ pc' = [pc EXCEPT ![t] = "idle"]
            /\ answer' = [answer EXCEPT ![t] = "silent"]
       ELSE /\ pc' = [pc EXCEPT ![t] = "compare"]
            /\ UNCHANGED answer
  /\ UNCHANGED <<environment, once, current_level, call, argument, in_force,
                 asked, calls>>

\* ... l >= current_level : false
CompareLevel(t) ==
  /\ pc[t] = "compare"
  /\ pc' = [pc EXCEPT ![t] = "idle"]
  /\ answer' = [answer EXCEPT ![t] =
                  IF argument[t] >= current_level THEN "printed" ELSE "silent"]
  /\ UNCHANGED <<environment, once, current_level, call, argument, in_force,
                 asked, calls>>

SetEnvironment ==
  /\ environment = Malformed
  /\ environment' \in Texts
  /\ UNCHANGED <<once, current_level, pc, call, argument, in_force, answer,
                 asked, calls>>

TraceStep(t) ==
  \/ EnterOnce(t)
  \/ InitLevel(t)
  \/ InitThrows(t)
  \/ WriteLevel(t)
  \/ TestLevel(t)
  \/ CompareLevel(t)

TraceNext ==
  \/ \E t \in Threads :
       \/ \E function \in {"level", "print"}, l \in Levels :
            TraceCall(t, function, l)
       \/ TraceStep(t)
  \/ SetEnvironment

\* A thread that can go on does.
TraceFairness == \A t \in Threads : WF_traceVars(TraceStep(t))

TraceSpec == TraceInit /\ [][TraceNext]_traceVars /\ TraceFairness

-----------------------------------------------------------------------------

(* The values of the variables are of their types. *)
TraceTypeOK ==
  /\ environment \in Texts \cup {Unset, Blank, Malformed}
  /\ once \in {"no", "running", "done"}
  /\ current_level \in Levels \cup Texts \cup {Default}
  /\ pc \in [Threads -> {"idle", "once", "init", "write", "read", "compare"}]
  /\ call \in [Threads -> {"level", "print"}]
  /\ argument \in [Threads -> Levels \cup {Default}]
  /\ in_force \in [Threads -> SUBSET (Levels \cup Texts \cup {Default})]
  /\ answer \in [Threads -> {"none", "threw", "set", "printed", "silent"}]
  /\ asked \in SUBSET Levels
  /\ calls \in [Threads -> 0 .. MaxCalls]

(***************************************************************************)
(* The environment decides once, before anything else: as soon as a call   *)
(* of level() has returned, the level is one that level() was called with, *)
(* whoever runs or repeats the initialisation, and nobody has got past an  *)
(* initialisation that failed (trace.cpp:30-45).                           *)
(***************************************************************************)
LevelSticks ==
  /\ \A t \in Threads :
       /\ pc[t] \in {"write", "read", "compare"} => once = "done"
       /\ answer[t] = "set" => current_level \in asked

(***************************************************************************)
(* What is printed, and what is not, is so by a level that was in force at *)
(* some moment of the call - never by the default before COR_DEBUG has     *)
(* been looked at - although the level is read twice and without a lock    *)
(* (trace.cpp:47-52, trace.hpp:188-193).                                   *)
(***************************************************************************)
PrintsByLevel ==
  \A t \in Threads :
    /\ answer[t] = "printed" =>
         \E v \in in_force[t] : v # 0 /\ argument[t] >= v
    /\ answer[t] = "silent" =>
         \E v \in in_force[t] : v = 0 \/ argument[t] < v

(* Every call returns or throws: a failed initialisation leaves nobody     *)
(* waiting (trace.cpp:32).                                                 *)
TraceCallsEnd == \A t \in Threads : pc[t] # "idle" ~> pc[t] = "idle"
=============================================================================
