--------------------------- MODULE UtilityProofs ---------------------------
(***************************************************************************)
(* Proofs about the utilities: the functions that compare two tuples and   *)
(* call an action for what has changed, for any number of fields, whatever *)
(* throws and whichever operand of the sum is evaluated first; the message *)
(* of an error, for messages and limits of any size; tracers nested in     *)
(* each other, however many; the level of the trace, whatever threads do   *)
(* to it; split() and join(), for strings of any length and any set of     *)
(* separators; and the options, for any tables and arguments.              *)
(***************************************************************************)
EXTENDS MCUtilities, Induction, FiniteSetTheorems

(***************************************************************************)
(* What ChangesDelivered says of the end of a call has to be known of its  *)
(* middle.  A field that is not done is as it was; one that is done has    *)
(* been notified if it had to be; one that is notified has its new value   *)
(* if the call copies.                                                     *)
(***************************************************************************)
Untouched == mode # "copy" => values = original

Copied ==
  mode = "copy" =>
    \A f \in Fields : values[f] = IF f \in notified THEN current[f] ELSE original[f]

DoneOnce ==
  /\ notified \cap todo = {}
  /\ mode = "apply" => notified = Fields \ todo
  /\ mode # "apply" => notified = Changed \ todo

Counted == mode # "apply" => counted = Cardinality(notified)

AllDone == result = "returned" => todo = {}

ChangesInv ==
  /\ ChangesTypeOK
  /\ values = synced
  /\ Untouched
  /\ Copied
  /\ DoneOnce
  /\ Counted
  /\ AllDone

(* Fields are finitely many, so counting them one by one is their number.  *)
LEMMA CountOneMore ==
  ASSUME ChangesAssumption, NEW S \in SUBSET Fields, NEW f \in Fields, f \notin S
  PROVE  Cardinality(S \cup {f}) = Cardinality(S) + 1
<1>1. IsFiniteSet(Fields)
  BY FS_Interval DEF Fields, ChangesAssumption
<1>2. IsFiniteSet(S)
  BY <1>1, FS_Subset
<1> QED BY <1>2, FS_AddElement

(* A field that is still to be done differs exactly when it has changed.   *)
LEMMA DiffersIsChanged ==
  ASSUME ChangesInv, NEW f \in todo, mode # "apply"
  PROVE  Differs(f) <=> f \in Changed
<1>1. f \in Fields /\ f \notin notified
  BY DEF ChangesInv, ChangesTypeOK, DoneOnce
<1>2. values[f] = original[f]
  BY <1>1 DEF ChangesInv, Untouched, Copied
<1> QED BY <1>1, <1>2 DEF Differs, Changed

\* Before the first call nothing differs.
LEMMA ChangesStart ==
  ASSUME ChangesAssumption, ChangesInit
  PROVE  ChangesInv
<1>1. PICK x \in Contents : values = [f \in Fields |-> x]
  BY DEF ChangesInit
<1>2. values \in Tuples
  BY <1>1 DEF Tuples
<1>3. ChangesTypeOK
  BY <1>2 DEF ChangesInit, ChangesTypeOK
<1>4. Changed = {}
  BY DEF ChangesInit, Changed
<1>5. Counted
  BY FS_EmptySet DEF ChangesInit, Counted
<1> QED
  BY <1>3, <1>4, <1>5
  DEF ChangesInit, ChangesInv, Untouched, Copied, DoneOnce, AllDone

\* Every step of a call does one field, or ends it.
LEMMA ChangesStep ==
  ASSUME ChangesAssumption, ChangesInv, [ChangesNext]_changesVars
  PROVE  ChangesInv'
<1>1. ASSUME NEW m \in {"compare", "copy", "apply"}, NEW tuple \in Tuples,
             NEW late \in SUBSET (1 .. Size - 1), Begin(m, tuple, late)
      PROVE  ChangesInv'
  <2>1. ChangesTypeOK'
    BY <1>1 DEF Begin, ChangesInv, ChangesTypeOK
  <2>2. (values = synced)' /\ Untouched' /\ Copied'
    BY <1>1 DEF Begin, ChangesInv, Untouched, Copied
  <2>3. DoneOnce'
    BY <1>1 DEF Begin, DoneOnce, Changed
  <2>4. Counted'
    BY <1>1, FS_EmptySet DEF Begin, Counted
  <2>5. AllDone'
    BY <1>1 DEF Begin, AllDone
  <2> QED BY <2>1, <2>2, <2>3, <2>4, <2>5 DEF ChangesInv
<1>2. ASSUME result = "running", NEW f \in Fields, Unchanged(f)
      PROVE  ChangesInv'
  <2>1. ChangesTypeOK'
    BY <1>2 DEF Unchanged, ChangesInv, ChangesTypeOK
  <2>2. (values = synced)' /\ Untouched' /\ Copied' /\ Counted'
    BY <1>2 DEF Unchanged, ChangesInv, Untouched, Copied, Counted
  <2>3. f \in todo /\ mode # "apply" /\ ~Differs(f)
    BY <1>2 DEF Unchanged, IsNext, Differs
  <2>4. f \notin Changed
    BY <2>3, DiffersIsChanged
  <2>5. DoneOnce'
    BY <1>2, <2>3, <2>4 DEF Unchanged, ChangesInv, DoneOnce, Changed
  <2>6. AllDone'
    BY <1>2 DEF Unchanged, AllDone
  <2> QED BY <2>1, <2>2, <2>5, <2>6 DEF ChangesInv
<1>3. ASSUME result = "running", NEW f \in Fields, Notify(f)
      PROVE  ChangesInv'
  <2>1. ChangesTypeOK'
    BY <1>3 DEF Notify, Stored, ChangesInv, ChangesTypeOK, Tuples
  <2>2. f \in todo /\ f \notin notified
    BY <1>3 DEF Notify, IsNext, ChangesInv, DoneOnce
  <2>3. (values = synced)' /\ Untouched'
    BY <1>3 DEF Notify, Stored, ChangesInv, Untouched
  <2>4. Copied'
    BY <1>3 DEF Notify, Stored, ChangesInv, ChangesTypeOK, Tuples, Copied
  <2>5. mode # "apply" => f \in Changed
    BY <1>3, <2>2, DiffersIsChanged DEF Notify
  <2>6. DoneOnce'
    BY <1>3, <2>2, <2>5 DEF Notify, ChangesInv, DoneOnce, Changed
  <2>7. Counted'
    BY <1>3, <2>2, CountOneMore
    DEF Notify, ChangesInv, ChangesTypeOK, Counted
  <2>8. AllDone'
    BY <1>3 DEF Notify, AllDone
  <2> QED BY <2>1, <2>3, <2>4, <2>6, <2>7, <2>8 DEF ChangesInv
<1>4. ASSUME result = "running", NEW f \in Fields, Throw(f)
      PROVE  ChangesInv'
  BY <1>4 DEF Throw, ChangesInv, ChangesTypeOK, Untouched, Copied, DoneOnce,
              Counted, AllDone, Changed
<1>5. ASSUME result = "running", Return
      PROVE  ChangesInv'
  BY <1>5 DEF Return, ChangesInv, ChangesTypeOK, Untouched, Copied, DoneOnce,
              Counted, AllDone, Changed
<1>6. CASE UNCHANGED changesVars
  BY <1>6 DEF changesVars, ChangesInv, ChangesTypeOK, Untouched, Copied,
              DoneOnce, Counted, AllDone, Changed
<1> QED BY <1>1, <1>2, <1>3, <1>4, <1>5, <1>6 DEF ChangesNext

(* The variables of a comparison keep their types. *)
THEOREM ChangesTypeCorrect == ChangesSpec => []ChangesTypeOK
<1>1. ChangesInit => ChangesInv BY ChangesStart, ChangesAssumption
<1>2. ChangesInv /\ [ChangesNext]_changesVars => ChangesInv'
  BY ChangesStep, ChangesAssumption
<1>3. ChangesInv => ChangesTypeOK BY DEF ChangesInv
<1> QED BY <1>1, <1>2, <1>3, PTL DEF ChangesSpec

(* No change is lost, none is reported twice or by mistake, and what is    *)
(* returned is their number, for tuples of any size.                       *)
THEOREM Delivered == ChangesSpec => []ChangesDelivered
<1>1. ChangesInit => ChangesInv BY ChangesStart, ChangesAssumption
<1>2. ChangesInv /\ [ChangesNext]_changesVars => ChangesInv'
  BY ChangesStep, ChangesAssumption
<1>3. ASSUME ChangesInv PROVE ChangesDelivered
  <2>1. ASSUME result = "returned", mode # "apply"
        PROVE  notified = Changed /\ counted = Cardinality(Changed)
    BY <1>3, <2>1 DEF ChangesInv, AllDone, DoneOnce, Counted
  <2>2. ASSUME result = "returned", mode = "apply" PROVE notified = Fields
    BY <1>3, <2>2 DEF ChangesInv, AllDone, DoneOnce
  <2>3. ASSUME result = "returned", mode = "copy" PROVE values = current
    <3>1. \A f \in Fields : values[f] = current[f]
      BY <1>3, <2>1, <2>3 DEF ChangesInv, Copied, Changed
    <3>2. values \in Tuples /\ current \in Tuples
      BY <1>3 DEF ChangesInv, ChangesTypeOK
    <3> QED BY <3>1, <3>2 DEF Tuples
  <2> QED
    BY <1>3, <2>1, <2>2, <2>3 DEF ChangesInv, Untouched, ChangesDelivered
<1> QED BY <1>1, <1>2, <1>3, PTL DEF ChangesSpec

-----------------------------------------------------------------------------
(* The message of an error. *)

(***************************************************************************)
(* The buffer has the size it began with, or twice one that was too small; *)
(* so one that has reached the limit tells that half the limit would not   *)
(* have done, or that the format is that long itself.                      *)
(***************************************************************************)
GrownForCause == size = 2 * format \/ needed < 0 \/ size <= 2 * needed

MessageInv ==
  /\ MessageTypeOK
  /\ formatting \in {"loop", "formatted"} =>
       format > 0 /\ size > 0 /\ GrownForCause
  /\ formatting = "formatted" => (Fits => written = needed)
  /\ MessageWhole

\* Every turn of the loop returns the message or has cause to grow the buffer.
LEMMA MessageStep ==
  ASSUME ErrorMessageAssumption, MessageInv, [MessageNext]_messageVars
  PROVE  MessageInv'
<1> USE DEF MessageInv, MessageTypeOK
<1>0. Limit \in Nat \ {0} /\ MaxFormat \in Nat /\ MaxMessage \in Nat
  BY DEF ErrorMessageAssumption
<1>1. ASSUME NEW f \in 0 .. MaxFormat, NEW n \in -1 .. MaxMessage,
             FormatMessage(f, n)
      PROVE  MessageInv'
  BY <1>0, <1>1 DEF FormatMessage, GrownForCause, Fits, MessageWhole
<1>2. ASSUME Snprintf PROVE MessageInv'
  BY <1>0, <1>2 DEF Snprintf, GrownForCause, Fits, MessageWhole
<1>3. ASSUME Trim PROVE MessageInv'
  BY <1>3 DEF Trim, Fits, MessageWhole, Whole
<1>4. ASSUME Grow PROVE MessageInv'
  BY <1>4 DEF Grow, GrownForCause, Fits, MessageWhole
<1>5. ASSUME GiveUp PROVE MessageInv'
  BY <1>0, <1>5 DEF GiveUp, GrownForCause, MessageWhole
<1>6. CASE UNCHANGED messageVars
  BY <1>6 DEF messageVars, GrownForCause, Fits, MessageWhole, Whole
<1> QED BY <1>1, <1>2, <1>3, <1>4, <1>5, <1>6 DEF MessageNext

\* The buffer at first.
LEMMA MessageStart == MessageInit => MessageInv
BY DEF MessageInit, MessageInv, MessageTypeOK, MessageWhole

(* A message that the limit has room for is returned whole, and of its     *)
(* own length.                                                             *)
THEOREM MessagesAreWhole == MessageSpec => []MessageWhole
<1>1. MessageInv /\ [MessageNext]_messageVars => MessageInv'
  BY MessageStep, ErrorMessageAssumption
<1>2. MessageInv => MessageWhole BY DEF MessageInv
<1> QED BY <1>1, <1>2, MessageStart, PTL DEF MessageSpec

-----------------------------------------------------------------------------

(***************************************************************************)
(* Tracers.  Before the first of them the exception is what was thrown; a  *)
(* stack whose names are null has been printed by one already.             *)
(***************************************************************************)
BeforeTracers ==
  /\ origin = "none" => in_flight = "none" /\ Met = {}
  /\ Met = {} => in_flight = origin /\ symbols = "unknown"

InOrder == \A i \in Met : \A j \in 1 .. i - 1 : j \in Met

StaysWhatItIs ==
  /\ origin \in HasTrace => in_flight # "other"
  /\ origin = "other" => in_flight = "other"
  /\ origin = "std::derived" =>
       in_flight \in {"std::derived", "std::exception", "none"}

TracersInv ==
  /\ TracersTypeOK
  /\ BeforeTracers
  /\ InOrder
  /\ StaysWhatItIs
  /\ ErrorReachesCaller

(* A tracer is met by an exception, after those inside it.                 *)
LEMMA MeetsNext ==
  ASSUME TracersAssumption, TracersInv,
         NEW i \in 1 .. MaxTracers, NEW tracer \in {"msg", "nothrow"},
         Meets(i, tracer)
  PROVE  /\ passed' \in [1 .. MaxTracers -> {"none", "msg", "nothrow"}]
         /\ Met' = Met \cup {i}
         /\ i \notin Met
         /\ InOrder'
         /\ Met = {} <=> i = 1
         /\ passed'[i] = tracer
         /\ \A j \in Met : passed'[j] = passed[j]
         /\ Met' = {1} => i = 1
         /\ i # 1 => 1 \in Met
<1> USE DEF Meets, TracersInv, TracersTypeOK, Met
<1>0. MaxTracers \in Nat
  BY DEF TracersAssumption
<1>1. passed' \in [1 .. MaxTracers -> {"none", "msg", "nothrow"}]
  OBVIOUS
<1>2. Met' = Met \cup {i} /\ i \notin Met /\ passed'[i] = tracer
  OBVIOUS
<1>3. \A j \in 1 .. i - 1 : j \in Met
  BY <1>0
<1>4. InOrder'
  BY <1>2, <1>3 DEF InOrder
<1>5. i # 1 => 1 \in Met
  BY <1>0, <1>3
<1>6. Met = {} <=> i = 1
  BY <1>0, <1>2, <1>5 DEF InOrder
<1>7. \A j \in Met : passed'[j] = passed[j]
  BY <1>2
<1> QED BY <1>1, <1>2, <1>4, <1>5, <1>6, <1>7

\* A tracer meets what those inside it have left.
LEMMA TracersStep ==
  ASSUME TracersAssumption, TracersInv, [TracersNext]_tracerVars
  PROVE  TracersInv'
<1>1. ASSUME NEW type \in Thrown, FunctionThrows(type) PROVE TracersInv'
  BY <1>1 DEF FunctionThrows, Thrown, IsStd, HasTrace, TracersInv, TracersTypeOK,
              BeforeTracers, InOrder, StaysWhatItIs, ErrorReachesCaller, Met
<1>2. ASSUME NEW i \in 1 .. MaxTracers, NEW tracer \in {"msg", "nothrow"},
             CatchError(i, tracer)
      PROVE  TracersInv'
  <2>0. Meets(i, tracer) /\ in_flight \in HasTrace /\ origin' = origin
        /\ in_flight # "none"
    BY <1>2 DEF CatchError, Meets, HasTrace
  <2>1. /\ in_flight' \in {"logic_error", "cor::Error", "none"}
        /\ symbols' \in {"unknown", "null"}
        /\ symbols = "unknown" => in_flight' # "logic_error"
        /\ in_flight' # "logic_error" =>
             in_flight' = IF tracer = "msg" THEN "cor::Error" ELSE "none"
    BY <1>2 DEF CatchError, UpdateSymbols, CopySymbols
  <2>2. TracersTypeOK'
    BY <2>0, <2>1, MeetsNext DEF TracersInv, TracersTypeOK, IsStd, HasTrace
  <2>3. origin \in HasTrace
    BY <2>0 DEF TracersInv, TracersTypeOK, StaysWhatItIs, BeforeTracers, HasTrace,
                Thrown
  <2>4. BeforeTracers' /\ StaysWhatItIs'
    BY <2>0, <2>1, <2>3, MeetsNext DEF BeforeTracers, StaysWhatItIs, HasTrace
  <2>5. ErrorReachesCaller'
    BY <2>0, <2>1, <2>3, MeetsNext
    DEF TracersInv, InOrder, BeforeTracers, ErrorReachesCaller, HasTrace
  <2> QED BY <2>0, <2>2, <2>4, <2>5, MeetsNext DEF TracersInv
<1>3. ASSUME NEW i \in 1 .. MaxTracers, NEW tracer \in {"msg", "nothrow"},
             CatchStd(i, tracer)
      PROVE  TracersInv'
  <2>0. /\ Meets(i, tracer)
        /\ in_flight \in IsStd \ HasTrace
        /\ origin' = origin
        /\ in_flight' = IF tracer = "msg" THEN "std::exception" ELSE "none"
        /\ symbols' = symbols
    BY <1>3 DEF CatchStd, Meets
  <2>2. TracersTypeOK'
    BY <2>0, MeetsNext DEF TracersInv, TracersTypeOK, IsStd, HasTrace
  <2>3. origin # "other" /\ origin # "none"
    BY <2>0 DEF TracersInv, StaysWhatItIs, BeforeTracers, IsStd, HasTrace
  <2>4. BeforeTracers' /\ StaysWhatItIs'
    BY <2>0, <2>3, MeetsNext DEF BeforeTracers, StaysWhatItIs, HasTrace
  <2>5. origin \in HasTrace => Met # {}
    BY <2>0 DEF TracersInv, BeforeTracers
  <2>6. ErrorReachesCaller'
    BY <2>0, <2>3, <2>5, MeetsNext
    DEF TracersInv, InOrder, ErrorReachesCaller, IsStd, HasTrace
  <2> QED BY <2>0, <2>2, <2>4, <2>6, MeetsNext DEF TracersInv
<1>4. ASSUME NEW i \in 1 .. MaxTracers, NEW tracer \in {"msg", "nothrow"},
             PassOther(i, tracer)
      PROVE  TracersInv'
  <2>0. Meets(i, tracer) /\ in_flight = "other" /\ UNCHANGED <<in_flight, symbols, origin>>
    BY <1>4 DEF PassOther, Meets
  <2>1. origin = "other"
    BY <2>0 DEF TracersInv, TracersTypeOK, StaysWhatItIs, BeforeTracers, HasTrace,
                Thrown
  <2> QED
    BY <2>0, <2>1, MeetsNext
    DEF TracersInv, TracersTypeOK, BeforeTracers, StaysWhatItIs,
        ErrorReachesCaller, HasTrace
<1>5. CASE UNCHANGED tracerVars
  BY <1>5 DEF tracerVars, TracersInv, TracersTypeOK, BeforeTracers, InOrder,
              StaysWhatItIs, ErrorReachesCaller, Met
<1> QED BY <1>1, <1>2, <1>3, <1>4, <1>5 DEF TracersNext

\* Nothing is thrown at first.
LEMMA TracersStart == TracersInit => TracersInv
BY DEF TracersInit, TracersInv, TracersTypeOK, BeforeTracers, InOrder,
       StaysWhatItIs, ErrorReachesCaller, Met, HasTrace, IsStd, Thrown

(* The first tracer passes an error on or stops it as it says; a printing  *)
(* that throws replaces it at the second one at the earliest.              *)
THEOREM ErrorsReachCallers == TracersSpec => []ErrorReachesCaller
<1>1. TracersInv /\ [TracersNext]_tracerVars => TracersInv'
  BY TracersStep, TracersAssumption
<1>2. TracersInv => ErrorReachesCaller BY DEF TracersInv
<1> QED BY <1>1, <1>2, TracersStart, PTL DEF TracersSpec

-----------------------------------------------------------------------------

(***************************************************************************)
(* The level of the trace, for any number of threads that set it, print by *)
(* it and race for its initialisation.                                     *)
(***************************************************************************)

(***************************************************************************)
(* One thread at most runs the initialisation, and nobody has got past it  *)
(* before it is done.                                                      *)
(***************************************************************************)
OneInitializes ==
  /\ \A t \in Threads : pc[t] = "init" => once = "running"
  /\ \A t, u \in Threads : pc[t] = "init" /\ pc[u] = "init" => t = u
  /\ \A t \in Threads : pc[t] \in {"write", "read", "compare"} => once = "done"

\* A thread inside a call has no answer yet; a level it will set is asked for.
Pending ==
  /\ \A t \in Threads : pc[t] # "idle" => answer[t] = "none"
  /\ \A t \in Threads :
       pc[t] # "idle" /\ call[t] = "level" => argument[t] \in asked
  /\ \A t \in Threads : pc[t] = "write" => call[t] = "level"

\* A level that was set stays one that was asked for.
SetByCaller == \A t \in Threads :
  answer[t] = "set" => once = "done" /\ current_level \in asked

(***************************************************************************)
(* Every thread inside a call has seen the level that there is, once it is *)
(* initialised; and no level that a program sets is 0, so that what was    *)
(* not 0 at the first look is not 0 at the second.                         *)
(***************************************************************************)
Seen ==
  /\ \A t \in Threads :
       once = "done" /\ pc[t] # "idle" => current_level \in in_force[t]
  /\ \A t \in Threads : pc[t] = "compare" => current_level # 0

TraceInv ==
  /\ TraceTypeOK
  /\ OneInitializes
  /\ Pending
  /\ SetByCaller
  /\ Seen
  /\ PrintsByLevel

\* The types at first.
LEMMA TraceTypeStart ==
  ASSUME TraceAssumption, TraceInit
  PROVE  TraceTypeOK
BY DEF TraceAssumption, TraceInit, TraceTypeOK

(* What the initialisation writes is a level, a number or the default.     *)
LEMMA FromEnvironmentType ==
  ASSUME TraceAssumption, TraceTypeOK, environment # Malformed
  PROVE  FromEnvironment \in Levels \cup Texts \cup {Default}
BY DEF TraceAssumption, TraceTypeOK, FromEnvironment

(* The table of the levels in force when v becomes the level.              *)
LEMMA BecomesType ==
  ASSUME TraceTypeOK, NEW v \in Levels \cup Texts \cup {Default}, Becomes(v)
  PROVE  /\ current_level' = v
         /\ in_force' \in [Threads -> SUBSET (Levels \cup Texts \cup {Default})]
         /\ \A t \in Threads :
              in_force'[t] = IF pc[t] # "idle" THEN in_force[t] \cup {v}
                             ELSE in_force[t]
BY DEF Becomes, TraceTypeOK

\* No thread is in a call at first.
LEMMA TraceStart ==
  ASSUME TraceAssumption, TraceInit
  PROVE  TraceInv
<1>1. OneInitializes /\ Pending /\ SetByCaller /\ Seen /\ PrintsByLevel
  BY DEF TraceInit, OneInitializes, Pending, SetByCaller, Seen, PrintsByLevel
<1> QED BY <1>1, TraceTypeStart DEF TraceInv

\* Every step of every thread keeps the initialisation single and the levels seen.
LEMMA TraceStepInv ==
  ASSUME TraceAssumption, TraceInv, [TraceNext]_traceVars
  PROVE  TraceInv'
<1> USE DEF TraceInv
<1>1. ASSUME NEW t \in Threads, NEW function \in {"level", "print"},
             NEW l \in Levels, TraceCall(t, function, l)
      PROVE  TraceInv'
  <2>1. TraceTypeOK'
    BY <1>1, TraceAssumption DEF TraceCall, TraceTypeOK, TraceAssumption
  <2>2. OneInitializes' BY <1>1 DEF TraceCall, TraceTypeOK, OneInitializes
  <2>3. Pending' BY <1>1 DEF TraceCall, TraceTypeOK, Pending
  <2>4. SetByCaller' BY <1>1 DEF TraceCall, TraceTypeOK, SetByCaller
  <2>5. Seen' BY <1>1 DEF TraceCall, TraceTypeOK, Seen
  <2>6. PrintsByLevel' BY <1>1 DEF TraceCall, TraceTypeOK, PrintsByLevel
  <2> QED BY <2>1, <2>2, <2>3, <2>4, <2>5, <2>6
<1>2. ASSUME NEW t \in Threads, EnterOnce(t) PROVE TraceInv'
  <2>1. TraceTypeOK' BY <1>2 DEF EnterOnce, AfterInit, TraceTypeOK
  <2>2. OneInitializes'
    BY <1>2 DEF EnterOnce, AfterInit, TraceTypeOK, OneInitializes
  <2>3. Pending' BY <1>2 DEF EnterOnce, AfterInit, TraceTypeOK, Pending
  <2>4. SetByCaller' BY <1>2 DEF EnterOnce, SetByCaller
  <2>5. Seen' BY <1>2 DEF EnterOnce, AfterInit, TraceTypeOK, Seen
  <2>6. PrintsByLevel' BY <1>2 DEF EnterOnce, PrintsByLevel
  <2> QED BY <2>1, <2>2, <2>3, <2>4, <2>5, <2>6
<1>3. ASSUME NEW t \in Threads, InitLevel(t) PROVE TraceInv'
  <2> DEFINE v == FromEnvironment
  <2>0. v \in Levels \cup Texts \cup {Default} /\ Becomes(v)
    BY <1>3, FromEnvironmentType, TraceAssumption DEF InitLevel
  <2> HIDE DEF v
  <2>1. TraceTypeOK'
    BY <1>3, <2>0, BecomesType DEF InitLevel, AfterInit, TraceTypeOK
  <2>2. OneInitializes'
    BY <1>3 DEF InitLevel, AfterInit, TraceTypeOK, OneInitializes
  <2>3. Pending' BY <1>3 DEF InitLevel, AfterInit, TraceTypeOK, Pending
  <2>4. SetByCaller' BY <1>3 DEF InitLevel, OneInitializes, SetByCaller
  <2>5. Seen'
    <3>1. current_level' = v /\ \A u \in Threads : pc[u] # "idle" => v \in in_force'[u]
      BY <2>0, BecomesType
    <3>2. pc[t] = "init" /\ \A u \in Threads : pc'[u] # "idle" => pc[u] # "idle"
      BY <1>3 DEF InitLevel, AfterInit, TraceTypeOK
    <3>3. \A u \in Threads : pc'[u] # "compare"
      BY <1>3 DEF InitLevel, AfterInit, TraceTypeOK, OneInitializes
    <3> QED BY <3>1, <3>2, <3>3 DEF Seen
  <2>6. PrintsByLevel'
    BY <1>3, <2>0, BecomesType DEF InitLevel, Pending, PrintsByLevel
  <2> QED BY <2>1, <2>2, <2>3, <2>4, <2>5, <2>6
<1>4. ASSUME NEW t \in Threads, InitThrows(t) PROVE TraceInv'
  <2>1. TraceTypeOK' BY <1>4 DEF InitThrows, TraceTypeOK
  <2>2. OneInitializes' BY <1>4 DEF InitThrows, TraceTypeOK, OneInitializes
  <2>3. Pending' BY <1>4 DEF InitThrows, TraceTypeOK, Pending
  <2>4. SetByCaller'
    BY <1>4 DEF InitThrows, TraceTypeOK, OneInitializes, SetByCaller
  <2>5. Seen' BY <1>4 DEF InitThrows, TraceTypeOK, Seen
  <2>6. PrintsByLevel' BY <1>4 DEF InitThrows, TraceTypeOK, PrintsByLevel
  <2> QED BY <2>1, <2>2, <2>3, <2>4, <2>5, <2>6
<1>5. ASSUME NEW t \in Threads, WriteLevel(t) PROVE TraceInv'
  <2> DEFINE v == argument[t]
  <2>0. /\ v \in Levels \cup Texts \cup {Default}
        /\ v # 0
        /\ Becomes(v)
    BY <1>5, TraceAssumption DEF WriteLevel, TraceTypeOK, TraceAssumption
  <2>7. v \in asked /\ once = "done"
    BY <1>5 DEF WriteLevel, Pending, OneInitializes
  <2>8. pc[t] = "write" /\ pc' = [pc EXCEPT ![t] = "idle"]
        /\ answer' = [answer EXCEPT ![t] = "set"]
        /\ UNCHANGED <<environment, once, call, argument, asked, calls>>
    BY <1>5 DEF WriteLevel
  <2> HIDE DEF v
  <2>1. TraceTypeOK'
    BY <2>8, <2>0, BecomesType DEF TraceTypeOK
  <2>2. OneInitializes' BY <2>8 DEF TraceTypeOK, OneInitializes
  <2>3. Pending' BY <2>8 DEF TraceTypeOK, Pending
  <2>4. SetByCaller'
    BY <2>8, <2>0, <2>7, BecomesType DEF TraceTypeOK, SetByCaller
  <2>5. Seen'
    BY <2>8, <2>0, BecomesType DEF TraceTypeOK, Seen
  <2>6. PrintsByLevel'
    BY <2>8, <2>0, BecomesType DEF TraceTypeOK, Pending, PrintsByLevel
  <2> QED BY <2>1, <2>2, <2>3, <2>4, <2>5, <2>6
<1>6. ASSUME NEW t \in Threads, TestLevel(t) PROVE TraceInv'
  <2>1. TraceTypeOK' BY <1>6 DEF TestLevel, TraceTypeOK
  <2>2. OneInitializes' BY <1>6 DEF TestLevel, TraceTypeOK, OneInitializes
  <2>3. Pending' BY <1>6 DEF TestLevel, TraceTypeOK, Pending
  <2>4. SetByCaller' BY <1>6 DEF TestLevel, TraceTypeOK, SetByCaller
  <2>5. Seen' BY <1>6 DEF TestLevel, TraceTypeOK, Seen
  <2>6. PrintsByLevel'
    BY <1>6 DEF TestLevel, TraceTypeOK, OneInitializes, Seen, PrintsByLevel
  <2> QED BY <2>1, <2>2, <2>3, <2>4, <2>5, <2>6
<1>7. ASSUME NEW t \in Threads, CompareLevel(t) PROVE TraceInv'
  <2>1. TraceTypeOK' BY <1>7 DEF CompareLevel, TraceTypeOK
  <2>2. OneInitializes' BY <1>7 DEF CompareLevel, TraceTypeOK, OneInitializes
  <2>3. Pending' BY <1>7 DEF CompareLevel, TraceTypeOK, Pending
  <2>4. SetByCaller' BY <1>7 DEF CompareLevel, TraceTypeOK, SetByCaller
  <2>5. Seen' BY <1>7 DEF CompareLevel, TraceTypeOK, Seen
  <2>6. PrintsByLevel'
    <3>1. current_level \in in_force[t] /\ current_level # 0
      BY <1>7 DEF CompareLevel, OneInitializes, Seen
    <3>2. argument[t] \in Int /\ current_level \in Int
      <4>1. /\ argument[t] \in Levels \cup {Default}
            /\ current_level \in Levels \cup Texts \cup {Default}
        BY DEF TraceTypeOK
      <4>2. \A l \in Levels \cup Texts \cup {Default} : l \in Int
        BY TraceAssumption DEF TraceAssumption
      <4> QED BY <4>1, <4>2
    <3>3. /\ answer' = [answer EXCEPT ![t] = answer'[t]]
          /\ answer'[t] = IF argument[t] >= current_level THEN "printed" ELSE "silent"
          /\ UNCHANGED <<argument, in_force>>
      BY <1>7 DEF CompareLevel, TraceTypeOK
    <3>4. \A u \in Threads \ {t} : answer'[u] = answer[u]
      BY <3>3 DEF TraceTypeOK
    <3>5. CASE argument[t] >= current_level
      <4>1. answer'[t] = "printed" BY <3>3, <3>5
      <4> QED BY <3>1, <3>3, <3>4, <3>5, <4>1 DEF PrintsByLevel
    <3>6. CASE ~(argument[t] >= current_level)
      <4>1. answer'[t] = "silent" BY <3>3, <3>6
      <4>2. argument[t] < current_level BY <3>2, <3>6
      <4> QED BY <3>1, <3>3, <3>4, <4>1, <4>2 DEF PrintsByLevel
    <3> QED BY <3>5, <3>6
  <2> QED BY <2>1, <2>2, <2>3, <2>4, <2>5, <2>6
<1>8. CASE SetEnvironment
  BY <1>8 DEF SetEnvironment, TraceTypeOK, OneInitializes, Pending, SetByCaller,
              Seen, PrintsByLevel
<1>9. CASE UNCHANGED traceVars
  BY <1>9 DEF traceVars, TraceTypeOK, OneInitializes, Pending, SetByCaller,
              Seen, PrintsByLevel
<1> QED
  BY <1>1, <1>2, <1>3, <1>4, <1>5, <1>6, <1>7, <1>8, <1>9
  DEF TraceNext, TraceStep

(* Every variable of the trace keeps its type. *)
THEOREM TraceTypeCorrect == TraceSpec => []TraceTypeOK
<1>1. TraceInit => TraceInv BY TraceStart, TraceAssumption
<1>2. TraceInv /\ [TraceNext]_traceVars => TraceInv'
  BY TraceStepInv, TraceAssumption
<1>3. TraceInv => TraceTypeOK BY DEF TraceInv
<1> QED BY <1>1, <1>2, <1>3, PTL DEF TraceSpec

(* After a call of level() the level is one that was asked for: the        *)
(* initialisation never overwrites it, whoever runs or repeats it.         *)
THEOREM LevelIsKept == TraceSpec => []LevelSticks
<1>1. TraceInit => TraceInv BY TraceStart, TraceAssumption
<1>2. TraceInv /\ [TraceNext]_traceVars => TraceInv'
  BY TraceStepInv, TraceAssumption
<1>3. TraceInv => LevelSticks
  BY DEF TraceInv, OneInitializes, SetByCaller, LevelSticks
<1> QED BY <1>1, <1>2, <1>3, PTL DEF TraceSpec

(* What is printed or not is so by a level in force during the call,       *)
(* although the level is read twice without a lock.                        *)
THEOREM PrintingIsByLevel == TraceSpec => []PrintsByLevel
<1>1. TraceInit => TraceInv BY TraceStart, TraceAssumption
<1>2. TraceInv /\ [TraceNext]_traceVars => TraceInv'
  BY TraceStepInv, TraceAssumption
<1>3. TraceInv => PrintsByLevel BY DEF TraceInv
<1> QED BY <1>1, <1>2, <1>3, PTL DEF TraceSpec

-----------------------------------------------------------------------------
(* Sequences that are put together and taken apart. *)

(***************************************************************************)
(* FlattenSeq, whose definition is recursive, by its turns.                *)
(***************************************************************************)
Turns(f, s) ==
  /\ f[1] = s[1]
  /\ \A i \in 2 .. Len(s) : f[i] = f[i - 1] \o s[i]

\* The last of its turns is what it gives.
LEMMA FlattenByTurns ==
  ASSUME NEW X, NEW s \in Seq(Seq(X)), s # <<>>
  PROVE  \E f \in [1 .. Len(s) -> Seq(X)] : Turns(f, s) /\ FlattenSeq(s) = f[Len(s)]
<1> DEFINE N == Len(s)
           S == Seq(X)
           turn == [p \in (1 .. N) \X S |-> p[2] \o s[p[1]]]
           loop(g) == [i \in 1 .. N |-> IF i = 1 THEN s[i] ELSE g[i - 1] \o s[i]]
           flat == CHOOSE g : g = loop(g)
<1>1. N \in Nat \ {0} /\ \A i \in 1 .. N : s[i] \in S
  OBVIOUS
<1>2. <<>> \in S /\ (\A a, b \in S : a \o b \in S) /\ \A a \in S : <<>> \o a = a
  OBVIOUS
<1>9. FlattenSeq(s) = flat[N]
  BY <1>1 DEF FlattenSeq
<1> HIDE DEF N, S
<1>3. turn \in [(1 .. N) \X S -> S]
  BY <1>1, <1>2
<1>4. PICK f \in [0 .. N -> S] : IsLoop(f, N, <<>>, turn)
  <2> HIDE DEF turn
  <2> QED BY <1>1, <1>2, <1>3, LoopDefined
<1>5. ASSUME NEW i \in 1 .. N PROVE f[i] = f[i - 1] \o s[i] /\ f[i] \in S
  <2>1. i - 1 \in 0 .. N /\ f[i - 1] \in S /\ f[i] \in S
    BY <1>1, <1>4
  <2>2. <<i, f[i - 1]>> \in (1 .. N) \X S
    BY <2>1
  <2> QED BY <1>4, <2>1, <2>2 DEF IsLoop
<1>6. f[1] = s[1]
  <2>1. 1 \in 1 .. N /\ 1 - 1 = 0
    BY <1>1
  <2>2. f[1] = f[0] \o s[1] /\ f[0] = <<>>
    BY <1>4, <1>5, <2>1 DEF IsLoop
  <2> QED BY <1>1, <1>2, <2>1, <2>2
<1> DEFINE h == [i \in 1 .. N |-> f[i]]
<1>7. h = loop(h)
  <2>1. \A i \in 1 .. N : i # 1 => i - 1 \in 1 .. N
    BY <1>1
  <2> QED BY <1>5, <1>6, <2>1
<1>8. flat = loop(flat)
  <2> HIDE DEF loop, h
  <2> QED BY <1>7
<1> HIDE DEF flat
<1>10. flat[1] = s[1] /\ \A i \in 2 .. N : flat[i] = flat[i - 1] \o s[i]
  <2>1. \A i \in 1 .. N : flat[i] = IF i = 1 THEN s[i] ELSE flat[i - 1] \o s[i]
    BY <1>8
  <2>2. 1 \in 1 .. N /\ \A i \in 2 .. N : i \in 1 .. N /\ i # 1
    BY <1>1
  <2> QED BY <2>1, <2>2
<1> DEFINE T == {i \in 0 .. N - 1 : flat[i + 1] \in S}
<1>11. 0 \in T
  BY <1>1, <1>10
<1>12. ASSUME NEW i \in 0 .. (N - 1) - 1, i \in T PROVE i + 1 \in T
  <2>1. i + 2 \in 2 .. N /\ (i + 2) - 1 = i + 1 /\ i + 1 \in 0 .. N - 1 /\ (i + 1) + 1 = i + 2
    BY <1>1
  <2>2. flat[i + 2] = flat[i + 1] \o s[i + 2] /\ flat[i + 1] \in S /\ s[i + 2] \in S
    <3>1. i + 2 \in 1 .. N
      BY <1>1, <2>1
    <3>2. flat[i + 2] = flat[(i + 2) - 1] \o s[i + 2]
      BY <1>10, <2>1
    <3> QED BY <1>1, <1>12, <2>1, <3>1, <3>2
  <2> QED BY <1>2, <2>1, <2>2
<1> HIDE DEF T
<1>13. 0 .. N - 1 \subseteq T
  <2>1. N - 1 \in Nat
    BY <1>1
  <2> QED BY <1>11, <1>12, <2>1, StepByStep
<1>14. \A i \in 1 .. N : flat[i] \in S
  <2> TAKE i \in 1 .. N
  <2>1. i - 1 \in 0 .. N - 1 /\ (i - 1) + 1 = i
    BY <1>1
  <2> QED BY <1>13, <2>1 DEF T
<1>15. flat \in [1 .. N -> S]
  <2>1. flat = [i \in 1 .. N |-> flat[i]]
    BY <1>8
  <2> QED BY <1>14, <2>1
<1> QED BY <1>9, <1>10, <1>15 DEF Turns, N, S

\* There is nothing in nothing.
LEMMA FlattenEmpty == FlattenSeq(<<>>) = <<>>
BY DEF FlattenSeq

\* One item more at the end.
LEMMA AppendedTo ==
  ASSUME NEW S, NEW s \in Seq(S), NEW e \in S
  PROVE  /\ Append(s, e) \in Seq(S)
         /\ Len(s) \in Nat
         /\ Len(Append(s, e)) = Len(s) + 1
         /\ Append(s, e)[Len(s) + 1] = e
         /\ \A i \in 1 .. Len(s) : Append(s, e)[i] = s[i]
OBVIOUS

(* One sequence more is put behind the others.                             *)
LEMMA FlattenAppend ==
  ASSUME NEW X, NEW s \in Seq(Seq(X)), NEW e \in Seq(X)
  PROVE  FlattenSeq(s) \in Seq(X) /\ FlattenSeq(Append(s, e)) = FlattenSeq(s) \o e
<1> DEFINE N == Len(s)
           t == Append(s, e)
<1>1. /\ t \in Seq(Seq(X)) /\ Len(t) = N + 1 /\ N \in Nat /\ t # <<>>
      /\ t[N + 1] = e /\ \A i \in 1 .. N : t[i] = s[i]
  <2>1. /\ t \in Seq(Seq(X)) /\ Len(t) = N + 1 /\ N \in Nat
        /\ t[N + 1] = e /\ \A i \in 1 .. N : t[i] = s[i]
    BY AppendedTo
  <2>2. t # <<>>
    <3> HIDE DEF t, N
    <3> QED BY <2>1
  <2> QED BY <2>1, <2>2
<1>2. PICK g \in [1 .. Len(t) -> Seq(X)] : Turns(g, t) /\ FlattenSeq(t) = g[Len(t)]
  <2> HIDE DEF t
  <2> QED BY <1>1, FlattenByTurns
<1> HIDE DEF t
<1>3. CASE s = <<>>
  <2>1. N = 0 /\ FlattenSeq(s) = <<>>
    BY <1>3, FlattenEmpty
  <2>2. FlattenSeq(t) = e
    BY <1>1, <1>2, <2>1 DEF Turns
  <2>3. <<>> \in Seq(X) /\ <<>> \o e = e
    OBVIOUS
  <2> QED BY <2>1, <2>2, <2>3 DEF t
<1>4. CASE s # <<>>
  <2>1. PICK f \in [1 .. N -> Seq(X)] : Turns(f, s) /\ FlattenSeq(s) = f[N]
    BY <1>4, FlattenByTurns
  <2>2. N \in Nat \ {0}
    BY <1>4
  <2> DEFINE T == {i \in 0 .. N - 1 : g[i + 1] = f[i + 1]}
  <2> HIDE DEF N
  <2>3. 0 \in T
    BY <1>1, <1>2, <2>1, <2>2 DEF Turns
  <2>4. ASSUME NEW i \in 0 .. (N - 1) - 1, i \in T PROVE i + 1 \in T
    <3>1. i + 2 \in 2 .. N /\ (i + 2) - 1 = i + 1 /\ i + 1 \in 0 .. N - 1 /\ (i + 1) + 1 = i + 2
          /\ i + 2 \in 2 .. N + 1 /\ i + 2 \in 1 .. N
      BY <2>2
    <3>2. f[i + 2] = f[i + 1] \o s[i + 2]
      BY <2>1, <3>1 DEF Turns, N
    <3>3. g[i + 2] = g[i + 1] \o t[i + 2]
      BY <1>1, <1>2, <3>1 DEF Turns
    <3> QED BY <1>1, <2>4, <3>1, <3>2, <3>3
  <2> HIDE DEF T
  <2>5. 0 .. N - 1 \subseteq T
    <3>1. N - 1 \in Nat
      BY <2>2
    <3> QED BY <2>3, <2>4, <3>1, StepByStep
  <2>6. g[N] = f[N]
    <3>1. N - 1 \in 0 .. N - 1 /\ (N - 1) + 1 = N
      BY <2>2
    <3> QED BY <2>5, <3>1 DEF T
  <2>7. g[N + 1] = g[N] \o e
    <3>1. N + 1 \in 2 .. N + 1 /\ (N + 1) - 1 = N
      BY <2>2
    <3> QED BY <1>1, <1>2, <3>1 DEF Turns
  <2>8. f[N] \in Seq(X)
    BY <2>1, <2>2
  <2> QED BY <1>1, <1>2, <2>1, <2>6, <2>7, <2>8 DEF t
<1> QED BY <1>3, <1>4

(* A sequence is its beginning and what comes after it.                    *)
LEMMA Pasted ==
  ASSUME NEW X, NEW u \in Seq(X), NEW b \in 0 .. Len(u), NEW a \in 0 .. b
  PROVE  /\ SubSeq(u, 1, a) \in Seq(X) /\ SubSeq(u, a + 1, b) \in Seq(X)
         /\ SubSeq(u, 1, a) \o SubSeq(u, a + 1, b) = SubSeq(u, 1, b)
         /\ SubSeq(u, 1, 0) = <<>> /\ SubSeq(u, 1, Len(u)) = u
         /\ b < Len(u) => SubSeq(u, 1, b) \o <<u[b + 1]>> = SubSeq(u, 1, b + 1)
<1>1. Len(u) \in Nat /\ a \in Nat /\ b \in Nat /\ a <= b /\ b <= Len(u)
  OBVIOUS
<1>2. SubSeq(u, 1, a) \in Seq(X) /\ SubSeq(u, a + 1, b) \in Seq(X)
  BY <1>1
<1>3. SubSeq(u, 1, a) \o SubSeq(u, a + 1, b) = SubSeq(u, 1, b)
  BY <1>1
<1>4. SubSeq(u, 1, 0) = <<>> /\ SubSeq(u, 1, Len(u)) = u
  BY <1>1
<1>5. b < Len(u) => SubSeq(u, 1, b) \o <<u[b + 1]>> = SubSeq(u, 1, b + 1)
  BY <1>1
<1> QED BY <1>2, <1>3, <1>4, <1>5

-----------------------------------------------------------------------------
(* split() and join(). *)

Pieces(strings, sep) ==
  [i \in DOMAIN strings |-> IF i = 1 THEN strings[i] ELSE sep \o strings[i]]

(* What one part more does to what is joined.                              *)
JoinedWith(strings, sep, p) ==
  /\ strings = <<>> => Join(Append(strings, p), sep) = p
  /\ strings # <<>> => Join(Append(strings, p), sep) = Join(strings, sep) \o (sep \o p)

\* It comes behind a separator, unless it is the first.
LEMMA JoinAppend ==
  ASSUME NEW X, NEW strings \in Seq(Seq(X)), NEW sep \in Seq(X), NEW p \in Seq(X)
  PROVE  Join(strings, sep) \in Seq(X) /\ JoinedWith(strings, sep, p)
<1> DEFINE S == Seq(X)
           N == Len(strings)
           longer == Append(strings, p)
           last == IF N = 0 THEN p ELSE sep \o p
           pieces == Pieces(strings, sep)
<1>1. \A a, b \in S : a \o b \in S
  OBVIOUS
<1>2. /\ longer \in Seq(S) /\ Len(longer) = N + 1 /\ N \in Nat /\ longer[N + 1] = p
      /\ \A i \in 1 .. N : longer[i] = strings[i]
  BY AppendedTo
<1>3. /\ DOMAIN strings = 1 .. N /\ DOMAIN longer = 1 .. N + 1
      /\ \A i \in 1 .. N : strings[i] \in S
  <2>1. strings \in Seq(S)
    OBVIOUS
  <2> HIDE DEF S, longer
  <2> QED BY <1>2, <2>1
<1>4. strings = <<>> <=> N = 0
  <2>1. strings \in Seq(S)
    OBVIOUS
  <2> HIDE DEF S
  <2> QED BY <2>1
<1>5. last \in S
  BY <1>1
<1> HIDE DEF S, N, longer, last
<1>6. pieces \in Seq(S) /\ Len(pieces) = N
  <2>1. \A i \in 1 .. N : (IF i = 1 THEN strings[i] ELSE sep \o strings[i]) \in S
    BY <1>1, <1>3 DEF S
  <2>2. pieces = [i \in 1 .. N |-> IF i = 1 THEN strings[i] ELSE sep \o strings[i]]
    BY <1>3 DEF Pieces
  <2>3. pieces \in [1 .. N -> S]
    BY <2>1, <2>2
  <2> HIDE DEF pieces
  <2> QED BY <1>2, <2>3
<1>7. Pieces(longer, sep) = Append(pieces, last)
  <2>1. Pieces(longer, sep) =
          [i \in 1 .. N + 1 |-> IF i = 1 THEN longer[i] ELSE sep \o longer[i]]
    BY <1>3 DEF Pieces
  <2>2. /\ Append(pieces, last) \in Seq(S)
        /\ Len(Append(pieces, last)) = N + 1
        /\ Append(pieces, last)[N + 1] = last
        /\ \A i \in 1 .. N : Append(pieces, last)[i] = pieces[i]
    <3> HIDE DEF pieces
    <3> QED BY <1>5, <1>6, AppendedTo
  <2>3. \A i \in 1 .. N : pieces[i] = IF i = 1 THEN longer[i] ELSE sep \o longer[i]
    BY <1>2, <1>3 DEF Pieces
  <2>4. last = IF N + 1 = 1 THEN longer[N + 1] ELSE sep \o longer[N + 1]
    BY <1>2 DEF last
  <2>5. Append(pieces, last) = [i \in 1 .. N + 1 |-> Append(pieces, last)[i]]
    <3> DEFINE ap == Append(pieces, last)
    <3>1. ap \in Seq(S) /\ Len(ap) = N + 1
      BY <2>2
    <3> HIDE DEF ap
    <3>2. ap = [i \in 1 .. N + 1 |-> ap[i]]
      BY <3>1
    <3> QED BY <3>2 DEF ap
  <2>6. \A i \in 1 .. N + 1 : i \in 1 .. N \/ i = N + 1
    BY <1>2
  <2>7. \A i \in 1 .. N + 1 : Append(pieces, last)[i] =
                              IF i = 1 THEN longer[i] ELSE sep \o longer[i]
    <3> HIDE DEF pieces
    <3> QED BY <2>2, <2>3, <2>4, <2>6
  <2> HIDE DEF pieces
  <2> QED BY <2>1, <2>5, <2>7
<1>8. FlattenSeq(pieces) \in Seq(X)
      /\ FlattenSeq(Append(pieces, last)) = FlattenSeq(pieces) \o last
  <2> HIDE DEF pieces
  <2> QED BY <1>5, <1>6, FlattenAppend DEF S
<1>9. Join(strings, sep) = FlattenSeq(pieces) /\ Join(longer, sep) = FlattenSeq(Append(pieces, last))
  BY <1>7 DEF Join, Pieces
<1>10. CASE N = 0
  <2>1. pieces = <<>>
    <3> HIDE DEF pieces
    <3> QED BY <1>6, <1>10
  <2>2. FlattenSeq(pieces) = <<>> /\ last = p
    BY <1>10, <2>1, FlattenEmpty DEF last
  <2>3. <<>> \o p = p
    OBVIOUS
  <2> HIDE DEF pieces
  <2> QED BY <1>4, <1>8, <1>9, <1>10, <2>2, <2>3 DEF longer, JoinedWith
<1>11. CASE N # 0
  <2>1. last = sep \o p
    BY <1>11 DEF last
  <2> HIDE DEF pieces
  <2> QED BY <1>4, <1>8, <1>9, <1>11, <2>1 DEF longer, JoinedWith
<1> QED BY <1>10, <1>11

(***************************************************************************)
(* What JoinUndoesSplit says of the end, said of what is before begin:     *)
(* with a separator behind them the parts so far make that much of the     *)
(* string, and there is one for each separator in it.                      *)
(***************************************************************************)
CutsUpTo(m) == Cardinality({i \in 1 .. m : src[i] \in Separators})

PartsSoFar ==
  /\ Len(parts) = CutsUpTo(begin)
  /\ parts = <<>> => begin = 0
  /\ parts # <<>> =>
       \A s \in Separators : Join(parts, <<s>>) \o <<s>> = SubSeq(Uniform(s), 1, begin)

PartsPlain ==
  \A i \in DOMAIN parts : \A j \in DOMAIN parts[i] : parts[i][j] \notin Separators

SplitInv ==
  /\ SplitTypeOK
  /\ splitting # "idle" => PartsPlain
  /\ splitting \in {"loop", "tail"} => PartsSoFar
  /\ splitting = "loop" => FindFirst(src, begin, end)
  /\ splitting = "tail" => begin = Len(src) /\ end = begin - 1 /\ parts # <<>>
  /\ JoinUndoesSplit

(* Separators are counted where they are.                                  *)
LEMMA CountedUpTo ==
  ASSUME SplitTypeOK, NEW b \in 0 .. Len(src), NEW a \in 0 .. b,
         \A i \in a + 1 .. b : src[i] \notin Separators
  PROVE  /\ CutsUpTo(0) = 0 /\ CutsUpTo(b) = CutsUpTo(a) /\ CutsUpTo(b) \in Nat
         /\ b < Len(src) /\ src[b + 1] \in Separators => CutsUpTo(b + 1) = CutsUpTo(b) + 1
         /\ Cuts = CutsUpTo(Len(src))
<1> DEFINE at(m) == {i \in 1 .. m : src[i] \in Separators}
<1>1. Len(src) \in Nat /\ a \in Nat /\ b \in Nat /\ a <= b /\ DOMAIN src = 1 .. Len(src)
  BY DEF SplitTypeOK
<1>2. at(b) = at(a)
  BY <1>1
<1>3. at(0) = {}
  OBVIOUS
<1>4. IsFiniteSet(at(b))
  <2>1. IsFiniteSet(1 .. b)
    BY <1>1, FS_Interval
  <2> QED BY <2>1, FS_Subset
<1>5. ASSUME b < Len(src), src[b + 1] \in Separators
      PROVE  at(b + 1) = at(b) \cup {b + 1} /\ b + 1 \notin at(b)
  BY <1>1, <1>5
<1> HIDE DEF at
<1>6. CutsUpTo(0) = 0 /\ CutsUpTo(b) = CutsUpTo(a)
  BY <1>2, <1>3, FS_EmptySet DEF CutsUpTo, at
<1>7. Cardinality(at(b)) \in Nat
  BY <1>4, FS_CardinalityType
<1>8. ASSUME b < Len(src), src[b + 1] \in Separators
      PROVE  Cardinality(at(b + 1)) = Cardinality(at(b)) + 1
  BY <1>4, <1>5, <1>8, FS_AddElement
<1>9. Cuts = CutsUpTo(Len(src))
  BY <1>1 DEF Cuts, CutsUpTo
<1> QED BY <1>6, <1>7, <1>8, <1>9 DEF CutsUpTo, at

(* Where there is no separator, the string is as it was.                   *)
LEMMA UniformPart ==
  ASSUME SplitTypeOK, NEW s \in Separators, NEW b \in 0 .. Len(src), NEW a \in 0 .. b,
         \A i \in a + 1 .. b : src[i] \notin Separators
  PROVE  /\ Uniform(s) \in Seq(Characters \cup Separators) /\ Len(Uniform(s)) = Len(src)
         /\ SubSeq(Uniform(s), a + 1, b) = SubSeq(src, a + 1, b)
         /\ b < Len(src) /\ src[b + 1] \in Separators => Uniform(s)[b + 1] = s
<1>1. src \in Seq(Characters)
  BY DEF SplitTypeOK
<1>2. /\ Uniform(s) \in [1 .. Len(src) -> Characters \cup Separators]
      /\ \A i \in 1 .. Len(src) :
           Uniform(s)[i] = IF src[i] \in Separators THEN s ELSE src[i]
  BY <1>1 DEF Uniform
<1>3. Uniform(s) \in Seq(Characters \cup Separators) /\ Len(Uniform(s)) = Len(src)
  BY <1>1, <1>2
<1>4. Len(src) \in Nat
  BY <1>1
<1>5. SubSeq(Uniform(s), a + 1, b) = SubSeq(src, a + 1, b)
  <2>1. \A i \in a + 1 .. b : Uniform(s)[i] = src[i]
    BY <1>2, <1>4
  <2> QED BY <1>1, <1>3, <1>4, <2>1
<1>6. b < Len(src) /\ src[b + 1] \in Separators => Uniform(s)[b + 1] = s
  BY <1>2, <1>4
<1> QED BY <1>3, <1>5, <1>6

(* A part without separators, added to what is before it.                  *)
LEMMA PartAdded ==
  ASSUME SplitTypeOK, PartsSoFar,
         NEW b \in begin .. Len(src), \A i \in begin + 1 .. b : src[i] \notin Separators,
         NEW s \in Separators
  PROVE  Join(Append(parts, SubSeq(src, begin + 1, b)), <<s>>) = SubSeq(Uniform(s), 1, b)
<1> DEFINE X == Characters \cup Separators
           u == Uniform(s)
           p == SubSeq(src, begin + 1, b)
           sep == <<s>>
<1>1. begin \in Nat /\ Len(src) \in Nat /\ begin \in 0 .. b /\ b \in 0 .. Len(src)
  BY DEF SplitTypeOK
<1>2. /\ u \in Seq(X) /\ Len(u) = Len(src)
      /\ SubSeq(u, begin + 1, b) = p
  BY <1>1, UniformPart
<1>3. /\ SubSeq(u, 1, begin) \in Seq(X) /\ p \in Seq(X)
      /\ SubSeq(u, 1, begin) \o p = SubSeq(u, 1, b)
      /\ SubSeq(u, 1, 0) = <<>>
  <2>1. b \in 0 .. Len(u)
    BY <1>1, <1>2
  <2>2. u \in Seq(X) /\ begin \in 0 .. b
    BY <1>1, <1>2
  <2>3. /\ SubSeq(u, 1, begin) \in Seq(X) /\ SubSeq(u, begin + 1, b) \in Seq(X)
        /\ SubSeq(u, 1, begin) \o SubSeq(u, begin + 1, b) = SubSeq(u, 1, b)
        /\ SubSeq(u, 1, 0) = <<>>
    <3> HIDE DEF u, X
    <3> QED BY <2>1, <2>2, Pasted
  <2> HIDE DEF u, p, X
  <2> QED BY <1>2, <2>3
<1>4. parts \in Seq(Seq(X)) /\ sep \in Seq(X)
  BY DEF SplitTypeOK
<1>5. Join(parts, sep) \in Seq(X) /\ JoinedWith(parts, sep, p)
  <2>1. p \in Seq(X)
    BY <1>3
  <2> HIDE DEF X, u, p, sep
  <2> QED BY <1>4, <2>1, JoinAppend
<1>6. CASE parts = <<>>
  <2>1. begin = 0
    BY <1>6 DEF PartsSoFar
  <2>2. <<>> \o p = p
    BY <1>3
  <2> HIDE DEF u, p, sep, X
  <2>3. SubSeq(u, 1, b) = p
    BY <1>3, <2>1, <2>2
  <2> QED BY <1>5, <1>6, <2>3 DEF JoinedWith, u, p, sep
<1>7. CASE parts # <<>>
  <2>1. Join(parts, sep) \o sep = SubSeq(u, 1, begin)
    BY <1>7 DEF PartsSoFar
  <2> HIDE DEF u, p, sep, X
  <2>2. (Join(parts, sep) \o sep) \o p = Join(parts, sep) \o (sep \o p)
    BY <1>3, <1>4, <1>5
  <2>3. Join(Append(parts, p), sep) = SubSeq(u, 1, b)
    BY <1>3, <1>5, <1>7, <2>1, <2>2 DEF JoinedWith
  <2> QED BY <2>3 DEF u, p, sep
<1> QED BY <1>6, <1>7

(* One part more without a separator in it.                                *)
LEMMA PlainAppended ==
  ASSUME SplitTypeOK, PartsPlain, NEW p \in Seq(Characters),
         \A j \in DOMAIN p : p[j] \notin Separators
  PROVE  \A i \in DOMAIN Append(parts, p) : \A j \in DOMAIN Append(parts, p)[i] :
           Append(parts, p)[i][j] \notin Separators
<1> DEFINE longer == Append(parts, p)
<1>1. /\ longer \in Seq(Seq(Characters)) /\ Len(parts) \in Nat
      /\ Len(longer) = Len(parts) + 1 /\ longer[Len(parts) + 1] = p
      /\ \A i \in 1 .. Len(parts) : longer[i] = parts[i]
  BY AppendedTo DEF SplitTypeOK
<1>2. DOMAIN parts = 1 .. Len(parts) /\ DOMAIN longer = 1 .. Len(parts) + 1
  <2>1. parts \in Seq(Seq(Characters))
    BY DEF SplitTypeOK
  <2> HIDE DEF longer
  <2> QED BY <1>1, <2>1
<1> HIDE DEF longer
<1>3. \A i \in 1 .. Len(parts) + 1 : i \in 1 .. Len(parts) \/ i = Len(parts) + 1
  BY <1>1
<1>4. \A i \in DOMAIN longer : \A j \in DOMAIN longer[i] : longer[i][j] \notin Separators
  BY <1>1, <1>2, <1>3 DEF PartsPlain
<1> QED BY <1>4 DEF longer

(* What find_first_of() finds is where the next part ends.                 *)
LEMMA FoundFirst ==
  ASSUME NEW s \in Seq(Characters), NEW from \in 0 .. Len(s), NEW found, FindFirst(s, from, found)
  PROVE  /\ found = npos => \A i \in from + 1 .. Len(s) : s[i] \notin Separators
         /\ found # npos =>
              /\ found \in from .. Len(s) - 1
              /\ s[found + 1] \in Separators
              /\ \A i \in from + 1 .. found : s[i] \notin Separators
<1> DEFINE separators == {i \in from .. Len(s) - 1 : s[i + 1] \in Separators}
<1>0. Len(s) \in Nat /\ from \in Nat
  OBVIOUS
<1>1. \A i \in from + 1 .. Len(s) :
        /\ i - 1 \in from .. Len(s) - 1 /\ (i - 1) + 1 = i
        /\ s[i] \in Separators => i - 1 \in separators
  BY <1>0
<1>2. CASE separators = {}
  BY <1>1, <1>2 DEF FindFirst
<1>3. CASE separators # {}
  <2>1. found \in separators /\ \A i \in separators : found <= i
    BY <1>3 DEF FindFirst
  <2>2. found \in from .. Len(s) - 1 /\ s[found + 1] \in Separators /\ found # npos
    BY <1>0, <2>1 DEF npos
  <2>3. ASSUME NEW i \in from + 1 .. found PROVE s[i] \notin Separators
    <3>1. i \in from + 1 .. Len(s) /\ ~ found <= i - 1
      BY <1>0, <2>2
    <3> QED BY <1>1, <2>1, <3>1
  <2> QED BY <2>2, <2>3
<1> QED BY <1>2, <1>3

\* Before the first turn nothing is cut.
LEMMA SplitStart ==
  ASSUME SplitInit
  PROVE  SplitInv
<1>1. SplitTypeOK
  BY DEF SplitInit, SplitTypeOK, npos
<1> QED BY <1>1 DEF SplitInit, SplitInv, JoinUndoesSplit

\* Every turn of split() cuts off one part.
LEMMA SplitStepInv ==
  ASSUME SplitAssumption, SplitInv, [SplitNext]_splitVars
  PROVE  SplitInv'
<1> USE DEF SplitInv
<1>0. /\ src \in Seq(Characters) /\ Len(src) \in Nat /\ begin \in 0 .. Len(src)
      /\ end \in npos .. Len(src) - 1 /\ parts \in Seq(Seq(Characters))
      /\ SplitTypeOK
  BY DEF SplitTypeOK
<1>1. ASSUME SplitBegin PROVE SplitInv'
  <2>1. PICK n \in 0 .. MaxLength : src' \in [1 .. n -> Characters]
    BY <1>1 DEF SplitBegin
  <2>2. src' \in Seq(Characters) /\ Len(src') = n /\ n \in Nat
    BY <2>1, SplitAssumption DEF SplitAssumption
  <2>3. begin' = 0 /\ parts' = <<>> /\ splitting' = "loop" /\ FindFirst(src', 0, end')
    BY <1>1 DEF SplitBegin
  <2>4. end' \in npos .. n - 1
    <3>1. end' = npos \/ end' \in 0 .. n - 1
      BY <2>2, <2>3, FoundFirst
    <3> QED BY <2>2, <3>1 DEF npos
  <2>5. SplitTypeOK'
    BY <2>2, <2>3, <2>4 DEF SplitTypeOK
  <2>6. PartsPlain'
    BY <2>3 DEF PartsPlain
  <2>7. CutsUpTo(0)' = 0
    <3>1. \A i \in {} : FALSE
      OBVIOUS
    <3>2. {i \in 1 .. 0 : src'[i] \in Separators} = {}
      OBVIOUS
    <3> QED BY <3>2, FS_EmptySet DEF CutsUpTo
  <2>8. PartsSoFar'
    BY <2>3, <2>7 DEF PartsSoFar, CutsUpTo
  <2> QED BY <2>3, <2>5, <2>6, <2>8 DEF JoinUndoesSplit
<1>2. ASSUME SplitStep PROVE SplitInv'
  <2> DEFINE p == SubSeq(src, begin + 1, end)
  <2>1. /\ splitting = "loop" /\ end # npos /\ src' = src /\ begin' = end + 1
        /\ \/ begin' >= Len(src) /\ splitting' = "tail" /\ end' = end
           \/ /\ begin' < Len(src) /\ splitting' = "loop"
              /\ FindFirst(src, begin', end')
        /\ parts' = Append(parts, Part)
    BY <1>2 DEF SplitStep
  <2>2. /\ end \in begin .. Len(src) - 1 /\ src[end + 1] \in Separators
        /\ \A i \in begin + 1 .. end : src[i] \notin Separators
    BY <1>0, <2>1, FoundFirst
  <2>3. Part = p /\ p \in Seq(Characters) /\ Len(p) = end - begin
        /\ \A j \in 1 .. end - begin : p[j] = src[begin + j]
    <3>1. begin \in Nat /\ end \in begin .. Len(src) /\ ~ end < begin
      BY <1>0, <2>2
    <3>2. Part = p
      BY <3>1 DEF Part
    <3>3. p \in Seq(Characters) /\ Len(p) = end - begin
          /\ \A j \in 1 .. end - begin : p[j] = src[begin + j]
      BY <1>0, <3>1
    <3> QED BY <3>2, <3>3
  <2>4. \A j \in DOMAIN p : p[j] \notin Separators
    <3>1. \A j \in 1 .. end - begin : begin + j \in begin + 1 .. end
      BY <1>0, <2>2
    <3>2. DOMAIN p = 1 .. end - begin
      BY <2>3
    <3> QED BY <2>2, <2>3, <3>1, <3>2
  <2> HIDE DEF p
  <2>5. parts' \in Seq(Seq(Characters)) /\ parts' # <<>> /\ Len(parts') = Len(parts) + 1
    <3>1. parts' \in Seq(Seq(Characters)) /\ Len(parts') = Len(parts) + 1 /\ Len(parts) \in Nat
      BY <1>0, <2>1, <2>3, AppendedTo
    <3> QED BY <3>1
  <2>6. begin' \in 0 .. Len(src') /\ end' \in npos .. Len(src') - 1
    <3>1. begin' \in 0 .. Len(src)
      BY <1>0, <2>1, <2>2
    <3>2. FindFirst(src, begin', end') => end' = npos \/ end' \in begin' .. Len(src) - 1
      BY <1>0, <3>1, FoundFirst
    <3> QED BY <1>0, <2>1, <3>1, <3>2 DEF npos
  <2>7. SplitTypeOK'
    BY <1>0, <2>1, <2>5, <2>6 DEF SplitTypeOK
  <2>8. PartsPlain'
    BY <1>0, <2>1, <2>3, <2>4, PlainAppended DEF PartsPlain
  <2>9. PartsSoFar'
    <3>1. end \in 0 .. Len(src) /\ begin \in 0 .. end /\ end < Len(src)
      BY <1>0, <2>2
    <3>2. CutsUpTo(end + 1) = CutsUpTo(begin) + 1
      BY <1>0, <2>2, <3>1, CountedUpTo
    <3>3. Len(parts') = CutsUpTo(begin)'
      <4>1. CutsUpTo(begin)' = CutsUpTo(end + 1)
        BY <2>1 DEF CutsUpTo
      <4> QED BY <2>1, <2>5, <3>2, <4>1 DEF PartsSoFar
    <3>4. ASSUME NEW s \in Separators
          PROVE  (Join(parts, <<s>>) \o <<s>>)' = SubSeq(Uniform(s), 1, begin)'
      <4>1. Join(Append(parts, p), <<s>>) = SubSeq(Uniform(s), 1, end)
        <5>1. end \in begin .. Len(src)
          BY <1>0, <2>2
        <5> QED BY <1>0, <2>1, <2>2, <5>1, PartAdded DEF p
      <4>2. Uniform(s) \in Seq(Characters \cup Separators) /\ Len(Uniform(s)) = Len(src)
            /\ Uniform(s)[end + 1] = s
        BY <1>0, <2>2, <3>1, UniformPart
      <4>3. SubSeq(Uniform(s), 1, end) \o <<Uniform(s)[end + 1]>> = SubSeq(Uniform(s), 1, end + 1)
        <5> DEFINE u == Uniform(s)
        <5>1. u \in Seq(Characters \cup Separators) /\ end \in 0 .. Len(u) /\ begin \in 0 .. end
              /\ end < Len(u)
          BY <3>1, <4>2
        <5> HIDE DEF u
        <5>2. SubSeq(u, 1, end) \o <<u[end + 1]>> = SubSeq(u, 1, end + 1)
          BY <5>1, Pasted
        <5> QED BY <5>2 DEF u
      <4>4. Join(parts', <<s>>) \o <<s>> = SubSeq(Uniform(s), 1, end + 1)
        BY <2>1, <2>3, <4>1, <4>2, <4>3
      <4>5. Uniform(s)' = Uniform(s)
        BY <2>1 DEF Uniform
      <4> QED BY <2>1, <4>4, <4>5
    <3> QED BY <2>5, <3>3, <3>4 DEF PartsSoFar
  <2>10. splitting' = "tail" => begin' = Len(src') /\ end' = begin' - 1
    BY <1>0, <2>1, <2>2
  <2> QED BY <2>1, <2>5, <2>7, <2>8, <2>9, <2>10 DEF JoinUndoesSplit
<1>3. ASSUME SplitTail PROVE SplitInv'
  <2> DEFINE L == Len(src)
             p == SubSeq(src, begin + 1, L)
  <2>1. /\ splitting = "tail" \/ (splitting = "loop" /\ end = npos)
        /\ splitting' = "done" /\ src' = src /\ begin' = begin /\ end' = end
        /\ parts' = IF begin # end THEN Append(parts, Part) ELSE parts
    BY <1>3 DEF SplitTail
  <2>2. end < begin /\ PartsSoFar /\ PartsPlain
    BY <1>0, <2>1 DEF npos
  <2>3. \A i \in begin + 1 .. L : src[i] \notin Separators
    <3>1. CASE splitting = "tail"
      BY <1>0, <3>1
    <3>2. CASE splitting = "loop" /\ end = npos
      BY <1>0, <3>2, FoundFirst
    <3> QED BY <2>1, <3>1, <3>2
  <2>4. parts' = Append(parts, p)
    BY <1>0, <2>1, <2>2 DEF Part, npos
  <2>5. p \in Seq(Characters) /\ \A j \in DOMAIN p : p[j] \notin Separators
    <3>1. p \in Seq(Characters) /\ Len(p) = L - begin
          /\ \A j \in 1 .. L - begin : p[j] = src[begin + j]
      BY <1>0
    <3>2. \A j \in 1 .. L - begin : begin + j \in begin + 1 .. L
      BY <1>0
    <3>3. DOMAIN p = 1 .. L - begin
      BY <3>1
    <3> QED BY <2>3, <3>1, <3>2, <3>3
  <2>6. PartsPlain'
    BY <1>0, <2>2, <2>4, <2>5, PlainAppended DEF PartsPlain
  <2>7. parts' \in Seq(Seq(Characters)) /\ Len(parts') = Len(parts) + 1
    <3> HIDE DEF p
    <3> QED BY <1>0, <2>4, <2>5, AppendedTo
  <2>8. SplitTypeOK'
    BY <1>0, <2>1, <2>7 DEF SplitTypeOK
  <2>9. Len(parts') = Cuts' + 1
    <3>1. L \in 0 .. L /\ begin \in 0 .. L
      BY <1>0
    <3>2. Cuts = CutsUpTo(begin)
      BY <1>0, <2>3, <3>1, CountedUpTo
    <3>3. Cuts' = Cuts
      BY <2>1 DEF Cuts
    <3> QED BY <2>2, <2>7, <3>2, <3>3 DEF PartsSoFar
  <2>10. ASSUME NEW s \in Separators PROVE Join(parts, <<s>>)' = Uniform(s)'
    <3>1. L \in begin .. L
      BY <1>0
    <3>2. Join(parts', <<s>>) = SubSeq(Uniform(s), 1, L)
      BY <1>0, <2>2, <2>3, <2>4, <3>1, PartAdded
    <3>3. Uniform(s) \in Seq(Characters \cup Separators) /\ Len(Uniform(s)) = L
      <4>1. L \in 0 .. L /\ begin \in 0 .. L
        BY <1>0
      <4> QED BY <1>0, <2>3, <4>1, UniformPart
    <3>4. SubSeq(Uniform(s), 1, L) = Uniform(s)
      <4> DEFINE u == Uniform(s)
      <4>1. u \in Seq(Characters \cup Separators) /\ Len(u) = L /\ L \in Nat
        BY <1>0, <3>3
      <4> HIDE DEF u, L
      <4>2. SubSeq(u, 1, L) = u
        BY <4>1
      <4> QED BY <4>2 DEF u
    <3>5. Uniform(s)' = Uniform(s)
      BY <2>1 DEF Uniform
    <3> QED BY <3>2, <3>4, <3>5
  <2> QED BY <2>1, <2>6, <2>8, <2>9, <2>10 DEF JoinUndoesSplit, PartsPlain
<1>4. CASE UNCHANGED splitVars
  BY <1>4 DEF splitVars, SplitTypeOK, PartsPlain, PartsSoFar, CutsUpTo, Uniform, FindFirst,
              JoinUndoesSplit, Cuts
<1> QED BY <1>1, <1>2, <1>3, <1>4 DEF SplitNext

(* The variables of split() keep their types.                              *)
THEOREM SplitTypeCorrect == SplitSpec => []SplitTypeOK
<1>1. SplitInit => SplitInv BY SplitStart
<1>2. SplitInv /\ [SplitNext]_splitVars => SplitInv' BY SplitStepInv, SplitAssumption
<1>3. SplitInv => SplitTypeOK BY DEF SplitInv
<1> QED BY <1>1, <1>2, <1>3, PTL DEF SplitSpec

(* Strings of any length over any characters are split into what join()    *)
(* makes of them again.                                                    *)
THEOREM JoinIsInverse == SplitSpec => []JoinUndoesSplit
<1>1. SplitInit => SplitInv BY SplitStart
<1>2. SplitInv /\ [SplitNext]_splitVars => SplitInv' BY SplitStepInv, SplitAssumption
<1>3. SplitInv => JoinUndoesSplit BY DEF SplitInv
<1> QED BY <1>1, <1>2, <1>3, PTL DEF SplitSpec

-----------------------------------------------------------------------------
(* The options: what the arguments mean                                    *)

(***************************************************************************)
(* What the parser carries from one argument to the next: whether the last *)
(* one, empty ones not counted, is an option that wants a parameter, and   *)
(* which.                                                                  *)
(***************************************************************************)
AwaitsParamOf(n) ==
  \E j \in 1 .. Len(argv) :
    /\ Wants(argv[j]) /\ Item(argv[j]) = n
    /\ \A k \in j + 1 .. Len(argv) : argv[k] = Word(EmptyWord)

StageFollows ==
  thrown = "none" =>
    /\ stage = "opt_param" => AwaitsParamOf(item) /\ leave = (item \in LeaveInParams)
    /\ stage = "option" => \A n : ~AwaitsParamOf(n)

OptionsInv ==
  /\ OptionsTypeOK
  /\ StageFollows
  /\ OptionsAsWritten

Left == FlattenSeq([i \in 1 .. Len(argv) |-> LeftOf(i)])

\* What an option or a parameter is written as.
Spelling == Letters \cup Strings \cup Words \cup {EmptyWord, Nothing}

(* The call that comes next is no argument, an empty word is no option.    *)
LEMMA ArgumentKinds ==
  ASSUME OptionsAssumption
  PROVE  /\ NextCall \notin Arguments /\ NextCall # Word(EmptyWord)
         /\ ~Wants(Word(EmptyWord)) /\ ~Wants(NextCall)
         /\ Item(NextCall) = NoItem /\ Item(Word(EmptyWord)) = NoItem
         /\ NextCall.dashes = 0 /\ Word(EmptyWord).dashes = 0
         /\ \A a \in Arguments \cup {NextCall} :
              /\ a.dashes \in {0, 1, 2} /\ a.key \in Spelling /\ a.rest \in Spelling
              /\ a.dashes = 0 => Item(a) = NoItem
              /\ a.dashes = 1 /\ a.rest # Nothing => Word(a.rest) \in Arguments
              /\ a.dashes = 1 => a.key \in Letters /\ Item(a) = ShortOpts(a.key)
              /\ a.dashes = 2 => a.key \in Strings /\ Item(a) = LongOpts(a.key)
<1>1. \A d, k, r : /\ Argument(d, k, r).dashes = d
                   /\ Argument(d, k, r).key = k
                   /\ Argument(d, k, r).rest = r
  BY DEF Argument
<1>2. NextCall.dashes = 0 /\ Word(EmptyWord).dashes = 0
      /\ NextCall.key = Nothing /\ Word(EmptyWord).key = EmptyWord
  BY <1>1 DEF NextCall, Word
<1>3. \A a \in Arguments :
        \/ a.dashes = 0 /\ a.key \in Words \cup {EmptyWord} /\ a.rest = Nothing
        \/ a.dashes = 1 /\ a.key \in Letters /\ a.rest \in Words \cup {Nothing}
        \/ a.dashes = 2 /\ a.key \in Strings /\ a.rest \in Words \cup {EmptyWord, Nothing}
  BY <1>1 DEF Arguments, Word
<1>4. NextCall # Word(EmptyWord) /\ NextCall \notin Arguments
  <2>1. Nothing \notin Words \cup {EmptyWord}
    BY DEF OptionsAssumption
  <2> QED BY <1>2, <1>3, <2>1
<1>5. \A a : /\ a.dashes = 0 => Item(a) = NoItem
             /\ a.dashes = 1 => Item(a) = ShortOpts(a.key)
             /\ a.dashes = 2 => Item(a) = LongOpts(a.key)
  BY DEF Item
<1>6. Item(NextCall) = NoItem /\ Item(Word(EmptyWord)) = NoItem
  BY <1>2, <1>5
<1>7. ~Wants(Word(EmptyWord)) /\ ~Wants(NextCall)
  BY <1>6 DEF Wants, OptionsAssumption
<1>8. ASSUME NEW a \in Arguments \cup {NextCall}
      PROVE  /\ a.dashes \in {0, 1, 2} /\ a.key \in Spelling /\ a.rest \in Spelling
             /\ a.dashes = 1 /\ a.rest # Nothing => Word(a.rest) \in Arguments
             /\ a.dashes = 1 => a.key \in Letters
             /\ a.dashes = 2 => a.key \in Strings
  <2>1. NextCall.rest = Nothing
    BY <1>1 DEF NextCall
  <2>2. \A w \in Words : Word(w) \in Arguments
    BY DEF Arguments
  <2>3. CASE a \in Arguments
    BY <1>3, <2>2, <2>3 DEF Spelling
  <2>4. CASE a = NextCall
    BY <1>2, <2>1, <2>4 DEF Spelling
  <2> QED BY <2>3, <2>4
<1> QED BY <1>2, <1>4, <1>5, <1>6, <1>7, <1>8

(* What an argument means is said by those before it and itself.           *)
LEMMA MeaningStays ==
  ASSUME OptionsTypeOK, NEW a \in Arguments \cup {NextCall}, argv' = Append(argv, a),
         NEW i \in 1 .. Len(argv), NEW n
  PROVE  /\ IsParam(i)' <=> IsParam(i)
         /\ ValueOf(n, i)' = ValueOf(n, i)
         /\ Bad(i)' <=> Bad(i)
         /\ LeftOf(i)' = LeftOf(i)
         /\ argv'[i] = argv[i]
<1>1. /\ argv \in Seq(Arguments \cup {NextCall}) /\ Len(argv) \in Nat
      /\ \A k \in 1 .. Len(argv) : argv'[k] = argv[k]
  <2>1. argv \in Seq(Arguments \cup {NextCall})
    BY DEF OptionsTypeOK
  <2> QED BY <2>1, AppendedTo
<1>2. i \in 1 .. Len(argv) /\ \A j \in 1 .. i - 1 : j \in 1 .. Len(argv)
      /\ \A k \in j + 1 .. i - 1 : k \in 1 .. Len(argv)
  BY <1>1
<1>3. argv'[i] = argv[i] /\ \A j \in 1 .. i - 1 : argv'[j] = argv[j]
      /\ \A k \in j + 1 .. i - 1 : argv'[k] = argv[k]
  BY <1>1, <1>2
<1>4. IsParam(i)' <=> IsParam(i)
  BY <1>3 DEF IsParam
<1>5. ASSUME IsParam(i) PROVE OptionOf(i)' = OptionOf(i)
  <2> DEFINE before == {j \in 1 .. i - 1 : Wants(argv[j])}
             last == CHOOSE j \in before : \A k \in before : k <= j
  <2>1. last \in before
    <3>1. PICK j \in before : \A k \in j + 1 .. i - 1 : argv[k] = Word(EmptyWord)
      BY <1>5 DEF IsParam
    <3>2. \A k \in before : k <= j
      <4> TAKE k \in before
      <4>1. ~(k \in j + 1 .. i - 1)
        BY <3>1, ArgumentKinds, OptionsAssumption
      <4> QED BY <1>2, <4>1
    <3>3. \E m \in before : \A k \in before : k <= m
      BY <3>2
    <3> HIDE DEF before
    <3> QED BY <3>3
  <2>2. {j \in 1 .. i - 1 : Wants(argv'[j])} = before
    BY <1>3
  <2>3. OptionOf(i)' = Item(argv'[last])
    <3>1. OptionOf(i)' = Item(argv'[CHOOSE j \in {j \in 1 .. i - 1 : Wants(argv'[j])} :
                                   \A k \in {j2 \in 1 .. i - 1 : Wants(argv'[j2])} : k <= j])
      BY DEF OptionOf
    <3> HIDE DEF before
    <3> QED BY <2>2, <3>1 DEF last
  <2>4. argv'[last] = argv[last]
    BY <1>3, <2>1
  <2> QED BY <2>3, <2>4 DEF OptionOf
<1> QED BY <1>3, <1>4, <1>5 DEF ValueOf, Bad, LeftOf

(* What one argument adds to the value of an item, and to params, is a     *)
(* sequence; also what one more would add.                                 *)
LEMMA MeaningTypes ==
  ASSUME NEW i, NEW n
  PROVE  /\ argv[i] \in Arguments \cup {NextCall} =>
               ValueOf(n, i) \in Seq(Spelling) /\ LeftOf(i) \in Seq(Arguments)
         /\ argv'[i] \in Arguments \cup {NextCall} =>
               ValueOf(n, i)' \in Seq(Spelling) /\ LeftOf(i)' \in Seq(Arguments)
<1>1. ASSUME NEW a \in Arguments \cup {NextCall}
      PROVE  /\ <<>> \in Seq(Spelling) /\ <<a.key>> \in Seq(Spelling)
             /\ <<a.rest>> \in Seq(Spelling)
             /\ <<>> \in Seq(Arguments)
             /\ a \in Arguments => <<a>> \in Seq(Arguments)
             /\ a \in Arguments /\ a.dashes = 1 /\ a.rest # Nothing =>
                  <<a, Word(a.rest)>> \in Seq(Arguments)
             /\ a \in Arguments \/ a = NextCall
  <2>1. a.key \in Spelling /\ a.rest \in Spelling
        /\ (a.dashes = 1 /\ a.rest # Nothing => Word(a.rest) \in Arguments)
    BY ArgumentKinds, OptionsAssumption
  <2> QED BY <2>1
<1>2. ASSUME argv[i] \in Arguments \cup {NextCall}
      PROVE  ValueOf(n, i) \in Seq(Spelling) /\ LeftOf(i) \in Seq(Arguments)
  <2>1. ValueOf(n, i) \in Seq(Spelling)
    BY <1>1, <1>2 DEF ValueOf
  <2>2. LeftOf(i) \in Seq(Arguments)
    BY <1>1, <1>2 DEF LeftOf
  <2> QED BY <2>1, <2>2
<1>3. ASSUME argv'[i] \in Arguments \cup {NextCall}
      PROVE  ValueOf(n, i)' \in Seq(Spelling) /\ LeftOf(i)' \in Seq(Arguments)
  <2>1. ValueOf(n, i)' \in Seq(Spelling)
    BY <1>1, <1>3 DEF ValueOf
  <2>2. LeftOf(i)' \in Seq(Arguments)
    BY <1>1, <1>3 DEF LeftOf
  <2> QED BY <2>1, <2>2
<1> QED BY <1>2, <1>3

(* A sequence of sequences with one behind it.                             *)
LEMMA FlattenOneMore ==
  ASSUME NEW X, NEW N \in Nat, NEW f \in [1 .. N -> Seq(X)],
         NEW g \in [1 .. N + 1 -> Seq(X)], \A i \in 1 .. N : g[i] = f[i]
  PROVE  FlattenSeq(f) \in Seq(X) /\ FlattenSeq(g) = FlattenSeq(f) \o g[N + 1]
<1> DEFINE S == Seq(X)
<1>1. f \in Seq(S) /\ Len(f) = N /\ g[N + 1] \in S
  OBVIOUS
<1>2. g = Append(f, g[N + 1])
  <2> HIDE DEF S
  <2>1. /\ Append(f, g[N + 1]) \in Seq(S) /\ Len(Append(f, g[N + 1])) = N + 1
        /\ Append(f, g[N + 1])[N + 1] = g[N + 1]
        /\ \A i \in 1 .. N : Append(f, g[N + 1])[i] = f[i]
    BY <1>1, AppendedTo
  <2> DEFINE h == Append(f, g[N + 1])
  <2>2. h \in Seq(S) /\ Len(h) = N + 1
    BY <2>1
  <2>3. \A i \in 1 .. N + 1 : h[i] = g[i]
    <3>1. \A i \in 1 .. N + 1 : i \in 1 .. N \/ i = N + 1
      OBVIOUS
    <3> QED BY <2>1, <3>1
  <2> HIDE DEF h
  <2>4. h = [i \in 1 .. N + 1 |-> h[i]]
    BY <2>2
  <2>5. g = [i \in 1 .. N + 1 |-> g[i]]
    OBVIOUS
  <2> QED BY <2>3, <2>4, <2>5 DEF h
<1>3. FlattenSeq(f) \in Seq(X) /\ FlattenSeq(Append(f, g[N + 1])) = FlattenSeq(f) \o g[N + 1]
  BY <1>1, FlattenAppend
<1> QED BY <1>2, <1>3

(* One argument more adds what it means to what those before it mean.      *)
LEMMA MeaningGrows ==
  ASSUME OptionsTypeOK, NEW a \in Arguments \cup {NextCall}, argv' = Append(argv, a)
  PROVE  /\ \A n : /\ Gathered(n) \in Seq(Spelling)
                   /\ ValueOf(n, Len(argv))' \in Seq(Spelling)
                   /\ Gathered(n)' = Gathered(n) \o ValueOf(n, Len(argv))'
         /\ Left \in Seq(Arguments) /\ LeftOf(Len(argv))' \in Seq(Arguments)
         /\ Left' = Left \o LeftOf(Len(argv))'
<1>0. PICK N : N = Len(argv)
  OBVIOUS
<1>1. /\ N \in Nat /\ Len(argv') = N + 1 /\ argv'[N + 1] = a
      /\ \A i \in 1 .. N : argv'[i] = argv[i] /\ argv[i] \in Arguments \cup {NextCall}
  <2>1. argv \in Seq(Arguments \cup {NextCall})
    BY DEF OptionsTypeOK
  <2>2. \A i \in 1 .. N : argv[i] \in Arguments \cup {NextCall}
    BY <1>0, <2>1
  <2> QED BY <1>0, <2>1, <2>2, AppendedTo
<1>2. \A i \in 1 .. N + 1 : argv'[i] \in Arguments \cup {NextCall}
  <2>1. \A i \in 1 .. N + 1 : i \in 1 .. N \/ i = N + 1
    BY <1>1
  <2> QED BY <1>1, <2>1
<1>3. ASSUME NEW n
      PROVE  /\ Gathered(n) \in Seq(Spelling)
             /\ ValueOf(n, N + 1)' \in Seq(Spelling)
             /\ Gathered(n)' = Gathered(n) \o ValueOf(n, N + 1)'
  <2> DEFINE f == [i \in 1 .. N |-> ValueOf(n, i)]
             g == [i \in 1 .. N + 1 |-> ValueOf(n, i)']
  <2>1. f \in [1 .. N -> Seq(Spelling)]
    BY <1>1, MeaningTypes
  <2>2. g \in [1 .. N + 1 -> Seq(Spelling)]
    BY <1>2, MeaningTypes
  <2>3. \A i \in 1 .. N : g[i] = f[i]
    BY <1>0, MeaningStays
  <2>4. g[N + 1] = ValueOf(n, N + 1)' /\ ValueOf(n, N + 1)' \in Seq(Spelling)
    <3>1. N + 1 \in 1 .. N + 1
      BY <1>1
    <3>2. g[N + 1] = ValueOf(n, N + 1)'
      BY <3>1
    <3>3. g[N + 1] \in Seq(Spelling)
      BY <2>2, <3>1
    <3> QED BY <3>2, <3>3
  <2>5. Gathered(n) = FlattenSeq(f)
    BY <1>0 DEF Gathered
  <2>6. Gathered(n)' = FlattenSeq(g)
    BY <1>1 DEF Gathered
  <2>7. FlattenSeq(f) \in Seq(Spelling) /\ FlattenSeq(g) = FlattenSeq(f) \o g[N + 1]
    <3> HIDE DEF f, g
    <3> QED BY <1>1, <2>1, <2>2, <2>3, FlattenOneMore
  <2> QED BY <2>4, <2>5, <2>6, <2>7
<1>4. /\ Left \in Seq(Arguments) /\ LeftOf(N + 1)' \in Seq(Arguments)
      /\ Left' = Left \o LeftOf(N + 1)'
  <2> DEFINE f == [i \in 1 .. N |-> LeftOf(i)]
             g == [i \in 1 .. N + 1 |-> LeftOf(i)']
  <2>1. f \in [1 .. N -> Seq(Arguments)]
    BY <1>1, MeaningTypes
  <2>2. g \in [1 .. N + 1 -> Seq(Arguments)]
    BY <1>2, MeaningTypes
  <2>3. \A i \in 1 .. N : g[i] = f[i]
    <3> TAKE i \in 1 .. N
    <3>1. LeftOf(i)' = LeftOf(i)
      <4> DEFINE n == NoItem
      <4> HIDE DEF n
      <4>1. ValueOf(n, i)' = ValueOf(n, i) /\ LeftOf(i)' = LeftOf(i)
        BY <1>0, MeaningStays
      <4> QED BY <4>1
    <3>2. i \in 1 .. N + 1
      BY <1>1
    <3> QED BY <3>1, <3>2
  <2>4. g[N + 1] = LeftOf(N + 1)' /\ LeftOf(N + 1)' \in Seq(Arguments)
    <3>1. N + 1 \in 1 .. N + 1
      BY <1>1
    <3>2. g[N + 1] = LeftOf(N + 1)'
      BY <3>1
    <3>3. g[N + 1] \in Seq(Arguments)
      BY <2>2, <3>1
    <3> QED BY <3>2, <3>3
  <2>5. Left = FlattenSeq(f)
    BY <1>0 DEF Left
  <2>6. Left' = FlattenSeq(g)
    BY <1>1 DEF Left
  <2>7. FlattenSeq(f) \in Seq(Arguments) /\ FlattenSeq(g) = FlattenSeq(f) \o g[N + 1]
    <3> HIDE DEF f, g
    <3> QED BY <1>1, <2>1, <2>2, <2>3, FlattenOneMore
  <2> QED BY <2>4, <2>5, <2>6, <2>7
<1> QED BY <1>0, <1>1, <1>3, <1>4

(* Which option a new argument is the parameter of, and what it makes the  *)
(* argument after it be.                                                   *)
LEMMA Awaiting ==
  ASSUME OptionsTypeOK, NEW a \in Arguments \cup {NextCall}, argv' = Append(argv, a),
         NEW n
  PROVE  /\ AwaitsParamOf(n) => OptionOf(Len(argv))' = n /\ n \in OptWithParams
         /\ IsParam(Len(argv))' <=>
              (\E m : AwaitsParamOf(m)) /\ a \notin {Word(EmptyWord), NextCall}
         /\ AwaitsParamOf(n)' <=>
              \/ Wants(a) /\ Item(a) = n
              \/ AwaitsParamOf(n) /\ a = Word(EmptyWord)
<1>0. PICK N : N = Len(argv)
  OBVIOUS
<1>1. /\ N \in Nat /\ Len(argv') = N + 1 /\ argv'[N + 1] = a /\ N + 1 - 1 = N
      /\ \A j \in 1 .. N : argv'[j] = argv[j]
  <2>1. argv \in Seq(Arguments \cup {NextCall})
    BY DEF OptionsTypeOK
  <2>2. N \in Nat
    BY <1>0, <2>1
  <2>3. N + 1 - 1 = N
    BY <2>2
  <2> QED BY <1>0, <2>1, <2>2, <2>3, AppendedTo
<1>2. ASSUME NEW j \in 1 .. N, NEW k \in j + 1 .. N PROVE k \in 1 .. N
  BY <1>1, <1>2
<1>3. ASSUME AwaitsParamOf(n)
      PROVE  OptionOf(Len(argv))' = n /\ n \in OptWithParams
  <2> DEFINE before == {j \in 1 .. N : Wants(argv'[j])}
             last == CHOOSE j \in before : \A k \in before : k <= j
  <2>1. PICK j \in 1 .. N : /\ Wants(argv[j]) /\ Item(argv[j]) = n
                            /\ \A k \in j + 1 .. N : argv[k] = Word(EmptyWord)
    BY <1>0, <1>3 DEF AwaitsParamOf
  <2>2. j \in before /\ Item(argv'[j]) = n
    BY <1>1, <2>1
  <2>3. \A k \in before : k <= j
    <3> TAKE k \in before
    <3>1. k \in 1 .. N /\ Wants(argv[k])
      BY <1>1
    <3>2. ~(k \in j + 1 .. N)
      BY <2>1, <3>1, ArgumentKinds, OptionsAssumption
    <3>3. j \in 1 .. N
      OBVIOUS
    <3> QED BY <1>1, <3>1, <3>2, <3>3
  <2>4. \A k \in before : k \in Int
    BY <1>1
  <2>5. last = j
    <3>1. \A k \in before : (\A m \in before : m <= k) => k = j
      <4> HIDE DEF before
      <4> QED BY <2>2, <2>3, <2>4
    <3> HIDE DEF before
    <3> QED BY <2>2, <2>3, <3>1
  <2>6. OptionOf(Len(argv))' = Item(argv'[last])
    <3>1. {k \in 1 .. Len(argv') - 1 : Wants(argv'[k])} = before
      BY <1>1
    <3>2. OptionOf(Len(argv))' =
            Item(argv'[CHOOSE k \in {k \in 1 .. Len(argv') - 1 : Wants(argv'[k])} :
              \A m \in {m \in 1 .. Len(argv') - 1 : Wants(argv'[m])} : m <= k])
      BY DEF OptionOf
    <3> HIDE DEF before
    <3> QED BY <3>1, <3>2
  <2>7. n \in OptWithParams
    BY <2>1 DEF Wants
  <2> HIDE DEF last
  <2> QED BY <2>2, <2>5, <2>6, <2>7
<1>4. IsParam(Len(argv))' <=>
        (\E m : AwaitsParamOf(m)) /\ a \notin {Word(EmptyWord), NextCall}
  <2>1. IsParam(Len(argv))' <=>
          \E j \in 1 .. N : /\ Wants(argv'[j])
                            /\ \A k \in j + 1 .. N : argv'[k] = Word(EmptyWord)
                            /\ a \notin {Word(EmptyWord), NextCall}
    <3>1. Len(argv') - 1 = N /\ argv'[Len(argv')] = a
      BY <1>1
    <3>2. IsParam(Len(argv))' <=>
            \E j \in 1 .. Len(argv') - 1 :
              /\ Wants(argv'[j])
              /\ \A k \in j + 1 .. Len(argv') - 1 : argv'[k] = Word(EmptyWord)
              /\ argv'[Len(argv')] \notin {Word(EmptyWord), NextCall}
      BY DEF IsParam
    <3> QED BY <3>1, <3>2
  <2>2. \A j \in 1 .. N : Wants(argv'[j]) <=> Wants(argv[j])
    BY <1>1
  <2>3. \A j \in 1 .. N : \A k \in j + 1 .. N : argv'[k] = argv[k]
    BY <1>1, <1>2
  <2>4. (\E m : AwaitsParamOf(m)) <=>
          \E j \in 1 .. N : /\ Wants(argv[j])
                            /\ \A k \in j + 1 .. N : argv[k] = Word(EmptyWord)
    BY <1>0 DEF AwaitsParamOf
  <2> QED BY <2>1, <2>2, <2>3, <2>4
<1>5. AwaitsParamOf(n)' <=>
        \/ Wants(a) /\ Item(a) = n
        \/ AwaitsParamOf(n) /\ a = Word(EmptyWord)
  <2> DEFINE Plain(j) == \A k \in j + 1 .. N : argv[k] = Word(EmptyWord)
             Plain2(j) == \A k \in j + 1 .. N + 1 : argv'[k] = Word(EmptyWord)
  <2>1. AwaitsParamOf(n)' <=>
          \E j \in 1 .. N + 1 : Wants(argv'[j]) /\ Item(argv'[j]) = n /\ Plain2(j)
    BY <1>1 DEF AwaitsParamOf
  <2>2. AwaitsParamOf(n) <=>
          \E j \in 1 .. N : Wants(argv[j]) /\ Item(argv[j]) = n /\ Plain(j)
    BY <1>0 DEF AwaitsParamOf
  <2>3. Plain2(N + 1)
    BY <1>1
  <2>4. \A j \in 1 .. N : Plain2(j) <=> Plain(j) /\ a = Word(EmptyWord)
    <3> TAKE j \in 1 .. N
    <3>1. N + 1 \in j + 1 .. N + 1
          /\ \A k : k \in j + 1 .. N + 1 <=> k \in j + 1 .. N \/ k = N + 1
      BY <1>1
    <3>2. \A k \in j + 1 .. N : argv'[k] = argv[k]
      BY <1>1, <1>2
    <3> QED BY <1>1, <3>1, <3>2
  <2>5. \A j : j \in 1 .. N + 1 <=> j \in 1 .. N \/ j = N + 1
    BY <1>1
  <2> HIDE DEF Plain, Plain2
  <2> QED BY <1>1, <2>1, <2>2, <2>3, <2>4, <2>5
<1> QED BY <1>3, <1>4, <1>5

(* An argument that is a parameter: its meaning.                           *)
LEMMA AsParameter ==
  ASSUME OptionsTypeOK, NEW a \in Arguments, argv' = Append(argv, a),
         NEW m, AwaitsParamOf(m), a # Word(EmptyWord), NEW n
  PROVE  /\ IsParam(Len(argv))'
         /\ m = n /\ a.dashes = 0 => ValueOf(n, Len(argv))' = <<a.key>>
         /\ m # n \/ a.dashes # 0 => ValueOf(n, Len(argv))' = <<>>
         /\ Bad(Len(argv))' <=> a.dashes # 0
         /\ m \in LeaveInParams /\ a.dashes = 0 => LeftOf(Len(argv))' = <<a>>
         /\ m \notin LeaveInParams \/ a.dashes # 0 => LeftOf(Len(argv))' = <<>>
<1>1. IsParam(Len(argv))' /\ OptionOf(Len(argv))' = m /\ m \in OptWithParams
      /\ m # NoItem /\ a # NextCall
  BY Awaiting, ArgumentKinds, OptionsAssumption DEF OptionsAssumption
<1>2. argv'[Len(argv')] = a
  BY AppendedTo DEF OptionsTypeOK
<1>3. a.dashes \in {0, 1, 2}
  BY ArgumentKinds, OptionsAssumption
<1>4. Bad(Len(argv))' <=> a.dashes # 0
  BY <1>1, <1>2, <1>3 DEF Bad
<1>5. /\ m = n /\ a.dashes = 0 => ValueOf(n, Len(argv))' = <<a.key>>
      /\ m # n \/ a.dashes # 0 => ValueOf(n, Len(argv))' = <<>>
  BY <1>1, <1>2 DEF ValueOf
<1>6. /\ m \in LeaveInParams /\ a.dashes = 0 => LeftOf(Len(argv))' = <<a>>
      /\ m \notin LeaveInParams \/ a.dashes # 0 => LeftOf(Len(argv))' = <<>>
  BY <1>1, <1>2, <1>4 DEF LeftOf
<1> QED BY <1>1, <1>4, <1>5, <1>6

(* An argument that is none: its meaning.                                  *)
LEMMA AsOption ==
  ASSUME OptionsTypeOK, NEW a \in Arguments \cup {NextCall}, argv' = Append(argv, a),
         (\A m : ~AwaitsParamOf(m)) \/ a \in {Word(EmptyWord), NextCall}, NEW n
  PROVE  /\ ~IsParam(Len(argv))'
         /\ Item(a) = n /\ n \in OptWithParams /\ a.rest # Nothing =>
              ValueOf(n, Len(argv))' = <<a.rest>>
         /\ Item(a) # n \/ n \notin OptWithParams \/ a.rest = Nothing =>
              ValueOf(n, Len(argv))' = <<>>
         /\ Bad(Len(argv))' <=> /\ a.dashes = 2 /\ a.rest # Nothing
                                /\ Item(a) \notin OptWithParams \cup {NoItem}
         /\ \/ a \in {Word(EmptyWord), NextCall}
            \/ Item(a) \notin LeaveInParams \cup {NoItem}
            => LeftOf(Len(argv))' = <<>>
         /\ /\ a \notin {Word(EmptyWord), NextCall}
            /\ Item(a) \in LeaveInParams \cup {NoItem}
            => /\ a.dashes = 1 /\ Item(a) \in OptWithParams /\ a.rest # Nothing =>
                    LeftOf(Len(argv))' = <<a, Word(a.rest)>>
               /\ ~(a.dashes = 1 /\ Item(a) \in OptWithParams /\ a.rest # Nothing) =>
                    LeftOf(Len(argv))' = <<a>>
<1>1. ~IsParam(Len(argv))'
  BY Awaiting
<1>2. argv'[Len(argv')] = a
  BY AppendedTo DEF OptionsTypeOK
<1>3. Bad(Len(argv))' <=> /\ a.dashes = 2 /\ a.rest # Nothing
                          /\ Item(a) \notin OptWithParams \cup {NoItem}
  BY <1>1, <1>2 DEF Bad
<1>4. /\ Item(a) = n /\ n \in OptWithParams /\ a.rest # Nothing =>
           ValueOf(n, Len(argv))' = <<a.rest>>
      /\ Item(a) # n \/ n \notin OptWithParams \/ a.rest = Nothing =>
           ValueOf(n, Len(argv))' = <<>>
  BY <1>1, <1>2 DEF ValueOf
<1>5. /\ \/ a \in {Word(EmptyWord), NextCall}
         \/ Item(a) \notin LeaveInParams \cup {NoItem}
         => LeftOf(Len(argv))' = <<>>
      /\ /\ a \notin {Word(EmptyWord), NextCall}
         /\ Item(a) \in LeaveInParams \cup {NoItem}
         => /\ a.dashes = 1 /\ Item(a) \in OptWithParams /\ a.rest # Nothing =>
                 LeftOf(Len(argv))' = <<a, Word(a.rest)>>
            /\ ~(a.dashes = 1 /\ Item(a) \in OptWithParams /\ a.rest # Nothing) =>
                 LeftOf(Len(argv))' = <<a>>
  BY <1>1, <1>2 DEF LeftOf
<1> QED BY <1>1, <1>3, <1>4, <1>5

(* An item that is set stays so, and an argument may set one more.         *)
LEMMA SetGrows ==
  ASSUME OptionsTypeOK, NEW a \in Arguments \cup {NextCall}, argv' = Append(argv, a),
         NEW n
  PROVE  IsSet(n)' <=>
           \/ IsSet(n)
           \/ /\ ~IsParam(Len(argv))' /\ Item(a) = n
              /\ n \notin OptWithParams /\ ~Bad(Len(argv))'
<1>0. PICK N : N = Len(argv)
  OBVIOUS
<1>1. N \in Nat /\ Len(argv') = N + 1 /\ argv'[N + 1] = a
  BY <1>0, AppendedTo DEF OptionsTypeOK
<1>2. \A i : i \in 1 .. N + 1 <=> i \in 1 .. N \/ i = N + 1
  BY <1>1
<1> DEFINE Sets(i) == ~IsParam(i) /\ Item(argv[i]) = n /\ ~Bad(i)
           SetsNow(i) == ~IsParam(i)' /\ Item(argv'[i]) = n /\ ~Bad(i)'
<1>3. IsSet(n)' <=> \E i \in 1 .. N + 1 : n \notin OptWithParams /\ SetsNow(i)
  BY <1>1 DEF IsSet
<1>4. IsSet(n) <=> \E i \in 1 .. N : n \notin OptWithParams /\ Sets(i)
  BY <1>0 DEF IsSet
<1>5. \A i \in 1 .. N : SetsNow(i) <=> Sets(i)
  BY <1>0, MeaningStays
<1>6. SetsNow(N + 1) <=> ~IsParam(Len(argv))' /\ Item(a) = n /\ ~Bad(Len(argv))'
  BY <1>1
<1> HIDE DEF Sets, SetsNow
<1> QED BY <1>2, <1>3, <1>4, <1>5, <1>6

(* What one argument has to do for opts, params and the exception to be    *)
(* what all the arguments mean.                                            *)
OptsFollow(a) ==
  /\ \A n \in DOMAIN opts' :
       /\ n \in OptWithParams /\ n \in DOMAIN opts =>
            opts'[n] = opts[n] \o ValueOf(n, Len(argv))'
       /\ n \in OptWithParams /\ n \notin DOMAIN opts =>
            opts'[n] = ValueOf(n, Len(argv))'
       /\ n \notin OptWithParams => opts'[n] = <<EmptyWord>>
  /\ \A n : n # NoItem =>
       (n \in DOMAIN opts' <=>
          \/ n \in DOMAIN opts
          \/ ValueOf(n, Len(argv))' # <<>>
          \/ /\ ~IsParam(Len(argv))' /\ Item(a) = n
             /\ n \notin OptWithParams /\ ~Bad(Len(argv))')

\* OptionsAsWritten after an argument, from what that argument alone means.
LEMMA MeaningKept ==
  ASSUME OptionsInv, OptionsTypeOK',
         NEW a \in Arguments \cup {NextCall}, argv' = Append(argv, a),
         OptsFollow(a), params' = params \o LeftOf(Len(argv))',
         thrown' # "none" <=> Bad(Len(argv))'
  PROVE  OptionsAsWritten'
<1> USE DEF OptionsInv
<1>1. \A n : /\ Gathered(n) \in Seq(Spelling)
             /\ ValueOf(n, Len(argv))' \in Seq(Spelling)
             /\ Gathered(n)' = Gathered(n) \o ValueOf(n, Len(argv))'
  BY MeaningGrows
<1>2. ASSUME NEW s \in Seq(Spelling), NEW t \in Seq(Spelling)
      PROVE  /\ s \o t # <<>> <=> s # <<>> \/ t # <<>>
             /\ s = <<>> => s \o t = t
  OBVIOUS
<1>3. ASSUME NEW b \in Arguments, Item(b) # NoItem
      PROVE  Item(b) \in DOMAIN opts <=> IsSet(Item(b)) \/ Gathered(Item(b)) # <<>>
  BY <1>3 DEF OptionsAsWritten
<1>4. ASSUME NEW n \in DOMAIN opts'
      PROVE  \E b \in Arguments : Item(b) = n
  <2>1. /\ \A c \in Letters : Argument(1, c, Nothing) \in Arguments
        /\ \A c \in Strings : Argument(2, c, Nothing) \in Arguments
    BY DEF Arguments
  <2>2. \A d, k, r : /\ d = 1 => Item(Argument(d, k, r)) = ShortOpts(k)
                     /\ d = 2 => Item(Argument(d, k, r)) = LongOpts(k)
    BY DEF Item, Argument
  <2>3. n \in {ShortOpts(c) : c \in Letters} \cup {LongOpts(c) : c \in Strings}
    BY DEF OptionsTypeOK
  <2> QED BY <2>1, <2>2, <2>3
<1>5. ASSUME NEW n \in DOMAIN opts'
      PROVE  /\ n \in OptWithParams => opts'[n] = Gathered(n)'
             /\ n \notin OptWithParams => opts'[n] = <<EmptyWord>>
  <2>1. CASE n \notin OptWithParams
    BY <2>1 DEF OptsFollow
  <2>2. CASE n \in OptWithParams /\ n \in DOMAIN opts
    <3>1. opts[n] = Gathered(n)
      BY <2>2 DEF OptionsAsWritten
    <3> QED BY <1>1, <2>2, <3>1 DEF OptsFollow
  <2>3. CASE n \in OptWithParams /\ n \notin DOMAIN opts
    <3>1. Gathered(n) = <<>>
      BY <1>3, <1>4, <2>3, OptionsAssumption DEF OptionsAssumption
    <3>2. Gathered(n) \o ValueOf(n, Len(argv))' = ValueOf(n, Len(argv))'
      BY <1>1, <1>2, <3>1
    <3> QED BY <1>1, <2>3, <3>2 DEF OptsFollow
  <2> QED BY <2>1, <2>2, <2>3
<1>6. ASSUME NEW b \in Arguments, Item(b) # NoItem
      PROVE  Item(b) \in DOMAIN opts' <=> IsSet(Item(b))' \/ Gathered(Item(b))' # <<>>
  <2> DEFINE n == Item(b)
  <2> HIDE DEF n
  <2>1. Gathered(n)' # <<>> <=> Gathered(n) # <<>> \/ ValueOf(n, Len(argv))' # <<>>
    BY <1>1, <1>2
  <2>2. IsSet(n)' <=>
           \/ IsSet(n)
           \/ /\ ~IsParam(Len(argv))' /\ Item(a) = n
              /\ n \notin OptWithParams /\ ~Bad(Len(argv))'
    BY SetGrows
  <2>3. n # NoItem /\ (n \in DOMAIN opts <=> IsSet(n) \/ Gathered(n) # <<>>)
    BY <1>3, <1>6 DEF n
  <2>4. n \in DOMAIN opts' <=> IsSet(n)' \/ Gathered(n)' # <<>>
    BY <2>1, <2>2, <2>3 DEF OptsFollow
  <2> QED BY <2>4 DEF n
<1>7. params' = FlattenSeq([i \in 1 .. Len(argv) |-> LeftOf(i)])'
  <2>1. params = Left /\ Left' = Left \o LeftOf(Len(argv))'
    BY MeaningGrows DEF OptionsAsWritten, Left
  <2>2. params' = Left'
    BY <2>1
  <2> QED BY <2>2 DEF Left
<1>8. thrown' # "none" <=> argv' # <<>> /\ Bad(Len(argv))'
  <2>1. argv' # <<>>
    BY AppendedTo DEF OptionsTypeOK
  <2> QED BY <2>1
<1>9. \A b \in Arguments : LET n == Item(b) IN
        n # NoItem => (n \in DOMAIN opts' <=> IsSet(n)' \/ Gathered(n)' # <<>>)
  BY <1>6
<1> QED BY <1>5, <1>7, <1>8, <1>9 DEF OptionsAsWritten

(* opts stays as it is when the argument adds to no item and sets none.    *)
LEMMA OptsKept ==
  ASSUME OptionsInv, NEW a \in Arguments \cup {NextCall}, argv' = Append(argv, a),
         opts' = opts, \A n : ValueOf(n, Len(argv))' = <<>>,
         \/ IsParam(Len(argv))' \/ Bad(Len(argv))'
         \/ Item(a) \in OptWithParams \cup {NoItem}
  PROVE  OptsFollow(a)
<1>1. ASSUME NEW n \in DOMAIN opts
      PROVE  /\ n \in OptWithParams => opts[n] \o <<>> = opts[n]
             /\ n \notin OptWithParams => opts[n] = <<EmptyWord>>
  <2>1. /\ n \in OptWithParams => opts[n] = Gathered(n)
        /\ n \notin OptWithParams => opts[n] = <<EmptyWord>>
    BY DEF OptionsInv, OptionsAsWritten
  <2>2. Gathered(n) \in Seq(Spelling)
    BY MeaningGrows DEF OptionsInv
  <2>3. ASSUME NEW s \in Seq(Spelling) PROVE s \o <<>> = s
    OBVIOUS
  <2> QED BY <2>1, <2>2, <2>3
<1> QED BY <1>1 DEF OptsFollow

(* update_opt() adds a parameter to the value of one item.                 *)
LEMMA OptsUpdated ==
  ASSUME OptionsInv, NEW a \in Arguments \cup {NextCall}, argv' = Append(argv, a),
         NEW m \in OptWithParams, NEW v, opts' = UpdateOpt(m, v),
         ValueOf(m, Len(argv))' = <<v>>,
         \A n : n # m => ValueOf(n, Len(argv))' = <<>>,
         IsParam(Len(argv))' \/ Item(a) = m
  PROVE  OptsFollow(a) /\ DOMAIN opts' = DOMAIN opts \cup {m}
<1>1. ASSUME NEW n \in DOMAIN opts
      PROVE  /\ n \in OptWithParams => opts[n] \in Seq(Spelling)
             /\ n \notin OptWithParams => opts[n] = <<EmptyWord>>
  <2>1. /\ n \in OptWithParams => opts[n] = Gathered(n)
        /\ n \notin OptWithParams => opts[n] = <<EmptyWord>>
    BY DEF OptionsInv, OptionsAsWritten
  <2>2. Gathered(n) \in Seq(Spelling)
    BY MeaningGrows DEF OptionsInv
  <2> QED BY <2>1, <2>2
<1>2. v \in Spelling
  <2>1. <<v>> \in Seq(Spelling)
    BY MeaningGrows DEF OptionsInv
  <2> QED BY <2>1
<1>3. ASSUME NEW s \in Seq(Spelling)
      PROVE  s \o <<>> = s /\ Append(s, v) = s \o <<v>>
  BY <1>2
<1>4. /\ DOMAIN opts' = DOMAIN opts \cup {m}
      /\ \A n \in DOMAIN opts : n # m => opts'[n] = opts[n]
      /\ m \in DOMAIN opts => opts'[m] = Append(opts[m], v)
      /\ m \notin DOMAIN opts => opts'[m] = <<v>>
  BY DEF UpdateOpt, SetOpt
<1>5. ASSUME NEW n \in DOMAIN opts'
      PROVE  /\ n \in OptWithParams /\ n \in DOMAIN opts =>
                  opts'[n] = opts[n] \o ValueOf(n, Len(argv))'
             /\ n \in OptWithParams /\ n \notin DOMAIN opts =>
                  opts'[n] = ValueOf(n, Len(argv))'
             /\ n \notin OptWithParams => opts'[n] = <<EmptyWord>>
  <2>1. CASE n = m
    BY <1>1, <1>3, <1>4, <2>1
  <2>2. CASE n # m
    BY <1>1, <1>3, <1>4, <2>2
  <2> QED BY <2>1, <2>2
<1>6. <<v>> # <<>>
  OBVIOUS
<1>7. ASSUME NEW n, n # NoItem
      PROVE  n \in DOMAIN opts' <=>
               \/ n \in DOMAIN opts
               \/ ValueOf(n, Len(argv))' # <<>>
               \/ /\ ~IsParam(Len(argv))' /\ Item(a) = n
                  /\ n \notin OptWithParams /\ ~Bad(Len(argv))'
  <2>1. CASE n = m
    BY <1>4, <1>6, <2>1
  <2>2. CASE n # m
    BY <1>4, <2>2
  <2> QED BY <2>1, <2>2
<1> QED BY <1>4, <1>5, <1>7 DEF OptsFollow

(* An option without a parameter is set to the empty string.               *)
LEMMA OptsSet ==
  ASSUME OptionsInv, NEW a \in Arguments \cup {NextCall}, argv' = Append(argv, a),
         Item(a) \notin OptWithParams, opts' = SetOpt(Item(a), <<EmptyWord>>),
         \A n : ValueOf(n, Len(argv))' = <<>>,
         ~IsParam(Len(argv))', ~Bad(Len(argv))'
  PROVE  OptsFollow(a) /\ DOMAIN opts' = DOMAIN opts \cup {Item(a)}
<1> DEFINE m == Item(a)
<1> HIDE DEF m
<1>1. ASSUME NEW n \in DOMAIN opts
      PROVE  /\ n \in OptWithParams => opts[n] \o <<>> = opts[n]
             /\ n \notin OptWithParams => opts[n] = <<EmptyWord>>
  <2>1. /\ n \in OptWithParams => opts[n] = Gathered(n)
        /\ n \notin OptWithParams => opts[n] = <<EmptyWord>>
    BY DEF OptionsInv, OptionsAsWritten
  <2>2. Gathered(n) \in Seq(Spelling)
    BY MeaningGrows DEF OptionsInv
  <2>3. ASSUME NEW s \in Seq(Spelling) PROVE s \o <<>> = s
    OBVIOUS
  <2> QED BY <2>1, <2>2, <2>3
<1>2. /\ DOMAIN opts' = DOMAIN opts \cup {m}
      /\ \A n \in DOMAIN opts : n # m => opts'[n] = opts[n]
      /\ opts'[m] = <<EmptyWord>>
      /\ m \notin OptWithParams
  BY DEF SetOpt, m
<1>3. ASSUME NEW n \in DOMAIN opts'
      PROVE  /\ n \in OptWithParams /\ n \in DOMAIN opts =>
                  opts'[n] = opts[n] \o ValueOf(n, Len(argv))'
             /\ n \in OptWithParams /\ n \notin DOMAIN opts =>
                  opts'[n] = ValueOf(n, Len(argv))'
             /\ n \notin OptWithParams => opts'[n] = <<EmptyWord>>
  <2>1. CASE n = m
    BY <1>2, <2>1
  <2>2. CASE n # m
    BY <1>1, <1>2, <2>2
  <2> QED BY <2>1, <2>2
<1>4. \A n : n \in DOMAIN opts' <=>
               n \in DOMAIN opts \/ (Item(a) = n /\ n \notin OptWithParams)
  BY <1>2 DEF m
<1> QED BY <1>2, <1>3, <1>4 DEF OptsFollow, m

(* Every step takes a kind of argument: what parse() does with it is what  *)
(* it means.                                                               *)
OptionsStep(a) ==
  /\ DOMAIN opts' \subseteq
       {ShortOpts(c) : c \in Letters} \cup {LongOpts(s) : s \in Strings}
  /\ stage' \in {"option", "opt_param"} /\ leave' \in BOOLEAN
  /\ thrown' \in {"none", "cor::Error", "std::logic_error"}
  /\ OptsFollow(a)
  /\ params' = params \o LeftOf(Len(argv))'
  /\ thrown' # "none" <=> Bad(Len(argv))'
  /\ StageFollows'

\* So a step that does this keeps the invariant.
LEMMA StepKeeps ==
  ASSUME OptionsInv, NEW a \in Arguments \cup {NextCall}, argv' = Append(argv, a),
         OptionsStep(a)
  PROVE  OptionsInv'
<1>1. argv' \in Seq(Arguments \cup {NextCall})
  BY AppendedTo DEF OptionsInv, OptionsTypeOK
<1>2. params' \in Seq(Arguments)
  <2>1. LeftOf(Len(argv))' \in Seq(Arguments)
    BY MeaningGrows DEF OptionsInv
  <2>2. params \in Seq(Arguments)
    BY DEF OptionsInv, OptionsTypeOK
  <2>3. \A s, t \in Seq(Arguments) : s \o t \in Seq(Arguments)
    OBVIOUS
  <2> QED BY <2>1, <2>2, <2>3 DEF OptionsStep
<1>3. OptionsTypeOK'
  BY <1>1, <1>2 DEF OptionsStep, OptionsTypeOK
<1>4. OptionsAsWritten'
  BY <1>3, MeaningKept DEF OptionsStep
<1> QED BY <1>3, <1>4 DEF OptionsInv, OptionsStep

(* An item that an argument stands for is one of the two tables'.          *)
LEMMA ItemsOfArguments ==
  ASSUME OptionsAssumption, NEW a \in Arguments \cup {NextCall}, Item(a) # NoItem
  PROVE  Item(a) \in {ShortOpts(c) : c \in Letters} \cup {LongOpts(s) : s \in Strings}
BY ArgumentKinds

\* An empty argument is nothing.
LEMMA EmptyIsSkipped ==
  ASSUME OptionsInv, argv' = Append(argv, Word(EmptyWord)), thrown = "none",
         SkipEmpty(Word(EmptyWord))
  PROVE  OptionsStep(Word(EmptyWord))
<1> DEFINE a == Word(EmptyWord)
<1>1. /\ a \in Arguments \cup {NextCall} /\ ~Wants(a)
      /\ Item(a) = NoItem /\ a.dashes = 0
  BY ArgumentKinds, OptionsAssumption DEF Arguments
<1>2. /\ OptionsTypeOK /\ argv' = Append(argv, a)
      /\ (\A m : ~AwaitsParamOf(m)) \/ a \in {Word(EmptyWord), NextCall}
      /\ UNCHANGED <<stage, item, leave, opts, params, thrown>>
  BY DEF OptionsInv, SkipEmpty
<1>3. NoItem \notin OptWithParams
  BY OptionsAssumption DEF OptionsAssumption
<1> HIDE DEF a
<1>4. /\ \A n : ValueOf(n, Len(argv))' = <<>>
      /\ ~Bad(Len(argv))' /\ LeftOf(Len(argv))' = <<>>
  <2>1. \A n : Item(a) # n \/ n \notin OptWithParams
    BY <1>1, <1>3
  <2> QED BY <1>1, <1>2, <2>1, AsOption DEF a
<1>5. \A n : AwaitsParamOf(n)' <=> AwaitsParamOf(n)
  BY <1>1, <1>2, Awaiting DEF a
<1>6. OptsFollow(a)
  BY <1>1, <1>2, <1>4, OptsKept
<1>7. params \o <<>> = params
  BY <1>2 DEF OptionsTypeOK
<1>8. StageFollows'
  BY <1>2, <1>5 DEF OptionsInv, StageFollows
<1> QED BY <1>2, <1>4, <1>6, <1>7, <1>8 DEF OptionsStep, OptionsTypeOK, a

\* An argument that is no option is left in params.
LEMMA ArgumentIsLeft ==
  ASSUME OptionsInv, NEW a \in Arguments, argv' = Append(argv, a), thrown = "none",
         a # Word(EmptyWord), ProcessParam(a)
  PROVE  OptionsStep(a)
<1>1. /\ OptionsTypeOK /\ \A m : ~AwaitsParamOf(m)
      /\ Item(a) = NoItem /\ params' = Append(params, a) /\ stage = "option"
      /\ UNCHANGED <<stage, item, leave, opts, thrown>>
  BY DEF OptionsInv, StageFollows, ProcessParam
<1>2. NoItem \notin OptWithParams /\ a # NextCall
  BY ArgumentKinds, OptionsAssumption DEF OptionsAssumption
<1>3. /\ \A n : ValueOf(n, Len(argv))' = <<>>
      /\ ~Bad(Len(argv))' /\ LeftOf(Len(argv))' = <<a>>
  <2>1. \A n : Item(a) # n \/ n \notin OptWithParams
    BY <1>1, <1>2
  <2> QED BY <1>1, <1>2, <2>1, AsOption
<1>4. \A n : ~AwaitsParamOf(n)'
  BY <1>1, <1>2, Awaiting DEF Wants
<1>5. OptsFollow(a)
  BY <1>1, <1>3, OptsKept
<1>6. params' = params \o <<a>>
  BY <1>1 DEF OptionsTypeOK
<1>7. StageFollows'
  BY <1>1, <1>4 DEF StageFollows
<1> QED BY <1>1, <1>3, <1>5, <1>6, <1>7 DEF OptionsStep, OptionsTypeOK

\* An option without a parameter is set, or refused.
LEMMA FlagIsSet ==
  ASSUME OptionsInv, NEW a \in Arguments, argv' = Append(argv, a), thrown = "none",
         a # Word(EmptyWord), ParseFlag(a)
  PROVE  OptionsStep(a)
<1>1. /\ OptionsTypeOK /\ \A m : ~AwaitsParamOf(m)
      /\ Item(a) # NoItem /\ Item(a) \notin OptWithParams
      /\ leave' = (Item(a) \in LeaveInParams)
      /\ params' = ParamsWith(leave', <<a>>)
      /\ stage = "option" /\ stage' = stage
  BY DEF OptionsInv, StageFollows, ParseFlag, Recognized
<1>0. /\ leave' \in BOOLEAN /\ stage' \in {"option", "opt_param"} /\ thrown = "none"
      /\ DOMAIN opts \subseteq
           {ShortOpts(c) : c \in Letters} \cup {LongOpts(s) : s \in Strings}
  <2>1. leave' \in BOOLEAN
    BY <1>1
  <2>2. /\ stage' \in {"option", "opt_param"}
        /\ DOMAIN opts \subseteq
             {ShortOpts(c) : c \in Letters} \cup {LongOpts(s) : s \in Strings}
    BY <1>1 DEF OptionsTypeOK
  <2> QED BY <2>1, <2>2
<1>2. a # NextCall
  BY ArgumentKinds, OptionsAssumption
<1>3. /\ \A n : ValueOf(n, Len(argv))' = <<>>
      /\ ~IsParam(Len(argv))'
      /\ Bad(Len(argv))' <=> a.dashes = 2 /\ a.rest # Nothing
      /\ Item(a) \in LeaveInParams => LeftOf(Len(argv))' = <<a>>
      /\ Item(a) \notin LeaveInParams => LeftOf(Len(argv))' = <<>>
  <2>1. \A n : Item(a) # n \/ n \notin OptWithParams
    BY <1>1
  <2> QED BY <1>1, <1>2, <2>1, AsOption
<1>4. \A n : ~AwaitsParamOf(n)'
  BY <1>1, Awaiting DEF Wants
<1>5. params' = params \o LeftOf(Len(argv))'
  <2>1. params \o <<>> = params
    BY <1>1 DEF OptionsTypeOK
  <2> QED BY <1>1, <1>3, <2>1 DEF ParamsWith
<1>6. StageFollows'
  BY <1>1, <1>4 DEF StageFollows
<1>7. Item(a) \in {ShortOpts(c) : c \in Letters} \cup {LongOpts(s) : s \in Strings}
  BY <1>1, ItemsOfArguments, OptionsAssumption
<1>8. CASE a.dashes = 2 /\ a.rest # Nothing
  <2>1. thrown' = "cor::Error" /\ opts' = opts
    BY <1>8 DEF ParseFlag
  <2>2. OptsFollow(a)
    BY <1>3, <1>8, <2>1, OptsKept
  <2> QED BY <1>0, <1>3, <1>5, <1>6, <1>8, <2>1, <2>2 DEF OptionsStep
<1>9. CASE ~(a.dashes = 2 /\ a.rest # Nothing)
  <2>1. thrown' = thrown /\ opts' = SetOpt(Item(a), <<EmptyWord>>)
    BY <1>9 DEF ParseFlag
  <2>2. OptsFollow(a) /\ DOMAIN opts' = DOMAIN opts \cup {Item(a)}
    BY <1>1, <1>3, <1>9, <2>1, OptsSet
  <2> QED BY <1>0, <1>3, <1>5, <1>6, <1>7, <1>9, <2>1, <2>2 DEF OptionsStep
<1> QED BY <1>8, <1>9

\* An option with its parameter in the same argument gets it.
LEMMA InlineIsGathered ==
  ASSUME OptionsInv, NEW a \in Arguments, argv' = Append(argv, a), thrown = "none",
         a # Word(EmptyWord), ParseInline(a)
  PROVE  OptionsStep(a)
<1>1. /\ OptionsTypeOK /\ \A m : ~AwaitsParamOf(m)
      /\ Item(a) # NoItem /\ Item(a) \in OptWithParams /\ a.rest # Nothing
      /\ leave' = (Item(a) \in LeaveInParams)
      /\ params' = ParamsWith(leave',
                      IF a.dashes = 1 THEN <<a, Word(a.rest)>> ELSE <<a>>)
      /\ stage = "option" /\ stage' = stage /\ thrown' = thrown
      /\ opts' = UpdateOpt(Item(a), a.rest)
  BY DEF OptionsInv, StageFollows, ParseInline, Recognized
<1>0. /\ leave' \in BOOLEAN /\ stage' \in {"option", "opt_param"} /\ thrown = "none"
      /\ DOMAIN opts \subseteq
           {ShortOpts(c) : c \in Letters} \cup {LongOpts(s) : s \in Strings}
  <2>1. leave' \in BOOLEAN
    BY <1>1
  <2>2. /\ stage' \in {"option", "opt_param"}
        /\ DOMAIN opts \subseteq
             {ShortOpts(c) : c \in Letters} \cup {LongOpts(s) : s \in Strings}
    BY <1>1 DEF OptionsTypeOK
  <2> QED BY <2>1, <2>2
<1>2. a # NextCall
  BY ArgumentKinds, OptionsAssumption
<1>3. /\ ValueOf(Item(a), Len(argv))' = <<a.rest>>
      /\ \A n : n # Item(a) => ValueOf(n, Len(argv))' = <<>>
      /\ ~IsParam(Len(argv))' /\ ~Bad(Len(argv))'
      /\ Item(a) \in LeaveInParams =>
           LeftOf(Len(argv))' = IF a.dashes = 1 THEN <<a, Word(a.rest)>> ELSE <<a>>
      /\ Item(a) \notin LeaveInParams => LeftOf(Len(argv))' = <<>>
  <2>1. ValueOf(Item(a), Len(argv))' = <<a.rest>>
    BY <1>1, AsOption
  <2>2. \A n : n # Item(a) => ValueOf(n, Len(argv))' = <<>>
    BY <1>1, AsOption
  <2> QED BY <1>1, <1>2, <2>1, <2>2, AsOption
<1>4. \A n : ~AwaitsParamOf(n)'
  BY <1>1, Awaiting DEF Wants
<1>5. params' = params \o LeftOf(Len(argv))'
  <2>1. params \o <<>> = params
    BY <1>1 DEF OptionsTypeOK
  <2> QED BY <1>1, <1>3, <2>1 DEF ParamsWith
<1>6. StageFollows'
  BY <1>1, <1>4 DEF StageFollows
<1>7. Item(a) \in {ShortOpts(c) : c \in Letters} \cup {LongOpts(s) : s \in Strings}
  BY <1>1, ItemsOfArguments, OptionsAssumption
<1>8. OptsFollow(a) /\ DOMAIN opts' = DOMAIN opts \cup {Item(a)}
  BY <1>1, <1>3, OptsUpdated
<1>9. thrown' = thrown
  BY <1>1
<1> QED BY <1>0, <1>3, <1>5, <1>6, <1>7, <1>8, <1>9 DEF OptionsStep

\* An option without it waits for the next argument.
LEMMA OptionAwaits ==
  ASSUME OptionsInv, NEW a \in Arguments, argv' = Append(argv, a), thrown = "none",
         a # Word(EmptyWord), ParseOptionWithParam(a)
  PROVE  OptionsStep(a)
<1>1. /\ OptionsTypeOK /\ \A m : ~AwaitsParamOf(m)
      /\ Item(a) # NoItem /\ Item(a) \in OptWithParams /\ a.rest = Nothing
      /\ item' = Item(a) /\ leave' = (Item(a) \in LeaveInParams)
      /\ params' = ParamsWith(leave', <<a>>)
      /\ stage' = "opt_param" /\ thrown' = thrown /\ opts' = opts
  BY DEF OptionsInv, StageFollows, ParseOptionWithParam, Recognized
<1>0. /\ leave' \in BOOLEAN /\ stage' \in {"option", "opt_param"} /\ thrown = "none"
      /\ DOMAIN opts \subseteq
           {ShortOpts(c) : c \in Letters} \cup {LongOpts(s) : s \in Strings}
  <2>1. leave' \in BOOLEAN
    BY <1>1
  <2>2. /\ stage' \in {"option", "opt_param"}
        /\ DOMAIN opts \subseteq
             {ShortOpts(c) : c \in Letters} \cup {LongOpts(s) : s \in Strings}
    BY <1>1 DEF OptionsTypeOK
  <2> QED BY <2>1, <2>2
<1>2. a # NextCall
  BY ArgumentKinds, OptionsAssumption
<1>3. /\ \A n : ValueOf(n, Len(argv))' = <<>>
      /\ ~IsParam(Len(argv))' /\ ~Bad(Len(argv))'
      /\ Item(a) \in LeaveInParams => LeftOf(Len(argv))' = <<a>>
      /\ Item(a) \notin LeaveInParams => LeftOf(Len(argv))' = <<>>
  <2>1. \A n : ValueOf(n, Len(argv))' = <<>>
    BY <1>1, AsOption
  <2> QED BY <1>1, <1>2, <2>1, AsOption
<1>4. AwaitsParamOf(Item(a))'
  <2>1. Wants(a)
    BY <1>1 DEF Wants
  <2> QED BY <1>1, <2>1, Awaiting
<1>5. params' = params \o LeftOf(Len(argv))'
  <2>1. params \o <<>> = params
    BY <1>1 DEF OptionsTypeOK
  <2> QED BY <1>1, <1>3, <2>1 DEF ParamsWith
<1>6. StageFollows'
  <2>1. AwaitsParamOf(Item(a))' = AwaitsParamOf(item)'
    BY <1>1
  <2> QED BY <1>1, <1>4, <2>1 DEF StageFollows
<1>7. OptsFollow(a)
  BY <1>1, <1>3, OptsKept
<1>9. thrown' = thrown /\ opts' = opts
  BY <1>1
<1> QED BY <1>0, <1>3, <1>5, <1>6, <1>7, <1>9 DEF OptionsStep

\* And gets that, whatever it looks like.
LEMMA ParameterIsGathered ==
  ASSUME OptionsInv, NEW a \in Arguments, argv' = Append(argv, a), thrown = "none",
         a # Word(EmptyWord), ParseOptParam(a)
  PROVE  OptionsStep(a)
<1>1. /\ OptionsTypeOK /\ AwaitsParamOf(item) /\ leave = (item \in LeaveInParams)
      /\ stage = "opt_param" /\ UNCHANGED <<item, leave>>
  BY DEF OptionsInv, StageFollows, ParseOptParam
<1>2. item \in OptWithParams /\ a.dashes \in {0, 1, 2}
      /\ (a.dashes = 0 => Item(a) = NoItem) /\ NoItem \notin OptWithParams
  BY <1>1, Awaiting, ArgumentKinds, OptionsAssumption DEF OptionsAssumption
<1>3. IsParam(Len(argv))' /\ (Bad(Len(argv))' <=> a.dashes # 0)
  BY <1>1, AsParameter
<1>4. CASE a.dashes > 0
  <2>1. /\ thrown' = "std::logic_error" /\ UNCHANGED <<stage, opts, params>>
    BY <1>4 DEF ParseOptParam
  <2>2. a.dashes # 0
    BY <1>4
  <2>3. /\ \A n : ValueOf(n, Len(argv))' = <<>>
        /\ LeftOf(Len(argv))' = <<>>
    BY <1>1, <2>2, AsParameter
  <2>4. OptsFollow(a)
    BY <1>1, <1>3, <2>1, <2>3, OptsKept
  <2>5. params \o <<>> = params
    BY <1>1 DEF OptionsTypeOK
  <2>6. StageFollows'
    BY <2>1 DEF StageFollows
  <2> QED BY <1>1, <1>3, <2>1, <2>2, <2>3, <2>4, <2>5, <2>6 DEF OptionsStep, OptionsTypeOK
<1>5. CASE ~(a.dashes > 0)
  <2>1. /\ opts' = UpdateOpt(item, a.key) /\ params' = ParamsWith(leave, <<a>>)
        /\ stage' = "option" /\ thrown' = thrown
    BY <1>5 DEF ParseOptParam
  <2>2. a.dashes = 0
    BY <1>2, <1>5
  <2>3. ValueOf(item, Len(argv))' = <<a.key>>
    BY <1>1, <2>2, AsParameter
  <2>4. /\ \A n : n # item => ValueOf(n, Len(argv))' = <<>>
        /\ item \in LeaveInParams => LeftOf(Len(argv))' = <<a>>
        /\ item \notin LeaveInParams => LeftOf(Len(argv))' = <<>>
    BY <1>1, <2>2, AsParameter
  <2>5. OptsFollow(a) /\ DOMAIN opts' = DOMAIN opts \cup {item}
    BY <1>1, <1>2, <1>3, <2>1, <2>3, <2>4, OptsUpdated
  <2>6. params' = params \o LeftOf(Len(argv))'
    <3>1. params \o <<>> = params
      BY <1>1 DEF OptionsTypeOK
    <3> QED BY <1>1, <2>1, <2>4, <3>1 DEF ParamsWith
  <2>7. \A n : ~AwaitsParamOf(n)'
    <3>1. ~Wants(a)
      BY <1>2, <2>2 DEF Wants
    <3> QED BY <1>1, <3>1, Awaiting
  <2>8. StageFollows'
    BY <2>1, <2>7 DEF StageFollows
  <2>9. item \in {ShortOpts(c) : c \in Letters} \cup {LongOpts(s) : s \in Strings}
    <3>1. PICK j \in 1 .. Len(argv) : Wants(argv[j]) /\ Item(argv[j]) = item
      BY <1>1 DEF AwaitsParamOf
    <3>2. argv[j] \in Arguments \cup {NextCall}
      BY <1>1 DEF OptionsTypeOK
    <3> QED BY <1>2, <3>1, <3>2, ItemsOfArguments, OptionsAssumption
  <2> QED BY <1>1, <1>3, <2>1, <2>2, <2>5, <2>6, <2>8, <2>9 DEF OptionsStep, OptionsTypeOK
<1> QED BY <1>4, <1>5

\* Another call begins with no option that waits.
LEMMA CallBegins ==
  ASSUME OptionsInv, ParseAgain
  PROVE  OptionsStep(NextCall)
<1>1. /\ OptionsTypeOK /\ argv' = Append(argv, NextCall)
      /\ stage' = "option" /\ leave' = FALSE /\ thrown' = "none"
      /\ opts' = opts /\ params' = params
  BY DEF OptionsInv, ParseAgain
<1>2. /\ Item(NextCall) = NoItem /\ NextCall.dashes = 0 /\ ~Wants(NextCall)
      /\ NoItem \notin OptWithParams /\ NextCall # Word(EmptyWord)
  BY ArgumentKinds, OptionsAssumption DEF OptionsAssumption
<1>3. /\ \A n : ValueOf(n, Len(argv))' = <<>>
      /\ ~Bad(Len(argv))' /\ LeftOf(Len(argv))' = <<>>
  <2> DEFINE a == NextCall
  <2>1. /\ a \in Arguments \cup {NextCall} /\ argv' = Append(argv, a)
        /\ (\A m : ~AwaitsParamOf(m)) \/ a \in {Word(EmptyWord), NextCall}
        /\ Item(a) = NoItem /\ a.dashes = 0
    BY <1>1, <1>2
  <2>2. \A n : Item(a) # n \/ n \notin OptWithParams
    BY <1>2
  <2>3. a \in {Word(EmptyWord), NextCall}
    OBVIOUS
  <2> HIDE DEF a
  <2> QED BY <1>1, <2>1, <2>2, <2>3, AsOption
<1>4. \A n : ~AwaitsParamOf(n)'
  BY <1>1, <1>2, Awaiting
<1>5. OptsFollow(NextCall)
  BY <1>1, <1>2, <1>3, OptsKept
<1>6. params \o <<>> = params
  BY <1>1 DEF OptionsTypeOK
<1>7. StageFollows'
  BY <1>1, <1>4 DEF StageFollows
<1> QED BY <1>1, <1>3, <1>5, <1>6, <1>7 DEF OptionsStep, OptionsTypeOK

\* Before the first argument nothing is stored.
LEMMA OptionsStart == OptionsAssumption /\ OptionsInit => OptionsInv
<1> SUFFICES ASSUME OptionsAssumption, OptionsInit PROVE OptionsInv
  OBVIOUS
<1>1. /\ argv = <<>> /\ Len(argv) = 0 /\ stage = "option" /\ leave = FALSE
      /\ DOMAIN opts = {} /\ params = <<>> /\ thrown = "none"
  <2>1. DOMAIN <<>> = {} /\ Len(<<>>) = 0
    OBVIOUS
  <2> QED BY <2>1 DEF OptionsInit
<1>2. OptionsTypeOK
  <2>1. argv \in Seq(Arguments \cup {NextCall}) /\ params \in Seq(Arguments)
    BY <1>1
  <2> QED BY <1>1, <2>1 DEF OptionsTypeOK
<1>3. \A n : ~AwaitsParamOf(n)
  BY <1>1 DEF AwaitsParamOf
<1>4. \A n : Gathered(n) = <<>> /\ ~IsSet(n)
  <2> TAKE n
  <2>1. [i \in 1 .. Len(argv) |-> ValueOf(n, i)] = <<>>
    BY <1>1
  <2>2. Gathered(n) = <<>>
    BY <2>1, FlattenEmpty DEF Gathered
  <2> QED BY <1>1, <2>2 DEF IsSet
<1>5. FlattenSeq([i \in 1 .. Len(argv) |-> LeftOf(i)]) = <<>>
  <2>1. [i \in 1 .. Len(argv) |-> LeftOf(i)] = <<>>
    BY <1>1
  <2> QED BY <2>1, FlattenEmpty
<1>6. OptionsAsWritten
  BY <1>1, <1>4, <1>5 DEF OptionsAsWritten
<1> QED BY <1>1, <1>2, <1>3, <1>6 DEF OptionsInv, StageFollows

\* Every argument, and every call, keeps what is stored as it was written.
LEMMA OptionsStepInv == OptionsInv /\ [OptionsNext]_optionVars => OptionsInv'
<1> SUFFICES ASSUME OptionsInv, [OptionsNext]_optionVars PROVE OptionsInv'
  OBVIOUS
<1>1. ASSUME NEW a \in Arguments, Process(a) PROVE OptionsInv'
  <2>1. thrown = "none" /\ argv' = Append(argv, a)
    BY <1>1 DEF Process
  <2>2. CASE a = Word(EmptyWord) /\ SkipEmpty(a)
    BY <2>1, <2>2, EmptyIsSkipped, StepKeeps
  <2>3. CASE a # Word(EmptyWord) /\ ProcessParam(a)
    BY <2>1, <2>3, ArgumentIsLeft, StepKeeps
  <2>4. CASE a # Word(EmptyWord) /\ ParseFlag(a)
    BY <2>1, <2>4, FlagIsSet, StepKeeps
  <2>5. CASE a # Word(EmptyWord) /\ ParseInline(a)
    BY <2>1, <2>5, InlineIsGathered, StepKeeps
  <2>6. CASE a # Word(EmptyWord) /\ ParseOptionWithParam(a)
    BY <2>1, <2>6, OptionAwaits, StepKeeps
  <2>7. CASE a # Word(EmptyWord) /\ ParseOptParam(a)
    BY <2>1, <2>7, ParameterIsGathered, StepKeeps
  <2>8. SkipEmpty(a) => a = Word(EmptyWord)
    BY DEF SkipEmpty
  <2> QED BY <1>1, <2>2, <2>3, <2>4, <2>5, <2>6, <2>7, <2>8 DEF Process
<1>2. ASSUME ParseAgain PROVE OptionsInv'
  <2>1. argv' = Append(argv, NextCall) /\ NextCall \in Arguments \cup {NextCall}
    BY <1>2 DEF ParseAgain
  <2>2. OptionsStep(NextCall)
    BY <1>2, CallBegins
  <2> HIDE DEF NextCall
  <2> QED BY <2>1, <2>2, StepKeeps
<1>3. ASSUME UNCHANGED optionVars PROVE OptionsInv'
  <2>1. UNCHANGED <<argv, stage, item, leave, opts, params, thrown>>
    BY <1>3 DEF optionVars
  <2>2. \A i : (IsParam(i)' <=> IsParam(i)) /\ OptionOf(i)' = OptionOf(i)
    BY <2>1 DEF IsParam, OptionOf
  <2>3. \A i : LeftOf(i)' = LeftOf(i) /\ (Bad(i)' <=> Bad(i))
    BY <2>1, <2>2 DEF LeftOf, Bad
  <2>4. \A n : /\ Gathered(n)' = Gathered(n)
               /\ IsSet(n)' <=> IsSet(n)
               /\ AwaitsParamOf(n)' <=> AwaitsParamOf(n)
    <3>1. ASSUME NEW n PROVE Gathered(n)' = Gathered(n)
      <4>1. \A i : ValueOf(n, i)' = ValueOf(n, i)
        BY <2>1, <2>2 DEF ValueOf
      <4>2. [i \in 1 .. Len(argv') |-> ValueOf(n, i)'] = [i \in 1 .. Len(argv) |-> ValueOf(n, i)]
        BY <2>1, <4>1
      <4>3. Gathered(n)' = FlattenSeq([i \in 1 .. Len(argv') |-> ValueOf(n, i)'])
        BY DEF Gathered
      <4> QED BY <4>2, <4>3 DEF Gathered
    <3>2. ASSUME NEW n PROVE IsSet(n)' <=> IsSet(n)
      BY <2>1, <2>2, <2>3 DEF IsSet
    <3>3. ASSUME NEW n PROVE AwaitsParamOf(n)' <=> AwaitsParamOf(n)
      BY <2>1 DEF AwaitsParamOf
    <3> QED BY <3>1, <3>2, <3>3
  <2>5. Left' = Left
    <3>1. [i \in 1 .. Len(argv') |-> LeftOf(i)'] = [i \in 1 .. Len(argv) |-> LeftOf(i)]
      BY <2>1, <2>3
    <3>2. Left' = FlattenSeq([i \in 1 .. Len(argv') |-> LeftOf(i)'])
      BY DEF Left
    <3> QED BY <3>1, <3>2 DEF Left
  <2>6. OptionsTypeOK'
    BY <2>1 DEF OptionsInv, OptionsTypeOK
  <2>7. StageFollows'
    BY <2>1, <2>4 DEF OptionsInv, StageFollows
  <2>8. OptionsAsWritten'
    <3>1. /\ \A n \in DOMAIN opts : opts[n] = IF n \in OptWithParams
                                              THEN Gathered(n) ELSE <<EmptyWord>>
          /\ \A a \in Arguments : LET n == Item(a) IN
               n # NoItem => (n \in DOMAIN opts <=> IsSet(n) \/ Gathered(n) # <<>>)
          /\ params = Left
          /\ thrown # "none" <=> argv # <<>> /\ Bad(Len(argv))
      BY DEF OptionsInv, OptionsAsWritten, Left
    <3>2. \A n \in DOMAIN opts' : opts'[n] = IF n \in OptWithParams
                                             THEN Gathered(n)' ELSE <<EmptyWord>>
      BY <2>1, <2>4, <3>1
    <3>3. \A a \in Arguments : LET n == Item(a) IN
            n # NoItem => (n \in DOMAIN opts' <=> IsSet(n)' \/ Gathered(n)' # <<>>)
      BY <2>1, <2>4, <3>1
    <3>4. params' = FlattenSeq([i \in 1 .. Len(argv) |-> LeftOf(i)])'
      BY <2>1, <2>5, <3>1 DEF Left
    <3>5. thrown' # "none" <=> argv' # <<>> /\ Bad(Len(argv))'
      BY <2>1, <2>3, <3>1
    <3> QED BY <3>2, <3>3, <3>4, <3>5 DEF OptionsAsWritten
  <2> QED BY <2>6, <2>7, <2>8 DEF OptionsInv
<1> QED BY <1>1, <1>2, <1>3 DEF OptionsNext

(***************************************************************************)
(* After every argument of every call, whatever options are defined and    *)
(* whatever is given, opts, params and the exception are what the          *)
(* arguments mean (options.hpp:132-236).                                   *)
(***************************************************************************)
THEOREM OptionsMeanAsWritten == OptionsSpec => []OptionsAsWritten
<1>1. OptionsInv => OptionsAsWritten
  BY DEF OptionsInv
<1> QED BY <1>1, OptionsAssumption, OptionsStart, OptionsStepInv, PTL DEF OptionsSpec

(* The parser's variables keep their types.                                *)
THEOREM OptionsTypeCorrect == OptionsSpec => []OptionsTypeOK
<1>1. OptionsInv => OptionsTypeOK
  BY DEF OptionsInv
<1> QED BY <1>1, OptionsAssumption, OptionsStart, OptionsStepInv, PTL DEF OptionsSpec

-----------------------------------------------------------------------------
(* All of them, side by side.                                              *)

(***************************************************************************)
(* A behaviour of the utilities side by side is one of each of them.       *)
(***************************************************************************)
THEOREM SideBySide ==
  UtilitiesSpec => /\ OptionsSpec /\ ChangesSpec /\ TraceSpec
                   /\ MessageSpec /\ TracersSpec /\ SplitSpec
<1>1. UtilitiesInit => /\ OptionsInit /\ ChangesInit /\ TraceInit
                       /\ MessageInit /\ TracersInit /\ SplitInit
  BY DEF UtilitiesInit
<1>2. ASSUME [UtilitiesNext]_utilityVars
      PROVE  /\ [OptionsNext]_optionVars /\ [ChangesNext]_changesVars
             /\ [TraceNext]_traceVars /\ [MessageNext]_messageVars
             /\ [TracersNext]_tracerVars /\ [SplitNext]_splitVars
  BY <1>2 DEF UtilitiesNext, utilityVars
<1> QED
  BY <1>1, <1>2, PTL
  DEF UtilitiesSpec, OptionsSpec, ChangesSpec, TraceSpec, MessageSpec, TracersSpec,
      SplitSpec

(***************************************************************************)
(* The variables of all the utilities keep their types.                    *)
(***************************************************************************)
THEOREM UtilitiesTypeCorrect == UtilitiesSpec => []UtilitiesTypeOK
<1>1. MessageSpec => []MessageTypeOK
  <2>1. MessageInit => MessageInv
    BY MessageStart
  <2>2. MessageInv /\ [MessageNext]_messageVars => MessageInv'
    BY MessageStep, ErrorMessageAssumption
  <2>3. MessageInv => MessageTypeOK
    BY DEF MessageInv
  <2> QED BY <2>1, <2>2, <2>3, PTL DEF MessageSpec
<1>2. TracersSpec => []TracersTypeOK
  <2>1. TracersInit => TracersInv
    BY TracersStart
  <2>2. TracersInv /\ [TracersNext]_tracerVars => TracersInv'
    BY TracersStep, TracersAssumption
  <2>3. TracersInv => TracersTypeOK
    BY DEF TracersInv
  <2> QED BY <2>1, <2>2, <2>3, PTL DEF TracersSpec
<1>3. OptionsTypeOK /\ ChangesTypeOK /\ TraceTypeOK /\ MessageTypeOK /\ TracersTypeOK
      /\ SplitTypeOK => UtilitiesTypeOK
  BY DEF UtilitiesTypeOK
<1> QED
  BY <1>1, <1>2, <1>3, SideBySide, OptionsTypeCorrect, ChangesTypeCorrect,
     TraceTypeCorrect, SplitTypeCorrect, PTL
=============================================================================
