---------------------------- MODULE ErrorMessage ----------------------------
(***************************************************************************)
(* cor::mk_error_message() (include/cor/error.hpp:161-184), which formats  *)
(* the message of an exception into a buffer that is doubled until it is   *)
(* large enough, or Limit is reached.  The text is abstracted to its       *)
(* length, and to how much of the buffer it has been written to: snprintf  *)
(* writes one character less than it is given room for, and returns the    *)
(* length it would have needed, or a negative number.                      *)
(***************************************************************************)
EXTENDS Integers

CONSTANTS Limit,       \* 1024 * 64
          MaxFormat,   \* bound: the length of the format
          MaxMessage   \* bound: the length of the message

ASSUME ErrorMessageAssumption ==
  /\ Limit \in Nat \ {0}
  /\ MaxFormat \in Nat
  /\ MaxMessage \in Nat

VARIABLES
  format,     \* info.size()
  needed,     \* what snprintf returns for it
  size,       \* res.size()
  written,    \* how many characters of the message are in res
  formatting  \* "idle", "loop", "formatted" (rc is known), "returned"

messageVars == <<format, needed, size, written, formatting>>

MessageInit ==
  /\ format = 0
  /\ needed = 0
  /\ size = 0
  /\ written = 0
  /\ formatting = "idle"

\* An empty format is returned as it is.
FormatMessage(f, n) ==
  /\ formatting = "idle"
  /\ format' = f
  /\ needed' = n
  /\ size' = f * 2
  /\ written' = 0
  /\ formatting' = IF f = 0 THEN "returned" ELSE "loop"

Snprintf ==
  /\ formatting = "loop"
  /\ size < Limit
  /\ written' = IF needed < 0 THEN 0
                ELSE IF needed < size THEN needed ELSE size - 1
  /\ formatting' = "formatted"
  /\ UNCHANGED <<format, needed, size>>

\* Mutant: the terminating zero needs no room.
Fits_Exactly == needed >= 0 /\ needed <= size

Fits == needed >= 0 /\ needed < size

Trim ==
  /\ formatting = "formatted"
  /\ Fits
  /\ size' = needed
  /\ formatting' = "returned"
  /\ UNCHANGED <<format, needed, written>>

Grow ==
  /\ formatting = "formatted"
  /\ ~Fits
  /\ size' = size * 2
  /\ formatting' = "loop"
  /\ UNCHANGED <<format, needed, written>>

GiveUp ==
  /\ formatting = "loop"
  /\ size >= Limit
  /\ formatting' = "returned"
  /\ UNCHANGED <<format, needed, size, written>>

MessageNext ==
  \/ \E f \in 0 .. MaxFormat, n \in -1 .. MaxMessage : FormatMessage(f, n)
  \/ Snprintf
  \/ Trim
  \/ Grow
  \/ GiveUp

MessageSpec == MessageInit /\ [][MessageNext]_messageVars

-----------------------------------------------------------------------------

(* The values of the variables are of their types. *)
MessageTypeOK ==
  /\ format \in Nat
  /\ needed \in Int
  /\ size \in Nat
  /\ written \in Nat
  /\ formatting \in {"idle", "loop", "formatted", "returned"}

Whole == needed >= 0 /\ size = needed /\ written = needed

(***************************************************************************)
(* What is returned is the whole message, of its own length, whenever the  *)
(* message is shorter than half the limit and so is the format; otherwise  *)
(* it is that, or a buffer of at least the limit that is not cut to what   *)
(* was written to it (error.hpp:168-183).                                  *)
(***************************************************************************)
MessageWhole ==
  formatting = "returned" /\ format > 0 =>
    \/ Whole
    \/ /\ size >= Limit
       /\ needed < 0 \/ 2 * needed >= Limit \/ 2 * format >= Limit
=============================================================================
