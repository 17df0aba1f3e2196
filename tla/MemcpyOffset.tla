---------------------------- MODULE MemcpyOffset ----------------------------
(***************************************************************************)
(* memcpy_offset() (include/cor/util.h:46-61): which bytes a call copies,  *)
(* from where in src and to where in dst.  Sizes are of type size_t, whose *)
(* additions are modulo SizeValues.                                        *)
(***************************************************************************)
EXTENDS Integers

CONSTANTS SizeValues,  \* the number of values of a size_t
          MaxSize      \* bound: lengths and offsets, in bytes

VARIABLES
  buffers,   \* [dst, src: is there one at all?]
  len, off, src_len,
  copied,    \* bytes written, from dst on
  first,     \* the first byte of src they are read from
  rc         \* "none", "EINVAL" or "copied"

memcpyVars == <<buffers, len, off, src_len, copied, first, rc>>

MemcpyInit ==
  /\ buffers \in [dst : BOOLEAN, src : BOOLEAN]
  /\ len \in 0 .. MaxSize
  /\ off \in 0 .. MaxSize
  /\ src_len \in 0 .. MaxSize
  /\ copied = 0
  /\ first = 0
  /\ rc = "none"

Rejected == ~buffers.dst \/ ~buffers.src \/ off >= src_len

ActualLen ==
  LET rest == src_len - off
      room == (len + off) % SizeValues
  IN  IF rest < room THEN rest ELSE room

MemcpyReturn ==
  /\ rc = "none"
  /\ IF Rejected
       THEN rc' = "EINVAL" /\ UNCHANGED <<copied, first>>
       ELSE rc' = "copied" /\ copied' = ActualLen /\ first' = off
  /\ UNCHANGED <<buffers, len, off, src_len>>

MemcpySpec == MemcpyInit /\ [][MemcpyReturn]_memcpyVars

-----------------------------------------------------------------------------

(***************************************************************************)
(* What the comment of the function says of every call: it writes no more  *)
(* than len bytes (util.h:46-50; the code bounds them by len + off).       *)
(***************************************************************************)
NoMoreThanLen == copied <= len
=============================================================================
