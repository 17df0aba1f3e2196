----------------------------- MODULE MCOwners ------------------------------
(***************************************************************************)
(* The owners of resources of the system, side by side: a behaviour is one *)
(* of one of them (subject), the others stay as they are, so that the      *)
(* states of the four add up and do not multiply.                          *)
(***************************************************************************)
EXTENDS Handles, SharedLib, Watch, ScopeExit

VARIABLE subject

ownersVars == <<subject, handleVars, libVars, watchVars, guardVars>>

OwnersInit ==
  /\ subject \in {"handle", "lib", "watch", "guard"}
  /\ HandlesInit
  /\ LibInit
  /\ WatchInit
  /\ GuardInit

OwnersNext ==
  /\ UNCHANGED subject
  /\ \/ /\ subject = "handle" /\ HandlesNext
        /\ UNCHANGED <<libVars, watchVars, guardVars>>
     \/ /\ subject = "lib" /\ LibNext
        /\ UNCHANGED <<handleVars, watchVars, guardVars>>
     \/ /\ subject = "watch" /\ WatchNext
        /\ UNCHANGED <<handleVars, libVars, guardVars>>
     \/ /\ subject = "guard" /\ GuardNext
        /\ UNCHANGED <<handleVars, libVars, watchVars>>

OwnersSpec == OwnersInit /\ [][OwnersNext]_ownersVars

(* The values of the variables of all the owners are of their types. *)
OwnersTypeOK == HandlesTypeOK /\ LibTypeOK /\ WatchTypeOK /\ GuardTypeOK
=============================================================================
