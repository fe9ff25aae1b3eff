--------------------------- MODULE CodeMotion ---------------------------
(*************************************************************************)
(* What the scheduler promises of any sequence of its steps, however it  *)
(* chooses them: the program `body` of a function `fn` changes only by   *)
(* legal code motion.  reorderBlockWithinRegions and applySchedule are   *)
(* shown to implement this specification.                                *)
(*************************************************************************)
EXTENDS LegalMotion

VARIABLES fn, body

Init == body = fn.body

Next == fn' = fn /\ IsLegalMotion(fn, body, body')

Spec == Init /\ [][Next]_<<fn, body>>
=========================================================================
