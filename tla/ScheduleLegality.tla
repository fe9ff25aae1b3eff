------------------------ MODULE ScheduleLegality ------------------------
(*************************************************************************)
(* reorderBlockWithinRegions() of scheduleLegality.hpp: the reordering   *)
(* of one block, as a function of its instruction sequence.              *)
(*************************************************************************)
EXTENDS IR

(* The maximal run of non-anchors around position p of the block s.      *)
Region(fn, s, p) ==
    {q \in 1..Len(s) :
        \A r \in 1..Len(s) :
            (p <= r /\ r <= q) \/ (q <= r /\ r <= p) => ~isSchedulingAnchor(fn, s[r])}

(* Faults: a region is reordered though part of it was not scheduled; a   *)
(* block is reordered as if it were one region.                          *)
reorder_Incomplete(fn, schedule, s) ==
    [p \in 1..Len(s) |->
        LET region  == Region(fn, s, p)
            ordered == Among(schedule, {s[q] : q \in region})
        IN  IF region /= {} /\ Max(region) < Len(s) /\ p - Min(region) < Len(ordered)
            THEN ordered[p - Min(region) + 1]
            ELSE s[p]]

reorder_AcrossAnchors(fn, schedule, s) ==
    LET free    == {q \in 1..Len(s) : ~isSchedulingAnchor(fn, s[q])}
        ordered == Among(schedule, {s[q] : q \in free})
    IN  [p \in 1..Len(s) |->
            IF p \in free /\ Len(ordered) = Cardinality(free)
            THEN ordered[Cardinality({q \in free : q <= p})]
            ELSE s[p]]

(* Each region takes the order of the schedule if the schedule lists all *)
(* of it and an anchor follows it; anchors keep their positions.  (The   *)
(* code also drops repetitions; listSchedule emits none.)                *)
reorderBlockWithinRegions(fn, schedule, s) ==
    [p \in 1..Len(s) |->
        IF isSchedulingAnchor(fn, s[p])
        THEN s[p]
        ELSE LET region  == Region(fn, s, p)
                 ordered == Among(schedule, {s[q] : q \in region})
             IN  IF Len(ordered) = Cardinality(region) /\ Max(region) < Len(s)
                 THEN ordered[p - Min(region) + 1]
                 ELSE s[p]]
=========================================================================
