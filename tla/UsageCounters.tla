----------------------------------- MODULE UsageCounters -----------------------------------
(***************************************************************************)
(* The counters of electric and heating usage: what an observation, a       *)
(* removal, an upload's acknowledgement and a reset of the platform do to a *)
(* tracker (src/src/electricUsage.js, src/src/heatingUsage.js).             *)
(*                                                                          *)
(* Seconds are counted in units the model chooses; an entry's two epochs,   *)
(* which createEntry draws together, are one number, and 0 for the boiler,  *)
(* whose entry has none.                                                    *)
(***************************************************************************)
EXTENDS Naturals, FiniteSets

CONSTANTS
  UnknownGap,     \* electricUsage: UNKNOWN_GAP_SECONDS, in units
  MaxInterval,    \* MAX_INTERVAL_SECONDS, in units
  MaxTracked      \* maxTrackedEntities

ASSUME UsageAssumption == {UnknownGap, MaxInterval, MaxTracked} \subseteq Nat

Values == {"on", "off", "unknown"}
Zero == [v \in Values |-> 0]
NoArea == 0
Tracker == [live |-> {}, pending |-> {}, reset |-> 0, ack |-> 0]

Entry(lamp, area, value, epoch) ==
  [lamp |-> lamp, area |-> area, seconds |-> Zero, was |-> value,
   retired |-> FALSE, dirty |-> TRUE, epoch |-> epoch]

\* The seconds since the last observation go to what the lamp was then; a gap
\* that is too long to trust goes to unknown.
Accrued(e, elapsed) ==
  LET seconds == IF elapsed < MaxInterval THEN elapsed ELSE MaxInterval
      value == IF seconds > UnknownGap THEN "unknown" ELSE e.was
  IN [e EXCEPT !.seconds[value] = @ + seconds]

Of(T, lamp) == {e \in T.live : e.lamp = lamp}

\* A lamp is seen: a new one is tracked while there is room, one that moved to
\* another area starts a new segment, and the old one waits for its upload.
Observed(T, lamp, area, value, elapsed, epoch) ==
  LET old == Of(T, lamp)
      moved == {e \in old : e.area # area /\ ~e.retired}
      kept == {[Accrued(e, elapsed) EXCEPT !.area = area, !.was = value, !.retired = FALSE, !.dirty = TRUE]
                 : e \in old \ moved}
      new == IF moved # {} \/ (old = {} /\ Cardinality(T.live) < MaxTracked)
             THEN {Entry(lamp, area, value, epoch)} ELSE {}
  IN [T EXCEPT !.live = (@ \ old) \cup kept \cup new,
               !.pending = @ \cup {[Accrued(e, elapsed) EXCEPT !.retired = TRUE, !.dirty = TRUE] : e \in moved}]

\* A lamp is no lamp any more, or its device is removed.
Retired(T, lamp, elapsed) ==
  LET gone == {e \in Of(T, lamp) : ~e.retired}
  IN [T EXCEPT !.live = (@ \ gone) \cup {[Accrued(e, elapsed) EXCEPT !.retired = TRUE, !.dirty = TRUE] : e \in gone}]

\* The boiler: one entry, no epoch and no area; a gap is not unknown.
Heated(T, boiler, value, elapsed) ==
  LET old == Of(T, boiler)
      seconds == IF elapsed < MaxInterval THEN elapsed ELSE MaxInterval
  IN [T EXCEPT !.live = (@ \ old) \cup
        (IF old = {} THEN {Entry(boiler, NoArea, value, 0)}
         ELSE {[e EXCEPT !.seconds[e.was] = @ + seconds, !.was = value, !.dirty = TRUE] : e \in old})]

\* The rows of an upload.
Payload(T) == {[epoch |-> e.epoch, lamp |-> e.lamp, seconds |-> e.seconds] : e \in {x \in T.live \cup T.pending : x.dirty}}

Key(r) == <<r.lamp, r.epoch>>
InRows(e, rows) == Key(e) \in {Key(r) : r \in rows}

\* Faulty variant: every finished segment is taken for uploaded.
AcknowledgedAll(T, rows) ==
  [T EXCEPT !.pending = {}, !.live = {IF InRows(e, rows) THEN [e EXCEPT !.dirty = FALSE] ELSE e : e \in @}]

\* acknowledgeUploaded: what the platform has is removed, or clean again.
Acknowledged(T, rows) ==
  LET done == {e \in T.live \cup T.pending : e.dirty /\ InRows(e, rows)}
  IN [T EXCEPT !.pending = @ \ done,
               !.live = (@ \ done) \cup {[e EXCEPT !.dirty = FALSE] : e \in {x \in T.live \cap done : ~x.retired}}]

\* What acknowledging these rows clears although it is more than they held.
Cleared(T, rows) ==
  {e.epoch : e \in {x \in T.live \cup T.pending :
     x.dirty /\ InRows(x, rows) /\ \A r \in rows : Key(r) = Key(x) => r.seconds # x.seconds}}

\* The platform's reset empties the tracker, once; the acknowledgement waits.
ResetApplied(T, reset) ==
  IF reset # 0 /\ reset # T.reset THEN [Tracker EXCEPT !.reset = reset, !.ack = reset] ELSE T

ResetAcknowledged(T, reset) == IF reset # 0 /\ T.ack = reset THEN [T EXCEPT !.ack = 0] ELSE T
=============================================================================
