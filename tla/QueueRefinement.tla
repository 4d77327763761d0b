--------------------------- MODULE QueueRefinement ---------------------------
(***************************************************************************)
(* The supervisor endpoints as an implementation of ReviewItem: a change   *)
(* takes effect with its COMMIT, although it was computed from the row     *)
(* loaded before and is written column by column.                          *)
(***************************************************************************)
EXTENDS ApprovalQueue

StageOf(c) ==
    CASE pc[c] = "idle"                -> "new"
      [] pc[c] = "load"                -> "asked"
      [] pc[c] \in {"flush", "commit"} -> "open"
      [] pc[c] = "audit"               -> "effective"
      [] OTHER                         -> "over"

Item == INSTANCE ReviewItem WITH
    item  <- row,
    seen  <- loaded,
    stage <- [c \in Calls |-> StageOf(c)],
    log   <- audit

\* However the calls of several supervisors interleave and fail, each change takes
\* effect at once or not at all, an edit and a decision never undo each other, and a
\* decision is torn only by another one that it did not see.
ImplementsReviewItem == Item!Spec
=============================================================================
