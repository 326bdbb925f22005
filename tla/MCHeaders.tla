----------------------------- MODULE MCHeaders -----------------------------
(***************************************************************************)
(* ZnxHeaders with periods shorter and longer than the clamp allows, in    *)
(* which the target meets the ceiling, and halvings down to zero.          *)
(***************************************************************************)
EXTENDS ZnxHeaders

MCSubsidySchedule == <<5, 6>>
=============================================================================
