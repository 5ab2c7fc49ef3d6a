----------------------------- MODULE MCSession -----------------------------
(***************************************************************************)
(* An instance of Session for TLC: one subject, who owns one of the two    *)
(* resources; the other is somebody else's.                                *)
(***************************************************************************)
EXTENDS Session

CONSTANTS u1, someoneElse

MCUsers == {u1}
MCResources == {"own", "foreign"}
MCOwner == [x \in MCResources |->
              IF x = "own" THEN u1 ELSE someoneElse]
=============================================================================
