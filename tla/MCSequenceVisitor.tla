--------------------------- MODULE MCSequenceVisitor ---------------------------
(* Small instances of SequenceVisitor and VisitorActivities for TLC. *)
EXTENDS VisitorActivities
================================================================================
