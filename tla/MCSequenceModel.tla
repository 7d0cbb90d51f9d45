---------------------------- MODULE MCSequenceModel ----------------------------
(* Small instances of SequenceModel for TLC. *)
EXTENDS SequenceModel

CONSTANT MaxMessages    \* bounds the length of the activity

\* The bound leaves room for the ends of the blocks that are open.
BoundedNext == Next /\ Len(messages') + Len(open') <= MaxMessages

BoundedSpec == Init /\ [][BoundedNext]_vars
================================================================================
