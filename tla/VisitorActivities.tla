-------------------------- MODULE VisitorActivities --------------------------
(***************************************************************************)
(* Every activity that SequenceVisitor fills, the one of the function and  *)
(* those of its lambdas, implements SequenceModel.                         *)
(***************************************************************************)
EXTENDS SequenceVisitor

VARIABLE of     \* the activity that is looked at, any of them, all the time

LookInit == Init /\ of \in Activity
LookNext == Next /\ UNCHANGED of
LookSpec == LookInit /\ [][LookNext]_<<vars, of>>

\* The frames of a walk that are in a block of an activity.
BlocksOf(w, a) == {k \in DOMAIN w : w[k].begin > 0 /\ w[k].caller = a}

Nth(set, j) == CHOOSE k \in set : Cardinality({i \in set : i <= k}) = j

\* The blocks of an activity that are open, outermost first, also those that go
\* on around a lambda which records elsewhere.
OpenIn(w, a) ==
    [j \in 1..Cardinality(BlocksOf(w, a)) |->
        LET f == w[Nth(BlocksOf(w, a), j)]
        IN [type |-> f.block, begin |-> f.begin]]

Model ==
    INSTANCE SequenceModel WITH
        messages <- messages[of],
        open <- OpenIn(walk, of),
        Block <- BeginTypes, Plain <- PlainTypes,
        Place <- Node

\* Each activity goes through a behaviour of SequenceModel: what the traversal
\* calls, in whatever nesting, ends the innermost block of the activity it was
\* begun in, puts labels into switches only, and finalizes what has no block open.
\* (It is Model!Spec; what leaves the activity alone is asked first.)
ImplementsSequenceModel ==
    Model!Init /\ [][UNCHANGED Model!vars \/ Model!Next]_<<vars, of>>
================================================================================
