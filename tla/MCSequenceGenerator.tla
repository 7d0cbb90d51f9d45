-------------------------- MODULE MCSequenceGenerator --------------------------
(* Small instances of SequenceGenerator for TLC. *)
EXTENDS SequenceGenerator

CONSTANTS a, b, c, x

Call(f) == [type |-> "kCall", to |-> f, static |-> FALSE]
StaticCall(f) == [type |-> "kCall", to |-> f, static |-> TRUE]
Plain(t) == [type |-> t, static |-> FALSE]

Calls == {Call(a), Call(b), Call(c)}

\* Up to two calls, in any order, and what else the loop tells apart.
SmallBodies ==
    {<<>>} \cup {<<m>> : m \in Calls} \cup {<<m, n>> : m \in Calls, n \in Calls}
        \cup {<<Call(b), Plain("kReturn")>>,
              <<StaticCall(c), StaticCall(c)>>,
              <<StaticCall(x), Call(c)>>,
              <<StaticCall(b), Plain("begin"), Call(c), Plain("end")>>,
              <<Plain("begin"), Plain("begin"), Call(a), Plain("kReturn"),
                Plain("end"), Call(b), Plain("end")>>}

Roots == {<<a>>, <<x, b, a>>}
================================================================================
