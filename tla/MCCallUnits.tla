------------------------------- MODULE MCCallUnits -------------------------------
(***************************************************************************)
(* Four functions in two units, each defined in one of them or, in a       *)
(* header, in both; a second lambda stands where the first one does.       *)
(***************************************************************************)
EXTENDS CallUnits, SequencesExt

CONSTANTS main, mid, target, lambda, inner

MCFunction == {main, mid, target, lambda, inner}
MCMethod == {target, lambda, inner}
MCLambda == {lambda, inner}

Program(m, d, t, l, i) ==
    [x \in MCFunction |-> CASE x = main -> m [] x = mid -> d [] x = target -> t
                            [] x = lambda -> l [] x = inner -> i]

\* Sharing, recursion, mutual recursion, a recursive target, calls from lambdas and of
\* a lambda by another one.
MCPrograms ==
    {Program({mid, target}, {target}, {}, {}, {}),
     Program({mid}, {main, target}, {}, {}, {}),
     Program({mid}, {mid, target}, {target}, {}, {}),
     Program({mid}, {target}, {mid}, {}, {}),
     Program({lambda}, {target}, {}, {mid, target}, {}),
     Program({mid}, {lambda, target}, {}, {mid}, {}),
     Program({mid}, {}, {lambda}, {mid}, {}),
     Program({lambda, inner}, {}, {}, {target, inner}, {mid}),
     Program({mid}, {lambda}, {}, {inner}, {target})}

Orders == {<<main, mid, target, lambda, inner>>, <<inner, lambda, target, mid, main>>}

\* All of a unit is declared, before or after the definitions.
Unit(home, u, order, declared) ==
    LET defs == SelectSeq(order, LAMBDA x : u \in home[x])
        decls == [i \in 1..Len(order) |-> [fn |-> order[i], def |-> FALSE]]
        bodies == [i \in 1..Len(defs) |-> [fn |-> defs[i], def |-> TRUE]]
    IN  IF declared = "before" THEN decls \o bodies ELSE bodies \o decls

MCSettings ==
    {[inline |-> inline, calls |-> calls,
      units |-> <<Unit(home, 1, order, declared), Unit(home, 2, order, declared)>>] :
        inline \in BOOLEAN, calls \in MCPrograms,
        home \in {h \in [MCFunction -> {{1}, {2}, {1, 2}}] : h[inner] = h[lambda]},
        order \in Orders, declared \in {"before", "after"}}
=============================================================================
