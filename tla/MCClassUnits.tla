------------------------------ MODULE MCClassUnits ------------------------------
(* Instances of ClassUnits for TLC: two units of a few declarations each. *)
EXTENDS ClassUnits, TLC

CONSTANTS A, B, E, R, X, n, src, inc, top, nowhere

\* A derives from B, has an E, an R, which the filter refuses, and an X, which is not
\* looked at; its methods mention B, E and A itself.
MCBases == [e \in Entity |-> IF e = A THEN {B} ELSE {}]
MCFields == [e \in Entity |-> IF e = A THEN {E, R, X} ELSE IF e = B THEN {A} ELSE {}]
MCParams == [e \in Entity |-> IF e = A THEN {A, B, E} ELSE IF e = B THEN {E} ELSE {}]
MCNsOf == [e \in Entity |-> IF e \in {A, E} THEN n ELSE top]

Ns == [kind |-> "namespace", ns |-> n, skip |-> FALSE]
Skipped == [kind |-> "namespace", ns |-> n, skip |-> TRUE]
Decl(e, dir) == [kind |-> "entity", entity |-> e, def |-> FALSE, dir |-> dir]
Def(e, dir) == [kind |-> "entity", entity |-> e, def |-> TRUE, dir |-> dir]

\* What a definition mentions is declared before.
Sources ==
    { <<Ns, Decl(A, inc), Decl(R, src)>>,
      <<Ns, Decl(X, inc), Decl(E, inc), Decl(A, inc), Decl(A, src)>>,
      <<Skipped, Decl(E, inc), Decl(A, inc), Def(B, src)>>,
      <<Ns, Def(X, inc), Def(R, inc), Decl(E, src), Def(E, inc), Decl(A, inc),
        Def(B, src), Def(A, src)>>,
      <<Def(R, inc), Ns, Def(E, inc), Decl(B, inc), Def(X, inc), Decl(A, inc), Def(B, src),
        Decl(A, inc)>> }

\* No id is used twice.
Own(k) == (A :> 10 * k + 1) @@ (B :> 10 * k + 2) @@ (E :> 10 * k + 3)
              @@ (R :> 10 * k + 4) @@ (X :> 10 * k + 5)

MCAstId == 1..35

MCSettings ==
    {[packages |-> p, redundant |-> r, units |-> u, ids |-> [k \in 1..Len(u) |-> Own(k)]] :
        p \in {"namespace", "directory"}, r \in BOOLEAN,
        u \in [1..3 -> Sources]}

\* In the first unit X has the id which in the second one B has.
SharedIds ==
    {[packages |-> "namespace", redundant |-> FALSE, units |-> <<u, v>>,
      ids |-> <<(A :> 1) @@ (B :> 2) @@ (E :> 3) @@ (X :> 4) @@ (R :> 5),
                (A :> 1) @@ (B :> 4) @@ (E :> 3) @@ (X :> 2) @@ (R :> 5)>>] :
        u \in Sources, v \in Sources}
================================================================================
