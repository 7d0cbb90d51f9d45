------------------------------ MODULE MCClangTool ------------------------------
(* Small instances of ClangTool for TLC. *)
EXTENDS ClangTool, TLC

CONSTANTS home, lib, app, d1, d2, d3

Directories == {home, lib, app}

\* Makefile generators: each command runs in the build directory of its target.
PerTarget == (d1 :> <<lib, app>> @@ d2 :> <<app>> @@ d3 :> <<app, lib>>)

\* Every command runs where clang-uml was started.
InPlace == (d1 :> <<home, home>> @@ d2 :> <<home>> @@ d3 :> <<home, home>>)

Started(dirs, threads, relative, throws) ==
    [dirs |-> dirs, threads |-> threads, relative |-> relative, throws |-> throws]

\* One thread and no exception; or commands that all run in one place.
Safe == {Started(PerTarget, 1, TRUE, FALSE), Started(InPlace, 2, TRUE, TRUE)}

Parallel == {Started(PerTarget, 2, TRUE, FALSE)}
================================================================================
