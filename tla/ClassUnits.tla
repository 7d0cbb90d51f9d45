------------------------------- MODULE ClassUnits -------------------------------
(***************************************************************************)
(* The model of a class diagram while the translation units are visited,   *)
(* one after the other, each by a visitor of its own. The model is shared, *)
(* what a visitor knows of its unit is not: the ids of the AST, which are  *)
(* valid in one unit only, and the classes that were declared so far but   *)
(* not defined.                                                            *)
(***************************************************************************)
EXTENDS Naturals, Sequences

CONSTANTS Entity,    \* classes and enums
          Outside,   \* of them those should_include(decl) is false for
          Rejected,  \* of them those the filter refuses as elements
          Bases,     \* of each entity the base classes, ...
          Fields,    \* the types of its fields ...
          Params,    \* and the types its methods mention
          NsOf,      \* the namespace an entity is in
          Namespace,
          Directory, \* of the source files
          Top,       \* the root of the tree of packages
          Nowhere,   \* not in the tree
          AstId,     \* ids of declarations in an AST
          Settings   \* configurations and source files

Place == Namespace \cup Directory \cup {Top}

\* What the visitor meets: a namespace, a declaration or a definition of an entity.
Item ==
    [kind : {"namespace"}, ns : Namespace, skip : BOOLEAN]
        \cup [kind : {"entity"}, entity : Entity, def : BOOLEAN, dir : Directory]

Setting ==
    [packages : {"namespace", "directory"},  \* package_type()
     redundant : BOOLEAN,                    \* skip_redundant_dependencies()
     units : Seq(Seq(Item)),
     ids : Seq([Entity -> AstId])]           \* per unit

\* An entity is defined in one place.
DefinedAt(s, e, dir) ==
    \E u \in 1..Len(s.units) : \E k \in 1..Len(s.units[u]) :
        s.units[u][k] = [kind |-> "entity", entity |-> e, def |-> TRUE, dir |-> dir]

ASSUME UnitsAssumption ==
    /\ Outside \subseteq Entity /\ Rejected \subseteq Entity
    /\ Bases \in [Entity -> SUBSET Entity]
    /\ Fields \in [Entity -> SUBSET Entity]
    /\ Params \in [Entity -> SUBSET Entity]
    /\ NsOf \in [Entity -> Namespace \cup {Top}]
    /\ Nowhere \notin Place /\ Top \notin Namespace
    /\ Settings \subseteq Setting
    /\ \A s \in Settings :
          /\ Len(s.ids) = Len(s.units)
          /\ \A e \in Entity, d1, d2 \in Directory :
                DefinedAt(s, e, d1) /\ DefinedAt(s, e, d2) => d1 = d2

VARIABLES setting,
          unit,      \* how many visitors were created so far
          at,        \* the next item of the unit
          idMap,     \* id_map_ of the visitor: pairs of an AST id and an entity
          forward,   \* forward_declarations_: pairs of an entity and a directory
          elements,  \* the element_views: entities in the model
          complete,  \* of them those with complete()
          file,      \* the directory of an element's source file
          place,     \* where an element is in the tree of packages
          added,     \* added_elements_
          packages,  \* the packages in the tree
          rels,      \* relationships() of the elements
          pc

visitor == <<unit, at, idMap, forward>>
model == <<elements, complete, file, place, added, packages, rels>>
vars == <<setting, visitor, model, pc>>

Items == setting.units[unit]
Ids == setting.ids[unit]
InDirectories == setting.packages = "directory"

\* A destination is an id of the AST until finalize() turns it into one of the model.
Ast(id) == [scope |-> "ast", id |-> id]
Uml(e) == [scope |-> "uml", id |-> e]
Rel(from, type, to) == [from |-> from, type |-> type, to |-> to]

Init ==
    /\ setting \in Settings
    /\ unit = 0 /\ at = 1 /\ idMap = {} /\ forward = {}
    /\ elements = {} /\ complete = {} /\ added = {} /\ packages = {} /\ rels = {}
    /\ file = [e \in Entity |-> Nowhere] /\ place = [e \in Entity |-> Nowhere]
    /\ pc = "between"

\* create(): a new visitor for the next unit.
BeginUnit ==
    /\ pc = "between" /\ unit < Len(setting.units)
    /\ unit' = unit + 1 /\ at' = 1 /\ idMap' = {} /\ forward' = {}
    /\ pc' = "visit"
    /\ UNCHANGED <<setting, model>>

Here == Items[at]
Visiting(kind) == pc = "visit" /\ at <= Len(Items) /\ Here.kind = kind

\* VisitNamespaceDecl(): a package, unless packages are directories.
VisitNamespace ==
    /\ Visiting("namespace")
    /\ packages' = IF InDirectories \/ Here.skip THEN packages ELSE packages \cup {Here.ns}
    /\ at' = at + 1
    /\ UNCHANGED <<setting, unit, idMap, forward, elements, complete, file, place, added, rels, pc>>

\* VisitCXXRecordDecl() and the like return before anything is known of the entity.
VisitOutside ==
    /\ Visiting("entity") /\ Here.entity \in Outside
    /\ at' = at + 1
    /\ UNCHANGED <<setting, unit, idMap, forward, model, pc>>

\* create_declaration()
Mapped(e) == {m \in idMap : m.ast # Ids[e]} \cup {[ast |-> Ids[e], entity |-> e]}

VisitDeclaration ==
    /\ Visiting("entity") /\ ~Here.def /\ Here.entity \notin Outside
    /\ LET e == Here.entity IN
       /\ idMap' = Mapped(e)
       /\ forward' = IF \E f \in forward : f.entity = e THEN forward
                     ELSE forward \cup {[entity |-> e, dir |-> Here.dir]}
    /\ at' = at + 1
    /\ UNCHANGED <<setting, unit, model, pc>>

\* diagram::add(): the tree takes an element only into a package that is there
\* (directories are made on the way), added_elements_ remembers it either way.
Fits(e) == InDirectories \/ NsOf[e] \in packages \cup {Top}
PlaceOf(e, dir) == IF InDirectories THEN dir ELSE NsOf[e]

\* process_declaration() and add_or_update(): bases are found by their names, other
\* types by the ids of their declarations.
Declared(e) ==
    {Rel(e, "extension", Uml(b)) : b \in Bases[e]}
        \cup {Rel(e, "association", Ast(Ids[f])) : f \in Fields[e]}
        \cup {Rel(e, "dependency", Ast(Ids[p])) : p \in Params[e]}

Defining(e) ==
    /\ Visiting("entity") /\ Here.def /\ Here.entity = e /\ e \notin Outside
    /\ idMap' = Mapped(e)
    /\ forward' = {f \in forward : f.entity # e}
    /\ at' = at + 1
    /\ UNCHANGED <<setting, unit, pc>>

\* A new element that is refused or has no place is dropped, with what it knew.
DefineNew ==
    LET e == Here.entity IN
    /\ Defining(e) /\ e \notin elements
    /\ IF e \in Rejected \/ e \in added \/ ~Fits(e)
       THEN /\ added' = IF e \in Rejected THEN added ELSE added \cup {e}
            /\ UNCHANGED <<elements, complete, file, place, packages, rels>>
       ELSE /\ added' = added \cup {e}
            /\ elements' = elements \cup {e}
            /\ complete' = complete \cup {e}
            /\ file' = [file EXCEPT ![e] = Here.dir]
            /\ place' = [place EXCEPT ![e] = PlaceOf(e, Here.dir)]
            /\ packages' = IF InDirectories THEN packages \cup {Here.dir} ELSE packages
            /\ rels' = rels \cup Declared(e)

\* A slip: it is completed where the first declaration put it.
DefineAgain_Unmoved ==
    LET e == Here.entity IN
    /\ Defining(e) /\ e \in elements
    /\ complete' = complete \cup {e}
    /\ file' = [file EXCEPT ![e] = IF e \in complete THEN @ ELSE Here.dir]
    /\ rels' = IF e \in complete THEN rels ELSE rels \cup Declared(e)
    /\ UNCHANGED <<elements, added, place, packages>>

\* An element an earlier unit has declared is completed and moved to where it is
\* defined; one that is complete is moved to where it is.
DefineAgain ==
    LET e == Here.entity IN
    /\ Defining(e) /\ e \in elements
    /\ complete' = complete \cup {e}
    /\ file' = [file EXCEPT ![e] = IF e \in complete THEN @ ELSE Here.dir]
    /\ rels' = IF e \in complete THEN rels ELSE rels \cup Declared(e)
    /\ place' = IF InDirectories THEN [place EXCEPT ![e] = file'[e]] ELSE place
    /\ packages' = IF InDirectories THEN packages \cup {file'[e]} ELSE packages
    /\ UNCHANGED <<elements, added>>

--------------------------------------------------------------------------------
(* finalize() of the visitor *)

\* resolve_local_to_global_ids(), of every element of the model.
Resolve(r) ==
    IF r.to.scope = "ast" /\ \E m \in idMap : m.ast = r.to.id
    THEN [r EXCEPT !.to = Uml((CHOOSE m \in idMap : m.ast = r.to.id).entity)]
    ELSE r
Resolved(rs) == {Resolve(r) : r \in rs}

\* remove_redundant_dependencies()
Redundant(r, rs) ==
    /\ r.type = "dependency"
    /\ \/ r.to = Uml(r.from)
       \/ \E o \in rs : o.from = r.from /\ o.to = r.to /\ o.type # "dependency"
\* (A slip: they are removed before the ids are resolved.)
Finalized_Early(rs) ==
    Resolved(IF setting.redundant THEN {r \in rs : ~Redundant(r, rs)} ELSE rs)
Finalized(rs) ==
    LET resolved == Resolved(rs) IN
    IF setting.redundant THEN {r \in resolved : ~Redundant(r, resolved)} ELSE resolved

\* add_incomplete_forward_declarations(); only the namespace is filtered here.
Incomplete == {f \in forward : f.entity \notin elements \cup added}

\* A slip: what a unit only declares is forgotten.
Finalize_Forgets ==
    /\ pc = "visit" /\ at > Len(Items)
    /\ rels' = Finalized(rels)
    /\ pc' = "between"
    /\ UNCHANGED <<setting, visitor, elements, complete, file, place, added, packages>>

Finalize ==
    /\ pc = "visit" /\ at > Len(Items)
    /\ rels' = Finalized(rels)
    /\ LET new == {f \in Incomplete : Fits(f.entity)} IN
       /\ elements' = elements \cup {f.entity : f \in new}
       /\ file' = [e \in Entity |-> IF \E f \in new : f.entity = e
                                    THEN (CHOOSE f \in new : f.entity = e).dir ELSE file[e]]
       /\ place' = [e \in Entity |-> IF \E f \in new : f.entity = e
                                     THEN PlaceOf(e, file'[e]) ELSE place[e]]
       /\ packages' = IF InDirectories THEN packages \cup {f.dir : f \in new} ELSE packages
    /\ added' = added \cup {f.entity : f \in Incomplete}
    /\ forward' = {}
    /\ pc' = "between"
    /\ UNCHANGED <<setting, unit, at, idMap, complete>>

Next ==
    \/ BeginUnit \/ VisitNamespace \/ VisitOutside \/ VisitDeclaration
    \/ DefineNew \/ DefineAgain \/ Finalize

Spec == Init /\ [][Next]_vars

--------------------------------------------------------------------------------
(* Properties. *)

\* Everything the units so far say of an entity, whether it is a definition or not.
Said(e, def) ==
    \E u \in 1..unit : \E k \in 1..Len(setting.units[u]) :
        LET i == setting.units[u][k] IN i.kind = "entity" /\ i.entity = e /\ i.def = def

\* Its namespace was opened before, and not skipped.
Housed(e) ==
    \/ InDirectories \/ NsOf[e] = Top
    \/ \A u \in 1..unit : \E k \in 1..Len(setting.units[u]) :
          /\ setting.units[u][k] = [kind |-> "namespace", ns |-> NsOf[e], skip |-> FALSE]
          /\ \A j \in 1..k : setting.units[u][j].kind = "entity"
                                => setting.units[u][j].entity # e

Due == {e \in Entity \ (Outside \cup Rejected) : Housed(e)}

TypeOK ==
    /\ setting \in Settings
    /\ unit \in 0..Len(setting.units) /\ at \in Nat
    /\ idMap \subseteq [ast : AstId, entity : Entity]
    /\ forward \subseteq [entity : Entity, dir : Directory]
    /\ complete \subseteq elements /\ elements \subseteq added /\ added \subseteq Entity
    /\ file \in [Entity -> Directory \cup {Nowhere}]
    /\ place \in [Entity -> Place \cup {Nowhere}]
    /\ packages \subseteq Place
    /\ pc \in {"between", "visit"}

\* After every unit the model has what the units so far declare, complete when one of
\* them defines it, in whatever order and however often they do.
ModelIsUnion ==
    pc = "between" =>
        \A e \in Due :
            /\ e \in elements <=> Said(e, FALSE) \/ Said(e, TRUE)
            /\ e \in complete <=> Said(e, TRUE)

\* What is defined is found in the package of its definition, not of the declaration
\* that was met first; and the package is there.
InPackageOfDefinition ==
    \A e \in elements :
        /\ place[e] \in packages \cup {Top}
        /\ ~InDirectories => place[e] = NsOf[e]
        /\ InDirectories /\ e \in complete => DefinedAt(setting, e, place[e])

\* No relationship leads to an entity that the definition does not mention there.
RelationshipsAreDeclared ==
    \A r \in rels : r.to.scope = "uml" =>
        CASE r.type = "extension"   -> r.to.id \in Bases[r.from]
          [] r.type = "association" -> r.to.id \in Fields[r.from]
          [] r.type = "dependency"  -> r.to.id \in Params[r.from]

\* After every unit the relationships are the declared ones, with the ids of the model
\* for every entity that may be in it, and none that another one makes redundant.
RelationshipsAreExact ==
    /\ RelationshipsAreDeclared
    /\ pc = "between" =>
          \A e \in complete :
              /\ \A b \in Bases[e] : Rel(e, "extension", Uml(b)) \in rels
              /\ \A f \in Fields[e] \ Outside : Rel(e, "association", Uml(f)) \in rels
              /\ \A p \in Params[e] \ Outside :
                    Rel(e, "dependency", Uml(p)) \in rels
                        <=> ~(setting.redundant
                                /\ (p = e \/ p \in Bases[e] \cup Fields[e]))
================================================================================
