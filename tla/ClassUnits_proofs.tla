---------------------------- MODULE ClassUnits_proofs ----------------------------
(***************************************************************************)
(* The model of a class diagram, for any entities and any units: what is   *)
(* defined ends in the package of its definition, the model is the union   *)
(* of what the units so far said, and relationships lead only where a      *)
(* definition says, when no id of an AST stands for two entities; they     *)
(* are exact, when a unit also declares what its definitions mention.      *)
(* The run class_foreign_ids shows that the first condition is needed.     *)
(***************************************************************************)
EXTENDS ClassUnits, TLAPS

\* A visitor is at an item of a unit.
AtItem == pc = "visit" => unit > 0 /\ at > 0

\* An element is in its namespace, or in the directory of its file; and its file is
\* that of a definition as soon as there is one.
PlacedByFile ==
    \A e \in elements :
        /\ place[e] = IF InDirectories THEN file[e] ELSE NsOf[e]
        /\ place[e] \in packages \cup {Top}

FileOfDefinition == \A e \in complete : DefinedAt(setting, e, file[e])

PlaceInv == TypeOK /\ AtItem /\ PlacedByFile /\ FileOfDefinition

\* No id stands for two entities, be it in one unit or in two.
IdsTellEntities ==
    \A s \in Settings : \A u, v \in 1..Len(s.ids) : \A e, f \in Entity :
        s.ids[u][e] = s.ids[v][f] => e = f

\* A visitor knows ids of its own unit only.
OwnIds == \A m \in idMap : unit > 0 /\ m.ast = Ids[m.entity]

\* What the definition of e mentions, by the kind of relationship it becomes.
Mentions(e, type) ==
    CASE type = "extension" -> Bases[e]
      [] type = "association" -> Fields[e]
      [] type = "dependency" -> Params[e]

\* A destination is an entity mentioned there, or its id in some unit so far.
Traced(r) ==
    \E e \in Entity, type \in {"extension", "association", "dependency"} :
        \E f \in Mentions(e, type) :
            \/ r = Rel(e, type, Uml(f))
            \/ \E u \in 1..unit : r = Rel(e, type, Ast(setting.ids[u][f]))

RelInv == PlaceInv /\ OwnIds /\ \A r \in rels : Traced(r)
--------------------------------------------------------------------------------
\* The initial state satisfies both invariants.
LEMMA InitPlaceInv == Init => PlaceInv /\ OwnIds /\ rels = {}
  BY UnitsAssumption
     DEF Init, PlaceInv, TypeOK, AtItem, PlacedByFile, FileOfDefinition, OwnIds, Place,
         Setting

\* What a visitor can be at.
LEMMA ItemHere ==
    ASSUME PlaceInv, NEW kind, Visiting(kind)
    PROVE  /\ unit \in 1..Len(setting.units) /\ at \in 1..Len(Items)
           /\ Here \in Item /\ Here.kind = kind
<1>1. setting \in Setting
  BY UnitsAssumption DEF PlaceInv, TypeOK
<1>2. unit \in 1..Len(setting.units) /\ at \in 1..Len(Items)
  BY <1>1 DEF PlaceInv, TypeOK, AtItem, Visiting, Setting, Items
<1>3. setting.units \in Seq(Seq(Item))
  BY <1>1 DEF Setting
<1>4. Items \in Seq(Item)
  BY <1>2, <1>3 DEF Items
<1> QED
  BY <1>2, <1>4 DEF Here, Visiting

\* A namespace met is one.
LEMMA NamespaceHere ==
    ASSUME PlaceInv, Visiting("namespace")
    PROVE  Here.ns \in Namespace
  BY ItemHere DEF Item

\* A definition is one by DefinedAt, too.
LEMMA EntityHere ==
    ASSUME PlaceInv, Visiting("entity")
    PROVE  /\ Here.entity \in Entity /\ Here.dir \in Directory
           /\ Here.def => DefinedAt(setting, Here.entity, Here.dir)
<1>1. /\ unit \in 1..Len(setting.units) /\ at \in 1..Len(Items)
      /\ Here \in [kind : {"entity"}, entity : Entity, def : BOOLEAN, dir : Directory]
  BY ItemHere DEF Item
<1>2. ASSUME Here.def
      PROVE  Here = [kind |-> "entity", entity |-> Here.entity, def |-> TRUE,
                     dir |-> Here.dir]
  BY <1>1, <1>2
<1>3. Here.def => DefinedAt(setting, Here.entity, Here.dir)
  BY <1>1, <1>2 DEF DefinedAt, Here, Items
<1> QED
  BY <1>1, <1>3

\* A definition is in a directory.
LEMMA DefinedInDirectory ==
    ASSUME TypeOK, NEW e, NEW dir, DefinedAt(setting, e, dir)
    PROVE  dir \in Directory
<1>1. setting.units \in Seq(Seq(Item))
  BY UnitsAssumption DEF TypeOK, Setting
<1>2. PICK u \in 1..Len(setting.units) : \E k \in 1..Len(setting.units[u]) :
          setting.units[u][k] =
              [kind |-> "entity", entity |-> e, def |-> TRUE, dir |-> dir]
  BY DEF DefinedAt
<1>3. setting.units[u] \in Seq(Item)
  BY <1>1
<1>4. [kind |-> "entity", entity |-> e, def |-> TRUE, dir |-> dir] \in Item
  BY <1>2, <1>3
<1> QED
  BY <1>4 DEF Item

\* The ids a unit gives its entities.
LEMMA IdsHere ==
    ASSUME TypeOK, unit > 0
    PROVE  unit \in 1..Len(setting.ids) /\ Ids \in [Entity -> AstId]
  BY UnitsAssumption DEF TypeOK, Setting, Ids

\* idMap with the entity at hand.
LEMMA MapGrows ==
    ASSUME TypeOK, OwnIds, unit > 0, NEW e \in Entity, idMap' = Mapped(e),
           UNCHANGED <<setting, unit>>
    PROVE  idMap' \subseteq [ast : AstId, entity : Entity] /\ OwnIds'
  BY IdsHere DEF TypeOK, OwnIds, Mapped, Ids
--------------------------------------------------------------------------------
\* BeginUnit: a new visitor knows no ids.
LEMMA BeginUnitStep ==
    ASSUME PlaceInv, BeginUnit
    PROVE  PlaceInv' /\ OwnIds'
<1> USE DEF PlaceInv, BeginUnit
<1>1. UNCHANGED <<setting, elements, complete, file, place, added, packages, rels>>
  BY DEF model
<1>2. TypeOK'
  BY <1>1, UnitsAssumption DEF TypeOK, Setting
<1>3. AtItem'
  BY DEF AtItem, TypeOK
<1>4. PlacedByFile' /\ FileOfDefinition'
  BY <1>1 DEF PlacedByFile, FileOfDefinition, InDirectories
<1>5. OwnIds'
  BY DEF OwnIds
<1> QED
  BY <1>2, <1>3, <1>4, <1>5

\* VisitNamespace: packages are only ever added.
LEMMA VisitNamespaceStep ==
    ASSUME PlaceInv, OwnIds, VisitNamespace
    PROVE  PlaceInv' /\ OwnIds'
<1> USE DEF PlaceInv, VisitNamespace
<1>1. Here.ns \in Namespace
  BY NamespaceHere
<1>2. packages \subseteq packages' /\ packages' \subseteq Place
  BY <1>1 DEF TypeOK, Place
<1>3. TypeOK'
  BY <1>2 DEF TypeOK
<1>4. AtItem'
  BY DEF AtItem, TypeOK, Visiting
<1>5. PlacedByFile' /\ FileOfDefinition'
  BY <1>2 DEF PlacedByFile, FileOfDefinition, InDirectories
<1>6. OwnIds'
  BY DEF OwnIds, Ids
<1> QED
  BY <1>3, <1>4, <1>5, <1>6

\* Items that leave the model as it is.
LEMMA VisitOtherStep ==
    ASSUME PlaceInv, OwnIds, VisitOutside \/ VisitDeclaration
    PROVE  PlaceInv' /\ OwnIds'
<1> USE DEF PlaceInv, VisitOutside, VisitDeclaration
<1>1. /\ Visiting("entity") /\ at' = at + 1
      /\ UNCHANGED <<setting, unit, pc, elements, complete, file, place, added,
                     packages, rels>>
  BY DEF model
<1>2. Here.entity \in Entity /\ Here.dir \in Directory /\ unit > 0
  BY <1>1, EntityHere, ItemHere
<1>3. idMap' = idMap \/ idMap' = Mapped(Here.entity)
  OBVIOUS
<1>4. idMap' \subseteq [ast : AstId, entity : Entity] /\ OwnIds'
  <2>1. CASE idMap' = idMap
    BY <1>1, <2>1 DEF TypeOK, OwnIds, Ids
  <2>2. CASE idMap' = Mapped(Here.entity)
    BY <1>1, <1>2, <2>2, MapGrows
  <2> QED
    BY <1>3, <2>1, <2>2
<1>5. forward' \subseteq [entity : Entity, dir : Directory]
  BY <1>2 DEF TypeOK
<1>6. TypeOK'
  BY <1>1, <1>4, <1>5 DEF TypeOK
<1>7. AtItem'
  BY <1>1 DEF AtItem, TypeOK
<1>8. PlacedByFile' /\ FileOfDefinition'
  BY <1>1 DEF PlacedByFile, FileOfDefinition, InDirectories
<1> QED
  BY <1>4, <1>6, <1>7, <1>8

\* What both kinds of definition have in common.
LEMMA DefiningKeeps ==
    ASSUME PlaceInv, OwnIds, NEW e, Here.entity = e, Defining(e)
    PROVE  /\ e \in Entity /\ Here.dir \in Directory
           /\ DefinedAt(setting, e, Here.dir)
           /\ at' \in Nat /\ AtItem' /\ OwnIds'
           /\ idMap' \subseteq [ast : AstId, entity : Entity]
           /\ forward' \subseteq [entity : Entity, dir : Directory]
           /\ UNCHANGED <<setting, unit, pc>>
<1>1. /\ Visiting("entity") /\ at' = at + 1 /\ Here.def
      /\ UNCHANGED <<setting, unit, pc>>
  BY DEF Defining
<1>2. /\ e \in Entity /\ Here.dir \in Directory /\ unit > 0
      /\ DefinedAt(setting, e, Here.dir)
  BY <1>1, EntityHere, ItemHere
<1>3. idMap' \subseteq [ast : AstId, entity : Entity] /\ OwnIds'
  BY <1>1, <1>2, MapGrows DEF Defining, PlaceInv
<1>4. forward' \subseteq [entity : Entity, dir : Directory]
  BY DEF Defining, PlaceInv, TypeOK
<1>5. at' \in Nat /\ AtItem'
  BY <1>1 DEF PlaceInv, TypeOK, AtItem
<1> QED
  BY <1>1, <1>2, <1>3, <1>4, <1>5

\* DefineNew: a package is there for what the tree takes.
LEMMA DefineNewStep ==
    ASSUME PlaceInv, OwnIds, DefineNew
    PROVE  PlaceInv' /\ OwnIds'
<1> DEFINE e == Here.entity
<1>1. /\ e \in Entity /\ Here.dir \in Directory
      /\ DefinedAt(setting, e, Here.dir)
      /\ at' \in Nat /\ AtItem' /\ OwnIds'
      /\ idMap' \subseteq [ast : AstId, entity : Entity]
      /\ forward' \subseteq [entity : Entity, dir : Directory]
      /\ UNCHANGED <<setting, unit, pc>>
  BY DefiningKeeps DEF DefineNew
<1>2. /\ file \in [Entity -> Directory \cup {Nowhere}]
      /\ place \in [Entity -> Place \cup {Nowhere}]
      /\ packages \subseteq Place
      /\ complete \subseteq elements /\ elements \subseteq added /\ added \subseteq Entity
  BY DEF PlaceInv, TypeOK
<1>3. CASE /\ added' = added \/ added' = added \cup {e}
           /\ UNCHANGED <<elements, complete, file, place, packages>>
  <2>1. TypeOK'
    BY <1>1, <1>3 DEF PlaceInv, TypeOK
  <2>2. PlacedByFile' /\ FileOfDefinition'
    BY <1>1, <1>3 DEF PlaceInv, PlacedByFile, FileOfDefinition, InDirectories
  <2> QED
    BY <1>1, <2>1, <2>2 DEF PlaceInv
<1>4. CASE /\ e \notin elements /\ Fits(e)
           /\ added' = added \cup {e}
           /\ elements' = elements \cup {e}
           /\ complete' = complete \cup {e}
           /\ file' = [file EXCEPT ![e] = Here.dir]
           /\ place' = [place EXCEPT ![e] = PlaceOf(e, Here.dir)]
           /\ packages' = IF InDirectories THEN packages \cup {Here.dir} ELSE packages
  <2>1. /\ PlaceOf(e, Here.dir) \in Place
        /\ PlaceOf(e, Here.dir) = IF InDirectories THEN Here.dir ELSE NsOf[e]
    BY <1>1, UnitsAssumption DEF PlaceOf, Place
  <2>2. packages \subseteq packages' /\ packages' \subseteq Place
    BY <1>1, <1>2, <1>4 DEF Place
  <2>3. /\ file' \in [Entity -> Directory \cup {Nowhere}] /\ file'[e] = Here.dir
        /\ \A f \in Entity : f # e => file'[f] = file[f]
    BY <1>1, <1>2, <1>4
  <2>4. /\ place' \in [Entity -> Place \cup {Nowhere}]
        /\ place'[e] = PlaceOf(e, Here.dir)
        /\ \A f \in Entity : f # e => place'[f] = place[f]
    BY <1>1, <1>2, <1>4, <2>1
  <2>5. TypeOK'
    <3>1. complete' \subseteq elements' /\ elements' \subseteq added'
          /\ added' \subseteq Entity
      BY <1>1, <1>2, <1>4
    <3> QED
      BY <1>1, <2>2, <2>3, <2>4, <3>1 DEF PlaceInv, TypeOK
  <2>6. place'[e] \in packages' \cup {Top}
    BY <1>1, <1>4, <2>1, <2>4 DEF Fits
  <2>7. PlacedByFile'
    <3>1. ASSUME NEW f \in elements, f # e
          PROVE  /\ place'[f] = IF InDirectories THEN file'[f] ELSE NsOf[f]
                 /\ place'[f] \in packages' \cup {Top}
      BY <1>2, <2>2, <2>3, <2>4, <3>1 DEF PlaceInv, PlacedByFile
    <3>2. place'[e] = IF InDirectories THEN file'[e] ELSE NsOf[e]
      BY <2>1, <2>3, <2>4
    <3>3. InDirectories' = InDirectories
      BY <1>1 DEF InDirectories
    <3> QED
      BY <1>4, <2>6, <3>1, <3>2, <3>3 DEF PlacedByFile
  <2>8. FileOfDefinition'
    BY <1>1, <1>2, <1>4, <2>3 DEF PlaceInv, FileOfDefinition
  <2> QED
    BY <1>1, <2>5, <2>7, <2>8 DEF PlaceInv
<1> QED
  BY <1>3, <1>4 DEF DefineNew

\* DefineAgain: the file, and with it the place, becomes that of the definition.
LEMMA DefineAgainStep ==
    ASSUME PlaceInv, OwnIds, DefineAgain
    PROVE  PlaceInv' /\ OwnIds'
<1> DEFINE e == Here.entity
<1>1. /\ e \in Entity /\ Here.dir \in Directory
      /\ DefinedAt(setting, e, Here.dir)
      /\ at' \in Nat /\ AtItem' /\ OwnIds'
      /\ idMap' \subseteq [ast : AstId, entity : Entity]
      /\ forward' \subseteq [entity : Entity, dir : Directory]
      /\ UNCHANGED <<setting, unit, pc>>
  BY DefiningKeeps DEF DefineAgain
<1>2. /\ file \in [Entity -> Directory \cup {Nowhere}]
      /\ place \in [Entity -> Place \cup {Nowhere}]
      /\ packages \subseteq Place
      /\ complete \subseteq elements /\ elements \subseteq added /\ added \subseteq Entity
  BY DEF PlaceInv, TypeOK
<1>3. /\ e \in elements
      /\ complete' = complete \cup {e}
      /\ file' = [file EXCEPT ![e] = IF e \in complete THEN @ ELSE Here.dir]
      /\ place' = IF InDirectories THEN [place EXCEPT ![e] = file'[e]] ELSE place
      /\ packages' = IF InDirectories THEN packages \cup {file'[e]} ELSE packages
      /\ UNCHANGED <<elements, added>>
  BY DEF DefineAgain
<1>4. /\ file' \in [Entity -> Directory \cup {Nowhere}]
      /\ file'[e] = IF e \in complete THEN file[e] ELSE Here.dir
      /\ \A f \in Entity : f # e => file'[f] = file[f]
  BY <1>1, <1>2, <1>3
<1>5. DefinedAt(setting, e, file'[e])
  BY <1>1, <1>4 DEF PlaceInv, FileOfDefinition
<1>6. file'[e] \in Directory
  BY <1>5, DefinedInDirectory DEF PlaceInv
<1>7. packages \subseteq packages' /\ packages' \subseteq Place
  BY <1>2, <1>3, <1>6 DEF Place
<1>8. /\ place' \in [Entity -> Place \cup {Nowhere}]
      /\ InDirectories => place'[e] = file'[e]
      /\ ~InDirectories => place' = place
      /\ \A f \in Entity : f # e => place'[f] = place[f]
  BY <1>1, <1>2, <1>3, <1>6 DEF Place
<1>9. TypeOK'
  <2>1. complete' \subseteq elements' /\ elements' \subseteq added'
        /\ added' \subseteq Entity
    BY <1>2, <1>3
  <2> QED
    BY <1>1, <1>4, <1>7, <1>8, <2>1 DEF PlaceInv, TypeOK
<1>10. PlacedByFile'
  <2>1. ASSUME NEW f \in elements
        PROVE  /\ place'[f] = IF InDirectories THEN file'[f] ELSE NsOf[f]
               /\ place'[f] \in packages' \cup {Top}
    <3>1. CASE f = e
      BY <1>3, <1>7, <1>8, <3>1 DEF PlaceInv, PlacedByFile
    <3>2. CASE f # e
      BY <1>2, <1>4, <1>7, <1>8, <3>2 DEF PlaceInv, PlacedByFile
    <3> QED
      BY <3>1, <3>2
  <2>2. InDirectories' = InDirectories
    BY <1>1 DEF InDirectories
  <2> QED
    BY <1>3, <2>1, <2>2 DEF PlacedByFile
<1>11. FileOfDefinition'
  BY <1>1, <1>2, <1>3, <1>4, <1>5 DEF PlaceInv, FileOfDefinition
<1> QED
  BY <1>1, <1>9, <1>10, <1>11 DEF PlaceInv

\* Finalize: what is only declared gets the file of its declaration.
LEMMA FinalizeStep ==
    ASSUME PlaceInv, OwnIds, Finalize
    PROVE  PlaceInv' /\ OwnIds'
<1> DEFINE new == {f \in Incomplete : Fits(f.entity)}
           the(e) == CHOOSE f \in new : f.entity = e
<1>1. /\ elements' = elements \cup {f.entity : f \in new}
      /\ file' = [e \in Entity |-> IF \E f \in new : f.entity = e
                                   THEN the(e).dir ELSE file[e]]
      /\ place' = [e \in Entity |-> IF \E f \in new : f.entity = e
                                    THEN PlaceOf(e, file'[e]) ELSE place[e]]
      /\ packages' = IF InDirectories THEN packages \cup {f.dir : f \in new} ELSE packages
      /\ added' = added \cup {f.entity : f \in Incomplete}
      /\ forward' = {} /\ pc' = "between"
      /\ UNCHANGED <<setting, unit, at, idMap, complete>>
  BY DEF Finalize
<1>2. /\ file \in [Entity -> Directory \cup {Nowhere}]
      /\ place \in [Entity -> Place \cup {Nowhere}]
      /\ packages \subseteq Place
      /\ complete \subseteq elements /\ elements \subseteq added /\ added \subseteq Entity
  BY DEF PlaceInv, TypeOK
<1>3. \A f \in Incomplete : /\ f.entity \in Entity /\ f.dir \in Directory
                            /\ f.entity \notin elements
  BY DEF Incomplete, PlaceInv, TypeOK
<1>4. \A f \in new : f \in Incomplete /\ Fits(f.entity)
  OBVIOUS
<1>5. \A e \in Entity : (\E f \in new : f.entity = e) =>
          the(e) \in new /\ the(e).entity = e
  OBVIOUS
<1> HIDE DEF new, the
<1>6. ASSUME NEW e \in Entity, \E f \in new : f.entity = e
      PROVE  /\ e \notin elements /\ Fits(e)
             /\ file'[e] \in Directory /\ file'[e] = the(e).dir
             /\ place'[e] = PlaceOf(e, file'[e])
             /\ InDirectories => file'[e] \in packages'
  <2>1. the(e) \in new /\ the(e).entity = e
    BY <1>5, <1>6
  <2>2. file'[e] = the(e).dir /\ place'[e] = PlaceOf(e, file'[e])
    BY <1>1, <1>6
  <2> QED
    BY <1>1, <1>3, <1>4, <2>1, <2>2
<1>7. ASSUME NEW e \in Entity, ~(\E f \in new : f.entity = e)
      PROVE  file'[e] = file[e] /\ place'[e] = place[e]
  BY <1>1, <1>7
<1>8. packages \subseteq packages' /\ packages' \subseteq Place
  BY <1>1, <1>2, <1>3, <1>4 DEF Place
<1>9. ASSUME NEW e \in Entity
      PROVE  file'[e] \in Directory \cup {Nowhere} /\ place'[e] \in Place \cup {Nowhere}
  BY <1>2, <1>6, <1>7, UnitsAssumption DEF PlaceOf, Place
<1>10. TypeOK'
  <2>1. /\ file' \in [Entity -> Directory \cup {Nowhere}]
        /\ place' \in [Entity -> Place \cup {Nowhere}]
    BY <1>1, <1>9
  <2>2. complete' \subseteq elements' /\ elements' \subseteq added'
        /\ added' \subseteq Entity
    BY <1>1, <1>2, <1>3, <1>4
  <2> QED
    BY <1>1, <1>8, <2>1, <2>2 DEF PlaceInv, TypeOK
<1>11. AtItem' /\ OwnIds'
  BY <1>1 DEF AtItem, OwnIds, Ids
<1>12. PlacedByFile'
  <2>1. ASSUME NEW e \in elements'
        PROVE  /\ place'[e] = IF InDirectories THEN file'[e] ELSE NsOf[e]
               /\ place'[e] \in packages' \cup {Top}
    <3>1. e \in Entity /\ (e \in elements \/ \E f \in new : f.entity = e)
      BY <1>1, <1>2, <1>3, <1>4, <2>1
    <3>2. CASE \E f \in new : f.entity = e
      BY <1>6, <1>8, <3>1, <3>2 DEF PlaceOf, Fits
    <3>3. CASE ~(\E f \in new : f.entity = e)
      BY <1>7, <1>8, <3>1, <3>3 DEF PlaceInv, PlacedByFile
    <3> QED
      BY <3>2, <3>3
  <2>2. InDirectories' = InDirectories
    BY <1>1 DEF InDirectories
  <2> QED
    BY <2>1, <2>2 DEF PlacedByFile
<1>13. FileOfDefinition'
  <2>1. \A e \in complete : e \in Entity /\ file'[e] = file[e]
    BY <1>2, <1>6, <1>7
  <2> QED
    BY <1>1, <2>1 DEF PlaceInv, FileOfDefinition
<1> QED
  BY <1>10, <1>11, <1>12, <1>13 DEF PlaceInv

\* A stuttering step keeps both invariants.
LEMMA UnchangedInv ==
    ASSUME PlaceInv, OwnIds, UNCHANGED vars
    PROVE  PlaceInv' /\ OwnIds'
  BY DEF vars, visitor, model, PlaceInv, TypeOK, AtItem, PlacedByFile, FileOfDefinition,
     OwnIds, Ids, InDirectories

\* So does every step.
LEMMA NextPlaceInv == PlaceInv /\ OwnIds /\ [Next]_vars => PlaceInv' /\ OwnIds'
  BY BeginUnitStep, VisitNamespaceStep, VisitOtherStep, DefineNewStep, DefineAgainStep,
     FinalizeStep, UnchangedInv DEF Next

\* The invariant of the places holds throughout.
THEOREM PlaceInvariance == Spec => [](PlaceInv /\ OwnIds)
<1>1. Init => PlaceInv /\ OwnIds
  BY InitPlaceInv
<1> QED
  BY <1>1, NextPlaceInv, PTL DEF Spec

\* The variables keep their types.
THEOREM TypeCorrect == Spec => []TypeOK
<1>1. PlaceInv => TypeOK
  BY DEF PlaceInv
<1> QED
  BY <1>1, PlaceInvariance, PTL

\* An element is in a package that is there, a defined one in that of its definition.
THEOREM PackageOfDefinition == Spec => []InPackageOfDefinition
<1>1. PlaceInv => InPackageOfDefinition
  BY DEF PlaceInv, TypeOK, InPackageOfDefinition, PlacedByFile, FileOfDefinition
<1> QED
  BY <1>1, PlaceInvariance, PTL
--------------------------------------------------------------------------------
(* Relationships. *)

\* A definition mentions entities.
LEMMA MentionsEntities ==
    ASSUME NEW e \in Entity, NEW type \in {"extension", "association", "dependency"}
    PROVE  Mentions(e, type) \subseteq Entity
  BY UnitsAssumption DEF Mentions

\* What a definition adds is traced to this unit.
LEMMA DeclaredTraced ==
    ASSUME TypeOK, unit > 0, NEW e \in Entity, NEW r \in Declared(e)
    PROVE  Traced(r)
<1>1. unit \in 1..unit
  BY UnitsAssumption DEF TypeOK, Setting
<1>2. CASE r \in {Rel(e, "extension", Uml(b)) : b \in Bases[e]}
  BY <1>2 DEF Traced, Mentions
<1>3. CASE r \in {Rel(e, "association", Ast(Ids[f])) : f \in Fields[e]}
  <2>1. PICK f \in Fields[e] : r = Rel(e, "association", Ast(setting.ids[unit][f]))
    BY <1>3 DEF Ids
  <2>2. f \in Mentions(e, "association")
    BY DEF Mentions
  <2> QED
    BY <1>1, <2>1, <2>2 DEF Traced
<1>4. CASE r \in {Rel(e, "dependency", Ast(Ids[q])) : q \in Params[e]}
  <2>1. PICK f \in Params[e] : r = Rel(e, "dependency", Ast(setting.ids[unit][f]))
    BY <1>4 DEF Ids
  <2>2. f \in Mentions(e, "dependency")
    BY DEF Mentions
  <2> QED
    BY <1>1, <2>1, <2>2 DEF Traced
<1> QED
  BY <1>2, <1>3, <1>4 DEF Declared

\* A later unit does not lose the trace.
LEMMA TracedStays ==
    ASSUME setting' = setting, 1..unit \subseteq 1..unit', NEW r, Traced(r)
    PROVE  Traced(r)'
  BY DEF Traced, Mentions

\* An id is resolved to the entity it was the id of, whichever unit it is from.
LEMMA ResolveTraced ==
    ASSUME IdsTellEntities, TypeOK, OwnIds, NEW r, Traced(r)
    PROVE  Traced(Resolve(r))
<1>1. PICK e \in Entity, type \in {"extension", "association", "dependency"} :
          \E f \in Mentions(e, type) :
              \/ r = Rel(e, type, Uml(f))
              \/ \E u \in 1..unit : r = Rel(e, type, Ast(setting.ids[u][f]))
  BY DEF Traced
<1>2. PICK f \in Mentions(e, type) :
          \/ r = Rel(e, type, Uml(f))
          \/ \E u \in 1..unit : r = Rel(e, type, Ast(setting.ids[u][f]))
  BY <1>1
<1>3. CASE Resolve(r) = r
  BY <1>3
<1>4. CASE Resolve(r) # r
  <2>1. /\ r.to.scope = "ast"
        /\ \E m \in idMap : m.ast = r.to.id
        /\ Resolve(r) = [r EXCEPT !.to =
                            Uml((CHOOSE m \in idMap : m.ast = r.to.id).entity)]
    BY <1>4 DEF Resolve
  <2>2. PICK m \in idMap : /\ m.ast = r.to.id
                           /\ Resolve(r) = [r EXCEPT !.to = Uml(m.entity)]
    BY <2>1
  <2>3. PICK u \in 1..unit : r = Rel(e, type, Ast(setting.ids[u][f]))
    BY <1>2, <2>1 DEF Rel, Uml
  <2>4. /\ u \in 1..Len(setting.ids) /\ unit \in 1..Len(setting.ids)
        /\ setting \in Settings
    BY UnitsAssumption DEF TypeOK, Setting
  <2>5. setting.ids[unit][m.entity] = setting.ids[u][f]
    BY <2>2, <2>3 DEF OwnIds, Ids, Rel, Ast
  <2>6. m.entity \in Entity /\ f \in Entity
    BY MentionsEntities DEF TypeOK
  <2>7. m.entity = f
    BY <2>4, <2>5, <2>6 DEF IdsTellEntities
  <2>8. Resolve(r) = Rel(e, type, Uml(f))
    BY <2>2, <2>3, <2>7 DEF Rel
  <2> QED
    BY <2>8 DEF Traced
<1> QED
  BY <1>3, <1>4

\* What finalize() leaves was there before, perhaps with its id resolved.
LEMMA FinalizedTraced ==
    ASSUME IdsTellEntities, TypeOK, OwnIds, \A r \in rels : Traced(r)
    PROVE  \A r \in Finalized(rels) : Traced(r)
<1>1. \A r \in Finalized(rels) : \E q \in rels : r = Resolve(q)
  BY DEF Finalized, Resolved
<1> QED
  BY <1>1, ResolveTraced

\* RelInv is inductive: only definitions and finalize() touch relationships.
LEMMA NextRelInv ==
    ASSUME IdsTellEntities
    PROVE  RelInv /\ [Next]_vars => RelInv'
<1> SUFFICES ASSUME RelInv, [Next]_vars PROVE \A r \in rels' : Traced(r)'
  BY NextPlaceInv DEF RelInv
<1>1. TypeOK /\ OwnIds /\ PlaceInv /\ \A r \in rels : Traced(r)
  BY DEF RelInv, PlaceInv
<1>2. setting' = setting /\ 1..unit \subseteq 1..unit'
  BY <1>1, UnitsAssumption DEF TypeOK, Setting, Next, BeginUnit, VisitNamespace, VisitOutside,
     VisitDeclaration, DefineNew, DefineAgain, Defining, Finalize, vars, visitor
<1>3. \A r \in rels' : Traced(r)
  <2>1. CASE rels' = rels
    BY <1>1, <2>1
  <2>2. CASE /\ DefineNew \/ DefineAgain
             /\ rels' = rels \cup Declared(Here.entity)
    <3>1. Visiting("entity")
      BY <2>2 DEF DefineNew, DefineAgain, Defining
    <3>2. Here.entity \in Entity /\ unit > 0
      BY <1>1, <3>1, EntityHere, ItemHere
    <3> QED
      BY <1>1, <2>2, <3>2, DeclaredTraced
  <2>3. CASE rels' = Finalized(rels)
    BY <1>1, <2>3, FinalizedTraced
  <2> QED
    BY <2>1, <2>2, <2>3 DEF Next, BeginUnit, VisitNamespace, VisitOutside,
       VisitDeclaration, DefineNew, DefineAgain, Finalize, vars, model
<1> QED
  BY <1>2, <1>3, TracedStays

\* No relationship leads to an entity that is not mentioned there, whatever the units
\* declare and in whatever order, as long as ids tell entities.
THEOREM OnlyDeclaredRelationships ==
    ASSUME IdsTellEntities
    PROVE  Spec => []RelationshipsAreDeclared
<1>1. Init => RelInv
  BY InitPlaceInv DEF RelInv
<1>2. RelInv /\ [Next]_vars => RelInv'
  BY NextRelInv
<1>3. RelInv => RelationshipsAreDeclared
  <2> SUFFICES ASSUME NEW r, Traced(r), r.to.scope = "uml"
               PROVE  CASE r.type = "extension"   -> r.to.id \in Bases[r.from]
                        [] r.type = "association" -> r.to.id \in Fields[r.from]
                        [] r.type = "dependency"  -> r.to.id \in Params[r.from]
    BY DEF RelInv, RelationshipsAreDeclared
  <2>1. PICK e \in Entity, type \in {"extension", "association", "dependency"} :
            \E f \in Mentions(e, type) : r = Rel(e, type, Uml(f))
    BY DEF Traced, Rel, Ast
  <2>2. r.type = type /\ r.from = e /\ r.to.id \in Mentions(e, type)
    BY <2>1 DEF Rel, Uml
  <2> QED
    BY <2>2 DEF Mentions
<1> QED
  BY <1>1, <1>2, <1>3, PTL DEF Spec

--------------------------------------------------------------------------------
(* The model is the union of what the units say. *)

Says(i, e, def) == i.kind = "entity" /\ i.entity = e /\ i.def = def

\* What the units before this one said, and what this one has said so far.
SaidBefore(e, def) ==
    \E u \in 1..(unit - 1) : \E k \in 1..Len(setting.units[u]) :
        Says(setting.units[u][k], e, def)
SaidHere(e, def) ==
    \E k \in 1..Len(Items) : k < at /\ Says(Items[k], e, def)

\* The namespaces met in this unit are packages.
NamespacesThere ==
    pc = "visit" /\ ~InDirectories =>
        \A k \in 1..Len(Items) :
            k < at /\ Items[k].kind = "namespace" /\ ~Items[k].skip => Items[k].ns \in packages

\* In the middle of a unit: definitions are in the model, declarations are if they are
\* of an earlier unit, and otherwise wait among the forward declarations.
UnionOf(e) ==
    /\ e \in added => e \in elements
    /\ pc = "between" =>
          /\ e \in elements <=> Said(e, FALSE) \/ Said(e, TRUE)
          /\ e \in complete <=> Said(e, TRUE)
    /\ pc = "visit" =>
          /\ e \in complete <=> SaidBefore(e, TRUE) \/ SaidHere(e, TRUE)
          /\ e \in elements <=>
                SaidBefore(e, TRUE) \/ SaidBefore(e, FALSE) \/ SaidHere(e, TRUE)
          /\ SaidHere(e, FALSE) => e \in elements \/ \E f \in forward : f.entity = e
          /\ (\E f \in forward : f.entity = e) => SaidHere(e, FALSE)

UnionInv == NamespacesThere /\ \A e \in Due : UnionOf(e)

\* The unit that is visited and its items.
LEMMA UnitHere ==
    ASSUME PlaceInv, pc = "visit"
    PROVE  /\ unit \in 1..Len(setting.units) /\ Len(setting.units) \in Nat
           /\ at \in Nat /\ at > 0
           /\ Items \in Seq(Item) /\ Len(Items) \in Nat
           /\ Items = setting.units[unit]
<1>1. setting \in Setting
  BY UnitsAssumption DEF PlaceInv, TypeOK
<1>2. unit \in 1..Len(setting.units) /\ at \in Nat /\ at > 0
  BY <1>1 DEF PlaceInv, TypeOK, AtItem, Setting
<1>3. setting.units \in Seq(Seq(Item))
  BY <1>1 DEF Setting
<1> QED
  BY <1>2, <1>3 DEF Items

\* An entity that further units may lose is one that the units so far do not.
LEMMA DueShrinks ==
    ASSUME setting' = setting, 1..unit \subseteq 1..unit'
    PROVE  Due' \subseteq Due
<1>1. \A e : Housed(e)' => Housed(e)
  BY DEF Housed, InDirectories
<1> QED
  BY <1>1 DEF Due

\* What is due finds its namespace when it is met, and at the end of the unit.
LEMMA DueFits ==
    ASSUME PlaceInv, NamespacesThere, pc = "visit", NEW e \in Due,
           at > Len(Items) \/ (Visiting("entity") /\ Here.entity = e)
    PROVE  Fits(e)
<1>1. CASE InDirectories \/ NsOf[e] = Top
  BY <1>1 DEF Fits
<1>2. CASE ~InDirectories /\ NsOf[e] # Top
  <2>1. unit \in 1..unit
    BY UnitHere
  <2>2. PICK k \in 1..Len(setting.units[unit]) :
            /\ setting.units[unit][k] = [kind |-> "namespace", ns |-> NsOf[e], skip |-> FALSE]
            /\ \A j \in 1..k : setting.units[unit][j].kind = "entity"
                                  => setting.units[unit][j].entity # e
    BY <1>2, <2>1 DEF Due, Housed
  <2>3. k \in 1..Len(Items) /\ Items[k] = [kind |-> "namespace", ns |-> NsOf[e], skip |-> FALSE]
    BY <2>2, UnitHere
  <2>4. k < at
    <3>1. CASE at > Len(Items)
      BY <2>3, <3>1, UnitHere
    <3>2. CASE Visiting("entity") /\ Here.entity = e
      <4>1. at \in 1..Len(Items) /\ Items[at].kind = "entity" /\ Items[at].entity = e
        BY <3>2, ItemHere DEF Here
      <4>2. at \notin 1..k
        BY <2>2, <4>1, UnitHere
      <4> QED
        BY <2>3, <4>1, <4>2, UnitHere
    <3> QED
      BY <3>1, <3>2
  <2>5. Items[k].ns \in packages
    BY <1>2, <2>3, <2>4 DEF NamespacesThere
  <2> QED
    BY <2>3, <2>5 DEF Fits
<1> QED
  BY <1>1, <1>2

\* One item further, what it says is said.
LEMMA SaidStep ==
    ASSUME PlaceInv, NEW kind, Visiting(kind), at' = at + 1, UNCHANGED <<setting, unit>>
    PROVE  \A e, def :
              /\ SaidHere(e, def)' <=> SaidHere(e, def) \/ Says(Here, e, def)
              /\ SaidBefore(e, def)' <=> SaidBefore(e, def)
              /\ Said(e, def)' <=> Said(e, def)
<1>1. at \in 1..Len(Items) /\ Len(Items) \in Nat /\ Here = Items[at]
  BY ItemHere, UnitHere DEF Visiting, Here
<1>2. Items' = Items
  BY DEF Items
<1>3. \A e, def : SaidHere(e, def)' <=> SaidHere(e, def) \/ Says(Here, e, def)
  <2> TAKE e, def
  <2>1. SaidHere(e, def)' <=> \E k \in 1..Len(Items) : k < at + 1 /\ Says(Items[k], e, def)
    BY <1>2 DEF SaidHere, Says
  <2>2. \A k \in 1..Len(Items) : k < at + 1 <=> k < at \/ k = at
    BY <1>1
  <2> QED
    BY <1>1, <2>1, <2>2 DEF SaidHere
<1>4. \A e, def : /\ SaidBefore(e, def)' <=> SaidBefore(e, def)
                  /\ Said(e, def)' <=> Said(e, def)
  BY DEF SaidBefore, Said, Says
<1> QED
  BY <1>3, <1>4

\* At the end of a unit everything was said.
LEMMA SaidAll ==
    ASSUME PlaceInv, pc = "visit", at > Len(Items), NEW e, NEW def
    PROVE  Said(e, def) <=> SaidBefore(e, def) \/ SaidHere(e, def)
<1>1. \A k \in 1..Len(Items) : k < at
  BY UnitHere
<1>2. \A u \in 1..unit : u \in 1..(unit - 1) \/ u = unit
  BY UnitHere
<1>3. unit \in 1..unit /\ \A u \in 1..(unit - 1) : u \in 1..unit
  BY UnitHere
<1> QED
  BY <1>1, <1>2, <1>3 DEF Said, SaidBefore, SaidHere, Says, Items

--------------------------------------------------------------------------------
\* BeginUnit: nothing was said of this unit yet.
LEMMA BeginUnitUnion ==
    ASSUME PlaceInv, UnionInv, BeginUnit
    PROVE  UnionInv'
<1>1. /\ unit' = unit + 1 /\ at' = 1 /\ forward' = {} /\ pc' = "visit" /\ pc = "between"
      /\ UNCHANGED <<setting, elements, complete, added, packages>>
  BY DEF BeginUnit, model
<1>2. unit \in Nat
  BY UnitsAssumption DEF PlaceInv, TypeOK, Setting
<1>3. Due' \subseteq Due
  BY <1>1, <1>2, DueShrinks
<1>4. PlaceInv'
  BY BeginUnitStep
<1>5. ~ \E k \in (1..Len(Items))' : k < at'
  BY <1>1, <1>4
<1>6. \A e, def : ~SaidHere(e, def)'
  BY <1>5 DEF SaidHere
<1>7. \A e, def : SaidBefore(e, def)' <=> Said(e, def)
  <2>1. unit' - 1 = unit
    BY <1>1, <1>2
  <2> QED
    BY <1>1, <2>1 DEF SaidBefore, Said, Says
<1>8. NamespacesThere'
  BY <1>5 DEF NamespacesThere
<1>9. ASSUME NEW e \in Due'
      PROVE  UnionOf(e)'
  BY <1>1, <1>3, <1>6, <1>7 DEF UnionInv, UnionOf
<1> QED
  BY <1>8, <1>9 DEF UnionInv

\* An item after which the namespaces are there.
LEMMA NamespacesStay ==
    ASSUME PlaceInv, NamespacesThere, NEW kind, Visiting(kind), at' = at + 1,
           UNCHANGED <<setting, unit, pc>>, packages \subseteq packages',
           kind = "namespace" /\ ~InDirectories /\ ~Here.skip => Here.ns \in packages'
    PROVE  NamespacesThere'
<1>1. at \in 1..Len(Items) /\ Len(Items) \in Nat /\ Here = Items[at] /\ pc = "visit"
  BY ItemHere, UnitHere DEF Visiting, Here
<1>2. Items' = Items /\ InDirectories' = InDirectories
  BY DEF Items, InDirectories
<1> SUFFICES ASSUME ~InDirectories, NEW k \in 1..Len(Items), k < at + 1,
                    Items[k].kind = "namespace", ~Items[k].skip
             PROVE  Items[k].ns \in packages'
  BY <1>2 DEF NamespacesThere
<1>3. CASE k < at
  BY <1>1, <1>3 DEF NamespacesThere
<1>4. CASE k = at
  BY <1>1, <1>4 DEF Visiting
<1> QED
  BY <1>1, <1>3, <1>4

\* VisitNamespace: another package.
LEMMA VisitNamespaceUnion ==
    ASSUME PlaceInv, UnionInv, VisitNamespace
    PROVE  UnionInv'
<1>1. /\ Visiting("namespace") /\ at' = at + 1
      /\ UNCHANGED <<setting, unit, pc, forward, elements, complete, added>>
      /\ packages' = IF InDirectories \/ Here.skip THEN packages ELSE packages \cup {Here.ns}
  BY DEF VisitNamespace
<1>2. NamespacesThere'
  BY <1>1, NamespacesStay DEF UnionInv
<1>3. Due' \subseteq Due
  BY <1>1, DueShrinks
<1>4. \A e, def : ~Says(Here, e, def)
  BY <1>1 DEF Visiting, Says
<1>5. \A e, def : /\ SaidHere(e, def)' <=> SaidHere(e, def)
                  /\ SaidBefore(e, def)' <=> SaidBefore(e, def)
                  /\ Said(e, def)' <=> Said(e, def)
  BY <1>1, <1>4, SaidStep
<1>6. \A e \in Due' : UnionOf(e)'
  BY <1>1, <1>3, <1>5 DEF UnionInv, UnionOf
<1> QED
  BY <1>2, <1>6 DEF UnionInv

\* VisitOutside: nothing due.
LEMMA VisitOutsideUnion ==
    ASSUME PlaceInv, UnionInv, VisitOutside
    PROVE  UnionInv'
<1>1. /\ Visiting("entity") /\ at' = at + 1 /\ Here.entity \in Outside
      /\ UNCHANGED <<setting, unit, pc, forward, elements, complete, added, packages>>
  BY DEF VisitOutside, model
<1>2. NamespacesThere'
  BY <1>1, NamespacesStay DEF UnionInv
<1>3. Due' \subseteq Due
  BY <1>1, DueShrinks
<1>4. \A e \in Due : \A def : ~Says(Here, e, def)
  BY <1>1 DEF Due, Says
<1>5. \A e \in Due : \A def :
        /\ SaidHere(e, def)' <=> SaidHere(e, def)
        /\ SaidBefore(e, def)' <=> SaidBefore(e, def)
        /\ Said(e, def)' <=> Said(e, def)
  BY <1>1, <1>4, SaidStep
<1>6. \A e \in Due' : UnionOf(e)'
  BY <1>1, <1>3, <1>5 DEF UnionInv, UnionOf
<1> QED
  BY <1>2, <1>6 DEF UnionInv

\* VisitDeclaration: a forward declaration more.
LEMMA VisitDeclarationUnion ==
    ASSUME PlaceInv, UnionInv, VisitDeclaration
    PROVE  UnionInv'
<1> DEFINE d == Here.entity
<1>1. /\ Visiting("entity") /\ at' = at + 1 /\ Here.kind = "entity" /\ Here.def = FALSE
      /\ pc = "visit" /\ UNCHANGED <<setting, unit, pc, elements, complete, added, packages>>
      /\ forward' = IF \E f \in forward : f.entity = d THEN forward
                    ELSE forward \cup {[entity |-> d, dir |-> Here.dir]}
  <2>1. Here.def \in BOOLEAN
    BY ItemHere DEF VisitDeclaration, Item
  <2> QED
    BY <2>1 DEF VisitDeclaration, model, Visiting
<1>2. NamespacesThere'
  BY <1>1, NamespacesStay DEF UnionInv
<1>3. Due' \subseteq Due
  BY <1>1, DueShrinks
<1>4. \A e, def : Says(Here, e, def) <=> e = d /\ def = FALSE
  BY <1>1 DEF Says
<1>5. \A e, def : /\ SaidHere(e, def)' <=> SaidHere(e, def) \/ (e = d /\ def = FALSE)
                  /\ SaidBefore(e, def)' <=> SaidBefore(e, def)
                  /\ Said(e, def)' <=> Said(e, def)
  BY <1>1, <1>4, SaidStep
<1>6. \A e : (\E f \in forward' : f.entity = e) <=> (\E f \in forward : f.entity = e) \/ e = d
  <2>1. CASE \E f \in forward : f.entity = d
    BY <1>1, <2>1
  <2>2. CASE ~ \E f \in forward : f.entity = d
    <3> DEFINE new == [entity |-> d, dir |-> Here.dir]
    <3>1. new.entity = d /\ forward' = forward \cup {new}
      BY <1>1, <2>2
    <3> HIDE DEF new
    <3> QED
      BY <3>1
  <2> QED
    BY <2>1, <2>2
<1>7. ASSUME NEW e \in Due'
      PROVE  UnionOf(e)'
  BY <1>1, <1>3, <1>5, <1>6 DEF UnionInv, UnionOf
<1> QED
  BY <1>2, <1>7 DEF UnionInv

\* DefineNew, DefineAgain: what is due is in the model from now on.
LEMMA DefineUnion ==
    ASSUME PlaceInv, UnionInv, DefineNew \/ DefineAgain
    PROVE  UnionInv'
<1> DEFINE d == Here.entity
<1>1. /\ Visiting("entity") /\ at' = at + 1 /\ Here.kind = "entity" /\ Here.def = TRUE
      /\ pc = "visit" /\ UNCHANGED <<setting, unit, pc>>
      /\ forward' = {f \in forward : f.entity # d}
      /\ packages \subseteq packages'
  <2>1. Here.def \in BOOLEAN /\ Defining(d)
    BY ItemHere DEF DefineNew, DefineAgain, Defining, Item
  <2> QED
    BY <2>1 DEF DefineNew, DefineAgain, Defining, Visiting
<1>2. NamespacesThere'
  BY <1>1, NamespacesStay DEF UnionInv
<1>3. Due' \subseteq Due
  BY <1>1, DueShrinks
<1>4. \A e, def : Says(Here, e, def) <=> e = d /\ def = TRUE
  BY <1>1 DEF Says
<1>5. \A e, def : /\ SaidHere(e, def)' <=> SaidHere(e, def) \/ (e = d /\ def = TRUE)
                  /\ SaidBefore(e, def)' <=> SaidBefore(e, def)
                  /\ Said(e, def)' <=> Said(e, def)
  BY <1>1, <1>4, SaidStep
<1>6. \A e : e # d => /\ e \in elements' <=> e \in elements
                      /\ e \in complete' <=> e \in complete
                      /\ e \in added' <=> e \in added
                      /\ (\E f \in forward' : f.entity = e) <=> (\E f \in forward : f.entity = e)
  BY <1>1 DEF DefineNew, DefineAgain
<1>7. d \in Due => d \in elements' /\ d \in complete'
  <2> SUFFICES ASSUME d \in Due PROVE d \in elements' /\ d \in complete'
    OBVIOUS
  <2>1. Fits(d)
    BY <1>1, DueFits DEF UnionInv
  <2>2. d \notin Rejected /\ (d \in added => d \in elements)
    BY DEF Due, UnionInv, UnionOf
  <2> QED
    BY <2>1, <2>2 DEF DefineNew, DefineAgain
<1>8. ~ \E f \in forward' : f.entity = d
  BY <1>1
<1>9. ASSUME NEW e \in Due'
      PROVE  UnionOf(e)'
  <2>1. e \in Due /\ UnionOf(e) /\ pc' = "visit"
    BY <1>1, <1>3 DEF UnionInv
  <2>2. CASE e = d
    BY <1>5, <1>7, <1>8, <2>1, <2>2 DEF UnionOf
  <2>3. CASE e # d
    BY <1>5, <1>6, <2>1, <2>3, <1>1 DEF UnionOf
  <2> QED
    BY <2>2, <2>3
<1> QED
  BY <1>2, <1>9 DEF UnionInv

\* Finalize: what was only declared joins.
LEMMA FinalizeUnion ==
    ASSUME PlaceInv, UnionInv, Finalize
    PROVE  UnionInv'
<1>1. /\ pc = "visit" /\ at > Len(Items) /\ pc' = "between"
      /\ UNCHANGED <<setting, unit, at, complete>>
      /\ elements' = elements \cup {f.entity : f \in {g \in Incomplete : Fits(g.entity)}}
      /\ added' = added \cup {f.entity : f \in Incomplete}
  BY DEF Finalize
<1>2. NamespacesThere'
  BY <1>1 DEF NamespacesThere
<1>3. Due' \subseteq Due
  BY <1>1, DueShrinks
<1>4. \A e, def : Said(e, def)' <=> SaidBefore(e, def) \/ SaidHere(e, def)
  <2>1. \A e, def : Said(e, def)' <=> Said(e, def)
    BY <1>1 DEF Said
  <2> QED
    BY <1>1, <2>1, SaidAll
<1>5. ASSUME NEW e \in Due'
      PROVE  UnionOf(e)'
  <2>1. e \in Due /\ UnionOf(e) /\ Fits(e)
    BY <1>1, <1>3, DueFits DEF UnionInv
  <2>2. (\E f \in Incomplete : f.entity = e) <=>
            e \notin elements /\ \E f \in forward : f.entity = e
    BY <2>1, <1>1 DEF Incomplete, UnionOf
  <2>3. e \in elements' <=> e \in elements \/ \E f \in Incomplete : f.entity = e
    BY <1>1, <2>1
  <2>4. e \in added' <=> e \in added \/ \E f \in Incomplete : f.entity = e
    BY <1>1
  <2> QED
    BY <1>1, <1>4, <2>1, <2>2, <2>3, <2>4 DEF UnionOf
<1> QED
  BY <1>2, <1>5 DEF UnionInv

\* A stuttering step.
LEMMA UnchangedUnion ==
    ASSUME UnionInv, UNCHANGED vars
    PROVE  UnionInv'
<1>1. /\ UNCHANGED <<setting, unit, at, forward, pc, elements, complete, added, packages>>
  BY DEF vars, visitor, model
<1>2. \A e, def : /\ SaidHere(e, def)' <=> SaidHere(e, def)
                  /\ SaidBefore(e, def)' <=> SaidBefore(e, def)
                  /\ Said(e, def)' <=> Said(e, def)
  BY <1>1 DEF SaidHere, SaidBefore, Said, Says, Items
<1>3. Due' = Due
  BY <1>1 DEF Due, Housed, InDirectories
<1>4. NamespacesThere'
  BY <1>1 DEF UnionInv, NamespacesThere, Items, InDirectories
<1>5. \A e \in Due : UnionOf(e)'
  BY <1>1, <1>2 DEF UnionInv, UnionOf
<1> QED
  BY <1>3, <1>4, <1>5 DEF UnionInv

\* The union holds throughout.
THEOREM UnionInvariance == Spec => []UnionInv
<1>1. Init => PlaceInv /\ OwnIds /\ UnionInv
  <2> SUFFICES ASSUME Init PROVE UnionInv
    BY InitPlaceInv
  <2>1. unit = 0 /\ pc = "between" /\ elements = {} /\ complete = {} /\ added = {}
    BY DEF Init
  <2>2. \A e, def : ~Said(e, def)
    BY <2>1 DEF Said
  <2> QED
    BY <2>1, <2>2 DEF UnionInv, UnionOf, NamespacesThere
<1>2. PlaceInv /\ OwnIds /\ UnionInv /\ [Next]_vars => (PlaceInv /\ OwnIds /\ UnionInv)'
  <2> SUFFICES ASSUME PlaceInv, OwnIds, UnionInv, [Next]_vars PROVE UnionInv'
    BY NextPlaceInv
  <2> QED
    BY BeginUnitUnion, VisitNamespaceUnion, VisitOutsideUnion, VisitDeclarationUnion,
       DefineUnion, FinalizeUnion, UnchangedUnion DEF Next
<1> QED
  BY <1>1, <1>2, PTL DEF Spec

\* Whatever the units declare and define, in whatever order and however often, after
\* each of them the model has exactly what they said so far, and as complete.
THEOREM UnionOfUnits == Spec => []ModelIsUnion
<1>1. UnionInv => ModelIsUnion
  BY DEF UnionInv, UnionOf, ModelIsUnion
<1> QED
  BY <1>1, UnionInvariance, PTL

--------------------------------------------------------------------------------
(* The relationships are exact.                                            *)

\* A unit that defines an entity declares what the definition mentions.
MentionedAreDeclared ==
    \A s \in Settings : \A u \in 1..Len(s.units) : \A k \in 1..Len(s.units[u]) :
        LET i == s.units[u][k] IN
        i.kind = "entity" /\ i.def /\ i.entity \notin Outside =>
            \A f \in (Fields[i.entity] \cup Params[i.entity]) \ Outside :
                \E j \in 1..Len(s.units[u]) :
                    s.units[u][j].kind = "entity" /\ s.units[u][j].entity = f

\* Until the end of the unit that completes it an element has what was declared.
Fresh(e) ==
    /\ pc = "visit"
    /\ {r \in rels : r.from = e} = Declared(e)
    /\ \A f \in (Fields[e] \cup Params[e]) \ Outside :
          \E k \in 1..Len(Items) : Items[k].kind = "entity" /\ Items[k].entity = f

\* From then on it has what is exact, and destinations that nothing will resolve.
Settled(e) ==
    /\ \A b \in Bases[e] : Rel(e, "extension", Uml(b)) \in rels
    /\ \A f \in Fields[e] \ Outside : Rel(e, "association", Uml(f)) \in rels
    /\ \A p \in Params[e] \ Outside :
          Rel(e, "dependency", Uml(p)) \in rels
              <=> ~(setting.redundant /\ (p = e \/ p \in Bases[e] \cup Fields[e]))
    /\ \A r \in rels : r.from = e /\ r.to.scope = "ast" =>
          \E x \in Outside : \E u \in 1..Len(setting.ids) : r.to = Ast(setting.ids[u][x])

\* The visitor knows the ids of what it met.
IdsOfMet ==
    /\ \A m \in idMap : m.entity \notin Outside
    /\ pc = "visit" =>
          \A k \in 1..Len(Items) :
              k < at /\ Items[k].kind = "entity" /\ Items[k].entity \notin Outside =>
                  \E m \in idMap : m.entity = Items[k].entity

ExactInv ==
    /\ IdsOfMet
    /\ \A r \in rels : r.from \in complete
    /\ \A e \in complete : Fresh(e) \/ Settled(e)

\* What a relationship is made of.
LEMMA RelFacts ==
    /\ \A e, type, to : /\ Rel(e, type, to).from = e
                        /\ Rel(e, type, to).type = type
                        /\ Rel(e, type, to).to = to
    /\ \A f : Uml(f).scope = "uml" /\ Uml(f).id = f /\ Ast(f).scope = "ast" /\ Ast(f).id = f
  BY DEF Rel, Uml, Ast

\* An entity that was met is known, and nothing that was known is forgotten.
LEMMA MappedKnows ==
    ASSUME IdsTellEntities, TypeOK, OwnIds, unit > 0, NEW e \in Entity
    PROVE  \A x : (\E m \in Mapped(e) : m.entity = x)
                      <=> (\E m \in idMap : m.entity = x) \/ x = e
<1>1. unit \in 1..Len(setting.ids) /\ setting \in Settings
  BY IdsHere DEF TypeOK
<1>2. ASSUME NEW m \in idMap, m.ast = Ids[e]
      PROVE  m.entity = e
  <2>1. Ids[m.entity] = Ids[e] /\ m.entity \in Entity
    BY <1>2 DEF OwnIds, TypeOK
  <2> QED
    BY <1>1, <2>1 DEF IdsTellEntities, Ids
<1> DEFINE new == [ast |-> Ids[e], entity |-> e]
<1>3. new.entity = e /\ Mapped(e) = {m \in idMap : m.ast # Ids[e]} \cup {new}
  BY DEF Mapped
<1> HIDE DEF new
<1> QED
  BY <1>2, <1>3

\* An id of this unit is resolved when it was met ...
LEMMA ResolveKnown ==
    ASSUME IdsTellEntities, TypeOK, OwnIds, unit > 0, NEW f \in Entity,
           \E m \in idMap : m.entity = f, NEW e, NEW type
    PROVE  Resolve(Rel(e, type, Ast(Ids[f]))) = Rel(e, type, Uml(f))
<1> DEFINE r == Rel(e, type, Ast(Ids[f]))
<1>1. unit \in 1..Len(setting.ids) /\ setting \in Settings
  BY IdsHere DEF TypeOK
<1>2. \E m \in idMap : m.ast = Ids[f]
  BY DEF OwnIds
<1>3. \A m \in idMap : m.ast = Ids[f] => m.entity = f
  <2> SUFFICES ASSUME NEW m \in idMap, m.ast = Ids[f] PROVE m.entity = f
    OBVIOUS
  <2>1. Ids[m.entity] = Ids[f] /\ m.entity \in Entity
    BY DEF OwnIds, TypeOK
  <2> QED
    BY <1>1, <2>1 DEF IdsTellEntities, Ids
<1>4. (CHOOSE m \in idMap : m.ast = Ids[f]).entity = f
  BY <1>2, <1>3
<1>5. r.to.scope = "ast" /\ r.to.id = Ids[f]
  BY RelFacts
<1>6. Resolve(r) = [r EXCEPT !.to = Uml(f)]
  BY <1>2, <1>4, <1>5 DEF Resolve
<1> QED
  BY <1>6 DEF Rel

\* ... and one of an entity outside of the diagram never.
LEMMA ResolveOutside ==
    ASSUME IdsTellEntities, TypeOK, OwnIds, IdsOfMet, NEW x \in Outside,
           NEW u \in 1..Len(setting.ids), NEW r, r.to = Ast(setting.ids[u][x])
    PROVE  Resolve(r) = r
<1>1. ASSUME NEW m \in idMap, m.ast = setting.ids[u][x]
      PROVE  FALSE
  <2>1. m.entity \in Entity /\ x \in Entity /\ m.entity # x /\ unit > 0
    BY UnitsAssumption DEF TypeOK, OwnIds, IdsOfMet
  <2>2. unit \in 1..Len(setting.ids) /\ setting \in Settings
    BY <2>1, IdsHere DEF TypeOK
  <2>3. setting.ids[unit][m.entity] = setting.ids[u][x]
    BY <1>1 DEF OwnIds, Ids
  <2> QED
    BY <2>1, <2>2, <2>3 DEF IdsTellEntities
<1>2. r.to.id = setting.ids[u][x]
  BY RelFacts
<1> QED
  BY <1>1, <1>2 DEF Resolve

\* Resolving changes the destination only.
LEMMA ResolveFrom ==
    ASSUME NEW r, Traced(r)
    PROVE  Resolve(r).from = r.from /\ (r.to.scope = "uml" => Resolve(r) = r)
<1>1. PICK e, type, to : r = Rel(e, type, to)
  BY DEF Traced
<1>2. \A d : [r EXCEPT !.to = d].from = r.from
  BY <1>1 DEF Rel
<1> QED
  BY <1>2 DEF Resolve

\* The relationships of an element that resolving left exact but for redundancy are
\* exact after redundant ones were removed.
LEMMA ExactAfterRemoval ==
    ASSUME TypeOK, NEW e, NEW R, \A r \in R : Traced(r),
           \A b \in Bases[e] : Rel(e, "extension", Uml(b)) \in R,
           \A f \in Fields[e] \ Outside : Rel(e, "association", Uml(f)) \in R,
           \A p \in Params[e] \ Outside :
              ~(setting.redundant /\ (p = e \/ p \in Bases[e] \cup Fields[e]))
                  => Rel(e, "dependency", Uml(p)) \in R,
           \A r \in R : r.from = e /\ r.to.scope = "ast" =>
              \E x \in Outside : \E u \in 1..Len(setting.ids) : r.to = Ast(setting.ids[u][x]),
           setting' = setting,
           rels' = IF setting.redundant THEN {r \in R : ~Redundant(r, R)} ELSE R
    PROVE  Settled(e)'
<1>1. \A r \in R : r.type # "dependency" => r \in rels'
  BY DEF Redundant
<1>2. rels' \subseteq R
  OBVIOUS
<1>3. \A b \in Bases[e] : Rel(e, "extension", Uml(b)) \in rels'
  BY <1>1, RelFacts
<1>4. \A f \in Fields[e] \ Outside : Rel(e, "association", Uml(f)) \in rels'
  BY <1>1, RelFacts
<1>5. ASSUME NEW p \in Params[e] \ Outside
      PROVE  Rel(e, "dependency", Uml(p)) \in rels'
                 <=> ~(setting.redundant /\ (p = e \/ p \in Bases[e] \cup Fields[e]))
  <2> DEFINE d == Rel(e, "dependency", Uml(p))
  <2>0. d.from = e /\ d.type = "dependency" /\ d.to = Uml(p)
    BY RelFacts
  <2>1. CASE ~setting.redundant
    BY <2>1
  <2>2. CASE setting.redundant /\ (p = e \/ p \in Bases[e] \cup Fields[e])
    <3>1. CASE p = e
      BY <2>0, <2>2, <3>1 DEF Redundant
    <3>2. CASE p \in Bases[e]
      <4> DEFINE o == Rel(e, "extension", Uml(p))
      <4>1. o \in R /\ o.from = e /\ o.to = Uml(p) /\ o.type # "dependency"
        BY <3>2, RelFacts
      <4> HIDE DEF o, d
      <4>2. Redundant(d, R)
        BY <2>0, <4>1 DEF Redundant
      <4> QED
        BY <2>2, <3>2, <4>2 DEF d
    <3>3. CASE p \in Fields[e]
      <4> DEFINE o == Rel(e, "association", Uml(p))
      <4>1. o \in R /\ o.from = e /\ o.to = Uml(p) /\ o.type # "dependency"
        BY <3>3, RelFacts
      <4> HIDE DEF o, d
      <4>2. Redundant(d, R)
        BY <2>0, <4>1 DEF Redundant
      <4> QED
        BY <2>2, <3>3, <4>2 DEF d
    <3> QED
      BY <2>2, <3>1, <3>2, <3>3
  <2>3. CASE setting.redundant /\ ~(p = e \/ p \in Bases[e] \cup Fields[e])
    <3>1. d \in R
      BY <2>3
    <3>2. d.to # Uml(d.from)
      BY <2>0, <2>3, RelFacts
    <3>3. ASSUME NEW o \in R, o.from = e, o.to = Uml(p), o.type # "dependency"
          PROVE  FALSE
      <4>1. PICK e2 \in Entity, type \in {"extension", "association", "dependency"} :
                \E f \in Mentions(e2, type) :
                    \/ o = Rel(e2, type, Uml(f))
                    \/ \E u \in 1..unit : o = Rel(e2, type, Ast(setting.ids[u][f]))
        BY DEF Traced
      <4>2. PICK f \in Mentions(e2, type) : o = Rel(e2, type, Uml(f))
        BY <3>3, <4>1, RelFacts
      <4>3. e2 = e /\ type # "dependency" /\ f = p
        BY <3>3, <4>2, RelFacts
      <4>4. p \in Bases[e] \cup Fields[e]
        BY <4>2, <4>3 DEF Mentions
      <4> QED
        BY <2>3, <4>4
    <3>4. ~Redundant(d, R)
      BY <2>0, <3>2, <3>3 DEF Redundant
    <3> QED
      BY <2>3, <3>1, <3>4
  <2> QED
    BY <2>1, <2>2, <2>3
<1>6. \A r \in rels' : r.from = e /\ r.to.scope = "ast" =>
          \E x \in Outside : \E u \in 1..Len(setting.ids) : r.to = Ast(setting.ids[u][x])
  BY <1>2
<1>7. Settled(e)' <=>
          /\ \A b \in Bases[e] : Rel(e, "extension", Uml(b)) \in rels'
          /\ \A f \in Fields[e] \ Outside : Rel(e, "association", Uml(f)) \in rels'
          /\ \A p \in Params[e] \ Outside :
                Rel(e, "dependency", Uml(p)) \in rels'
                    <=> ~(setting.redundant /\ (p = e \/ p \in Bases[e] \cup Fields[e]))
          /\ \A r \in rels' : r.from = e /\ r.to.scope = "ast" =>
                \E x \in Outside : \E u \in 1..Len(setting.ids) : r.to = Ast(setting.ids[u][x])
  BY DEF Settled
<1> QED
  BY <1>3, <1>4, <1>5, <1>6, <1>7

\* Finalize: what is settled stays, what is fresh settles.
LEMMA FinalizeExact ==
    ASSUME IdsTellEntities, RelInv, ExactInv, Finalize
    PROVE  ExactInv'
<1> DEFINE R == Resolved(rels)
<1>1. /\ TypeOK /\ OwnIds /\ PlaceInv /\ IdsOfMet /\ \A r \in rels : Traced(r)
  BY DEF RelInv, PlaceInv, ExactInv
<1>2. /\ pc = "visit" /\ at > Len(Items) /\ pc' = "between"
      /\ UNCHANGED <<setting, unit, at, idMap, complete>>
      /\ rels' = IF setting.redundant THEN {r \in R : ~Redundant(r, R)} ELSE R
  BY DEF Finalize, Finalized
<1>3. /\ unit > 0 /\ unit \in 1..Len(setting.ids) /\ \A k \in 1..Len(Items) : k < at
  BY <1>1, <1>2, UnitHere, IdsHere
<1>4. \A r \in R : \E q \in rels : r = Resolve(q) /\ r.from = q.from
  BY <1>1, ResolveFrom DEF Resolved
<1>5. \A q \in rels : Resolve(q) \in R
  BY DEF Resolved
<1>6. \A r \in R : Traced(r)
  BY <1>1, ResolveTraced DEF Resolved
<1> HIDE DEF R
<1>7. ASSUME NEW e \in complete, Settled(e)
      PROVE  Settled(e)'
  <2>1. \A r \in rels : r.from = e => Resolve(r) = r
    <3> SUFFICES ASSUME NEW r \in rels, r.from = e PROVE Resolve(r) = r
      OBVIOUS
    <3>1. CASE r.to.scope = "ast"
      <4>1. PICK x \in Outside : \E u \in 1..Len(setting.ids) : r.to = Ast(setting.ids[u][x])
        BY <1>7, <3>1 DEF Settled
      <4> QED
        BY <1>1, <4>1, ResolveOutside
    <3>2. CASE r.to.scope # "ast"
      BY <3>2 DEF Resolve
    <3> QED
      BY <3>1, <3>2
  <2>2. \A r : r.from = e => (r \in R <=> r \in rels)
    BY <1>4, <1>5, <2>1
  <2>3. /\ \A b \in Bases[e] : Rel(e, "extension", Uml(b)) \in R
        /\ \A f \in Fields[e] \ Outside : Rel(e, "association", Uml(f)) \in R
        /\ \A p \in Params[e] \ Outside :
              ~(setting.redundant /\ (p = e \/ p \in Bases[e] \cup Fields[e]))
                  => Rel(e, "dependency", Uml(p)) \in R
        /\ \A r \in R : r.from = e /\ r.to.scope = "ast" =>
              \E x \in Outside : \E u \in 1..Len(setting.ids) : r.to = Ast(setting.ids[u][x])
    BY <1>7, <2>2, RelFacts DEF Settled
  <2> QED
    BY <1>1, <1>2, <1>6, <2>3, ExactAfterRemoval
<1>8. ASSUME NEW e \in complete, Fresh(e)
      PROVE  Settled(e)'
  <2>1. \A f \in (Fields[e] \cup Params[e]) \ Outside : \E m \in idMap : m.entity = f
    BY <1>1, <1>2, <1>3, <1>8 DEF Fresh, IdsOfMet
  <2>2. e \in Entity /\ Fields[e] \subseteq Entity /\ Params[e] \subseteq Entity
    BY <1>1, UnitsAssumption DEF TypeOK
  <2>3. \A r : r \in rels /\ r.from = e <=> r \in Declared(e)
    <3>1. \A r \in Declared(e) : r.from = e
      BY RelFacts DEF Declared
    <3> QED
      BY <1>8, <3>1 DEF Fresh
  <2>4. ASSUME NEW b \in Bases[e]
        PROVE  Rel(e, "extension", Uml(b)) \in R
    <3>1. Rel(e, "extension", Uml(b)) \in rels
      BY <2>3 DEF Declared
    <3>2. Resolve(Rel(e, "extension", Uml(b))) = Rel(e, "extension", Uml(b))
      BY RelFacts DEF Resolve
    <3> QED
      BY <1>5, <3>1, <3>2
  <2>5. ASSUME NEW f \in Fields[e] \ Outside
        PROVE  Rel(e, "association", Uml(f)) \in R
    <3>1. Rel(e, "association", Ast(Ids[f])) \in rels
      BY <2>3 DEF Declared
    <3>2. Resolve(Rel(e, "association", Ast(Ids[f]))) = Rel(e, "association", Uml(f))
      BY <1>1, <1>3, <2>1, <2>2, ResolveKnown
    <3> QED
      BY <1>5, <3>1, <3>2
  <2>6. ASSUME NEW p \in Params[e] \ Outside
        PROVE  Rel(e, "dependency", Uml(p)) \in R
    <3>1. Rel(e, "dependency", Ast(Ids[p])) \in rels
      BY <2>3 DEF Declared
    <3>2. Resolve(Rel(e, "dependency", Ast(Ids[p]))) = Rel(e, "dependency", Uml(p))
      BY <1>1, <1>3, <2>1, <2>2, ResolveKnown
    <3> QED
      BY <1>5, <3>1, <3>2
  <2>7. ASSUME NEW r \in R, r.from = e, r.to.scope = "ast"
        PROVE  \E x \in Outside : \E u \in 1..Len(setting.ids) : r.to = Ast(setting.ids[u][x])
    <3>1. PICK q \in rels : r = Resolve(q) /\ q.from = e
      BY <1>4, <2>7
    <3>2. q \in Declared(e)
      BY <2>3, <3>1
    <3>3. q.to.scope = "ast"
      BY <2>7, <3>1, ResolveFrom, <1>1 DEF Resolve
    <3>4. PICK f \in Fields[e] \cup Params[e] : \E type : q = Rel(e, type, Ast(Ids[f]))
      <4>1. q \notin {Rel(e, "extension", Uml(b)) : b \in Bases[e]}
        BY <3>3, RelFacts
      <4>2. CASE q \in {Rel(e, "association", Ast(Ids[f])) : f \in Fields[e]}
        BY <4>2
      <4>3. CASE q \in {Rel(e, "dependency", Ast(Ids[p])) : p \in Params[e]}
        BY <4>3
      <4> QED
        BY <3>2, <4>1, <4>2, <4>3 DEF Declared
    <3>8. PICK type : q = Rel(e, type, Ast(Ids[f]))
      BY <3>4
    <3>5. f \in Outside
      <4> SUFFICES ASSUME f \notin Outside PROVE FALSE
        OBVIOUS
      <4>1. Resolve(q) = Rel(e, type, Uml(f))
        BY <1>1, <1>3, <2>1, <2>2, <3>8, ResolveKnown
      <4> QED
        BY <2>7, <3>1, <4>1, RelFacts
    <3>6. q.to = Ast(setting.ids[unit][f])
      BY <3>8, RelFacts DEF Ids
    <3>7. Resolve(q) = q
      BY <1>1, <1>3, <3>5, <3>6, ResolveOutside
    <3> QED
      BY <1>3, <3>1, <3>5, <3>6, <3>7
  <2> QED
    BY <1>1, <1>2, <1>6, <2>4, <2>5, <2>6, <2>7, ExactAfterRemoval
<1>9. IdsOfMet'
  BY <1>1, <1>2 DEF IdsOfMet
<1>10. \A r \in rels' : r.from \in complete'
  BY <1>2, <1>4 DEF ExactInv
<1> QED
  BY <1>2, <1>7, <1>8, <1>9, <1>10 DEF ExactInv

\* Steps that leave relationships and complete elements alone.
LEMMA SameExact ==
    ASSUME ExactInv, IdsOfMet', UNCHANGED <<setting, unit, pc, complete, rels>>
    PROVE  ExactInv'
<1>1. Ids' = Ids /\ Items' = Items /\ \A e : Declared(e)' = Declared(e)
  BY DEF Ids, Items, Declared
<1>2. \A e : Fresh(e)' = Fresh(e) /\ Settled(e)' = Settled(e)
  BY <1>1 DEF Fresh, Settled
<1> QED
  BY <1>2 DEF ExactInv

\* An item that was met and mapped.
LEMMA MetStep ==
    ASSUME IdsTellEntities, PlaceInv, OwnIds, IdsOfMet, NEW kind, Visiting(kind), at' = at + 1,
           UNCHANGED <<setting, unit, pc>>,
           \/ idMap' = idMap /\ (kind = "namespace" \/ Here.entity \in Outside)
           \/ idMap' = Mapped(Here.entity) /\ kind = "entity" /\ Here.entity \notin Outside
    PROVE  IdsOfMet'
<1>1. at \in 1..Len(Items) /\ Len(Items) \in Nat /\ Here = Items[at] /\ pc = "visit" /\ unit > 0
  BY ItemHere, UnitHere DEF Visiting, Here
<1>2. Items' = Items
  BY DEF Items
<1>3. /\ \A m \in idMap' : m.entity \notin Outside
      /\ \A x : (\E m \in idMap : m.entity = x) => \E m \in idMap' : m.entity = x
      /\ Here.kind = "entity" /\ Here.entity \notin Outside =>
            \E m \in idMap' : m.entity = Here.entity
  <2>1. CASE idMap' = idMap /\ (kind = "namespace" \/ Here.entity \in Outside)
    BY <2>1 DEF IdsOfMet, Visiting
  <2>2. CASE idMap' = Mapped(Here.entity) /\ kind = "entity" /\ Here.entity \notin Outside
    <3>1. Here.entity \in Entity
      BY <2>2, EntityHere
    <3>2. \A x : (\E m \in Mapped(Here.entity) : m.entity = x)
                     <=> (\E m \in idMap : m.entity = x) \/ x = Here.entity
      BY <1>1, <3>1, MappedKnows DEF PlaceInv
    <3>3. \A m \in idMap' : m.entity \notin Outside
      BY <2>2, <3>2 DEF IdsOfMet
    <3> QED
      BY <2>2, <3>2, <3>3
  <2> QED
    BY <2>1, <2>2
<1>4. ASSUME NEW k \in 1..Len(Items), k < at + 1, Items[k].kind = "entity",
             Items[k].entity \notin Outside
      PROVE  \E m \in idMap' : m.entity = Items[k].entity
  <2>1. CASE k < at
    BY <1>1, <1>3, <1>4, <2>1 DEF IdsOfMet
  <2>2. CASE k = at
    BY <1>1, <1>3, <1>4, <2>2
  <2> QED
    BY <1>1, <1>4, <2>1, <2>2
<1> QED
  BY <1>2, <1>3, <1>4 DEF IdsOfMet

\* BeginUnit: nothing is fresh between units.
LEMMA BeginUnitExact ==
    ASSUME PlaceInv, ExactInv, BeginUnit
    PROVE  ExactInv'
<1>1. /\ at' = 1 /\ idMap' = {} /\ pc = "between"
      /\ UNCHANGED <<setting, complete, rels>>
  BY DEF BeginUnit, model
<1>2. PlaceInv'
  BY BeginUnitStep
<1>3. ~ \E k \in (1..Len(Items))' : k < at'
  BY <1>1
<1>4. IdsOfMet'
  BY <1>1, <1>3 DEF IdsOfMet
<1>5. \A e \in complete : Settled(e)
  BY <1>1 DEF ExactInv, Fresh
<1>6. \A e : Settled(e)' = Settled(e)
  BY <1>1 DEF Settled
<1> QED
  BY <1>1, <1>4, <1>5, <1>6 DEF ExactInv

\* The other items that are no definitions.
LEMMA VisitExact ==
    ASSUME IdsTellEntities, PlaceInv, OwnIds, ExactInv,
           VisitNamespace \/ VisitOutside \/ VisitDeclaration
    PROVE  ExactInv'
<1>1. UNCHANGED <<setting, unit, pc, complete, rels>> /\ at' = at + 1
  BY DEF VisitNamespace, VisitOutside, VisitDeclaration, model
<1>2. IdsOfMet
  BY DEF ExactInv
<1>3. CASE VisitNamespace
  <2>1. Visiting("namespace") /\ idMap' = idMap
    BY <1>3 DEF VisitNamespace
  <2>2. IdsOfMet'
    BY <1>1, <1>2, <2>1, MetStep
  <2> QED
    BY <1>1, <2>2, SameExact
<1>4. CASE VisitOutside
  <2>1. Visiting("entity") /\ idMap' = idMap /\ Here.entity \in Outside
    BY <1>4 DEF VisitOutside
  <2>2. IdsOfMet'
    BY <1>1, <1>2, <2>1, MetStep
  <2> QED
    BY <1>1, <2>2, SameExact
<1>5. CASE VisitDeclaration
  <2>1. Visiting("entity") /\ idMap' = Mapped(Here.entity) /\ Here.entity \notin Outside
    BY <1>5 DEF VisitDeclaration
  <2>2. IdsOfMet'
    BY <1>1, <1>2, <2>1, MetStep
  <2> QED
    BY <1>1, <2>2, SameExact
<1> QED
  BY <1>3, <1>4, <1>5

\* DefineNew, DefineAgain: the element that becomes complete is fresh.
LEMMA DefineExact ==
    ASSUME IdsTellEntities, MentionedAreDeclared, PlaceInv, OwnIds, ExactInv,
           DefineNew \/ DefineAgain
    PROVE  ExactInv'
<1>0. PICK d : d = Here.entity
  OBVIOUS
<1>1. /\ Visiting("entity") /\ at' = at + 1 /\ Here.def /\ d \notin Outside
      /\ pc = "visit" /\ UNCHANGED <<setting, unit, pc>> /\ idMap' = Mapped(d)
  BY <1>0 DEF DefineNew, DefineAgain, Defining, Visiting
<1>2. IdsOfMet'
  BY <1>0, <1>1, MetStep DEF ExactInv
<1>3. /\ Ids' = Ids /\ Items' = Items /\ \A e : Declared(e)' = Declared(e)
  BY <1>1 DEF Ids, Items, Declared
<1>4. CASE UNCHANGED <<complete, rels>>
  BY <1>1, <1>2, <1>4, SameExact
<1>5. CASE /\ d \notin complete /\ complete' = complete \cup {d}
           /\ rels' = rels \cup Declared(d)
  <2>1. \A r \in Declared(d) : r.from = d
    BY RelFacts DEF Declared
  <2>2. \A r \in rels : r.from \in complete /\ r.from # d
    BY <1>5 DEF ExactInv
  <2>3. \A r \in rels' : r.from \in complete'
    BY <1>5, <2>1, <2>2
  <2>4. Fresh(d)'
    <3>1. {r \in rels' : r.from = d} = Declared(d)
      BY <1>5, <2>1, <2>2
    <3>2. \A f \in (Fields[d] \cup Params[d]) \ Outside :
             \E k \in 1..Len(Items) : Items[k].kind = "entity" /\ Items[k].entity = f
      <4>1. /\ unit \in 1..Len(setting.units) /\ at \in 1..Len(Items) /\ Here = Items[at]
            /\ Here.kind = "entity" /\ setting \in Settings
        BY <1>1, ItemHere DEF Here, PlaceInv, TypeOK
      <4>2. setting.units[unit] = Items
        BY DEF Items
      <4>3. \A s \in Settings : \A u \in 1..Len(s.units) : \A k \in 1..Len(s.units[u]) :
               (/\ s.units[u][k].kind = "entity" /\ s.units[u][k].def
                /\ s.units[u][k].entity \notin Outside)
               => \A f \in (Fields[s.units[u][k].entity] \cup Params[s.units[u][k].entity])
                            \ Outside :
                     \E j \in 1..Len(s.units[u]) :
                         s.units[u][j].kind = "entity" /\ s.units[u][j].entity = f
        BY DEF MentionedAreDeclared
      <4>4. /\ Items[at].kind = "entity" /\ Items[at].def /\ Items[at].entity = d
            /\ d \notin Outside
        BY <1>0, <1>1, <4>1
      <4>5. at \in 1..Len(setting.units[unit])
        BY <4>1, <4>2
      <4>6. \A f \in (Fields[d] \cup Params[d]) \ Outside :
               \E j \in 1..Len(setting.units[unit]) :
                   setting.units[unit][j].kind = "entity" /\ setting.units[unit][j].entity = f
        BY <4>1, <4>2, <4>3, <4>4, <4>5
      <4> QED
        BY <4>2, <4>6
    <3> QED
      BY <1>1, <1>3, <3>1, <3>2 DEF Fresh
  <2>5. ASSUME NEW e \in complete
        PROVE  Fresh(e)' \/ Settled(e)'
    <3>1. e # d /\ \A r : r.from = e => (r \in rels' <=> r \in rels)
      BY <1>5, <2>1
    <3>2. CASE Fresh(e)
      <4>1. {r \in rels' : r.from = e} = {r \in rels : r.from = e}
        BY <3>1
      <4> QED
        BY <1>1, <1>3, <3>2, <4>1 DEF Fresh
    <3>3. CASE Settled(e)
      BY <1>1, <3>1, <3>3, RelFacts DEF Settled
    <3> QED
      BY <3>2, <3>3 DEF ExactInv
  <2> QED
    BY <1>2, <1>5, <2>3, <2>4, <2>5 DEF ExactInv
<1>6. complete \subseteq elements
  BY DEF PlaceInv, TypeOK
<1> QED
  BY <1>0, <1>4, <1>5, <1>6 DEF DefineNew, DefineAgain

\* Every step.
LEMMA NextExact ==
    ASSUME IdsTellEntities, MentionedAreDeclared
    PROVE  RelInv /\ ExactInv /\ [Next]_vars => ExactInv'
<1> SUFFICES ASSUME RelInv, ExactInv, [Next]_vars PROVE ExactInv'
  OBVIOUS
<1>1. PlaceInv /\ OwnIds
  BY DEF RelInv
<1>2. CASE UNCHANGED vars
  <2>1. IdsOfMet'
    BY <1>2 DEF vars, visitor, ExactInv, IdsOfMet, Items
  <2> QED
    BY <1>2, <2>1, SameExact DEF vars, visitor, model
<1> QED
  BY <1>1, <1>2, BeginUnitExact, VisitExact, DefineExact, FinalizeExact DEF Next

\* After every unit the relationships of each complete element are those its definition
\* declares, with the ids of the model, and no redundant ones: whatever the units are,
\* as long as no id stands for two entities and a unit that defines an entity declares
\* what the definition mentions.
THEOREM ExactRelationships ==
    ASSUME IdsTellEntities, MentionedAreDeclared
    PROVE  Spec => []RelationshipsAreExact
<1>1. Init => RelInv /\ ExactInv
  <2> SUFFICES ASSUME Init PROVE ExactInv
    BY InitPlaceInv DEF RelInv
  <2> QED
    BY DEF Init, ExactInv, IdsOfMet
<1>2. RelInv /\ ExactInv /\ [Next]_vars => (RelInv /\ ExactInv)'
  BY NextRelInv, NextExact
<1>3. ExactInv /\ RelationshipsAreDeclared => RelationshipsAreExact
  <2> SUFFICES ASSUME ExactInv, pc = "between", NEW e \in complete PROVE Settled(e)
    BY DEF RelationshipsAreExact, Settled
  <2> QED
    BY DEF ExactInv, Fresh
<1>4. Spec => []RelationshipsAreDeclared
  BY OnlyDeclaredRelationships
<1> QED
  BY <1>1, <1>2, <1>3, <1>4, PTL DEF Spec
================================================================================
