----------------------------- MODULE FactoryProofs -----------------------------
(***************************************************************************)
(* The proofs about the template factory.  The inductive invariant relates  *)
(* the rows of templates, the rows of builds, what the hypervisor holds and *)
(* where the engine stands; steps that leave the lineage alone share a      *)
(* lemma, and so do those of a completion until it found its template; the  *)
(* statements that link, join and supersede are proved one by one.          *)
(***************************************************************************)
EXTENDS Factory, FiniteSetTheorems, TLAPS

------------------------------------------------------------------------------
(* The inductive invariant *)

\* Template r carries the name of build r, and only once its engine had it.
NamedAs(r, n) == IF r = 0 THEN n = Custom ELSE call[r].at = "done" /\ n = call[r].name

NamesOK ==
  /\ \A b \in Builds : call[b].at # "idle" => call[b].name # Custom
  /\ \A r \in Refs : vms[r] # None => NamedAs(r, vms[r])
  /\ \A r \in Present : NamedAs(r, rows[r].name)

\* What was listed and is not stored yet was there once.
ListedOK == \A r \in listing \union answer : r # 0 => call[r].at = "done"

BuildsOK ==
  \A b \in Builds :
    /\ call[b].at \in {"idle", "read"} => builds[b].status = "absent"
    /\ Exists(b) => builds[b].version = call[b].name[2]

EngineOK ==
  /\ engine.build = 0 <=> stage = "none"
  /\ engine.build # 0 => call[engine.build].at = "done"
  /\ admin.op # "none" => admin.build \in Builds

\* A linked template and its build refer to each other.
Paired(r) ==
  LET b == rows[r].build
  IN  /\ Exists(b) /\ builds[b].template = r /\ call[b].at = "done"
      /\ r # 0 /\ rows[r].version = call[r].name[2] /\ rows[r].version = builds[b].version

Linkage ==
  /\ \A r \in Managed : Paired(r)
  /\ \A r \in Managed : rows[r].build = engine.build => stage \in {"family", "supersede"}
  /\ \A r \in Present \ Managed : ~rows[r].family /\ rows[r].status = "active"
  /\ \A r \in Managed \ Family : rows[r].status = "active"

FoundOK ==
  /\ stage = "link" /\ found # -1
       => found \in Present /\ rows[found].name = call[engine.build].name
  /\ stage \in {"family", "supersede"} => found \in Present /\ rows[found].build = engine.build

\* A build that was not overtaken is newer than all of the family, until its own
\* template joins it.
Ahead ==
  engine.build # 0 /\ engine.build \notin overtaken
    => /\ \A r \in Family : \/ rows[r].version < call[engine.build].name[2]
                            \/ stage \in {"family", "supersede"} /\ r = found
       /\ stage = "family" => found \notin Family

IInv ==
  /\ FactoryTypeOK /\ NamesOK /\ ListedOK /\ BuildsOK /\ EngineOK /\ Linkage /\ FoundOK /\ Ahead
  /\ ActiveRowHasOwner /\ VersionsDistinct /\ OneActivePerFamily

------------------------------------------------------------------------------
(* Maxima of finite sets *)

\* By the well-foundedness of the finite subsets: the fewest elements above.
LEMMA MaxIsMax ==
  ASSUME NEW S \in SUBSET Int, IsFiniteSet(S), S # {}
  PROVE  Max(S) \in S /\ \A x \in S : x <= Max(S)
<1> DEFINE Above(m) == {x \in S : x > m}
           Uppers   == {Above(m) : m \in S}
<1>1. Uppers \subseteq FiniteSubsetsOf(S) /\ Uppers # {}
  <2>1. \A T \in SUBSET S : IsFiniteSet(T)
    BY FS_Subset
  <2>2. \A m \in S : Above(m) \in SUBSET S
    OBVIOUS
  <2> QED  BY <2>1, <2>2 DEF FiniteSubsetsOf
<1>2. PICK U \in Uppers : \A V \in Uppers : <<V, U>> \notin StrictSubsetOrdering(S)
  BY <1>1, FS_StrictSubsetOrderingWellFounded, WFMin, Zenon
<1>3. PICK m \in S : U = Above(m)
  OBVIOUS
<1>4. Above(m) = {}
  <2> SUFFICES ASSUME NEW n \in Above(m) PROVE FALSE
    OBVIOUS
  <2>1. n \in S /\ Above(n) \in Uppers
    OBVIOUS
  <2>2. \A x \in Above(n) : x \in S /\ x > n /\ n > m
    OBVIOUS
  <2>3. \A x \in S : x \in Int
    OBVIOUS
  <2>4. \A x \in Above(n) : x \in Above(m)
    BY <2>1, <2>2, <2>3
  <2>5. n \notin Above(n)
    BY <2>1, <2>3
  <2>6. Above(n) \in SUBSET S /\ Above(m) \in SUBSET S
    OBVIOUS
  <2> QED  BY <2>1, <2>4, <2>5, <2>6, <1>2, <1>3 DEF StrictSubsetOrdering
<1>5. \A y \in S : m >= y
  BY <1>4
<1> QED  BY <1>5 DEF Max

------------------------------------------------------------------------------
(* What the tables hold *)

FullRows == Rows \ {NoRow}

LEMMA RowFields ==
  ASSUME NEW row \in FullRows
  PROVE  /\ row.name \in Names /\ row.build \in {0} \union Builds
         /\ row.version \in Builds /\ row.status \in {"active", "superseded"}
         /\ row.family \in BOOLEAN /\ row.iso \in 0..MaxIso /\ row.by \in Refs \union {-1}
BY DEF FullRows, Rows

\* What the actions make of a row is a row.
LEMMA RowsMade ==
  /\ \A n \in Names : Synced(n) \in FullRows
  /\ \A row \in FullRows :
       /\ \A n \in Names : [row EXCEPT !.name = n] \in FullRows
       /\ [row EXCEPT !.family = TRUE] \in FullRows
       /\ \A r \in Refs : [row EXCEPT !.status = "superseded", !.by = r] \in FullRows
       /\ [row EXCEPT !.by = -1] \in FullRows
<1>0. NoRow \notin [name : Names, build : {0} \union Builds, version : Builds,
          iso : 0..MaxIso, family : BOOLEAN, status : {"active", "superseded"}, by : Refs \union {-1}]
  BY DEF NoRow, Names, None, Custom
<1>1. FullRows = [name : Names, build : {0} \union Builds, version : Builds,
          iso : 0..MaxIso, family : BOOLEAN, status : {"active", "superseded"}, by : Refs \union {-1}]
  BY <1>0 DEF FullRows, Rows
<1>2. \A n \in Names : Synced(n) \in FullRows
  BY <1>1, FactoryAssumption DEF Synced, Builds
<1>3. ASSUME NEW row \in FullRows
      PROVE  /\ \A n \in Names : [row EXCEPT !.name = n] \in FullRows
             /\ [row EXCEPT !.family = TRUE] \in FullRows
             /\ \A r \in Refs : [row EXCEPT !.status = "superseded", !.by = r] \in FullRows
             /\ [row EXCEPT !.by = -1] \in FullRows
  BY <1>1
<1> QED  BY <1>2, <1>3

\* Nor do they touch the build it was linked to.
LEMMA BuildStays ==
  ASSUME NEW row \in FullRows
  PROVE  /\ [row EXCEPT !.family = TRUE].build = row.build
         /\ \A f \in Refs : [row EXCEPT !.status = "superseded", !.by = f].build = row.build
         /\ [row EXCEPT !.by = -1].build = row.build
BY DEF FullRows, Rows

LiveBuilds == BuildRows \ {NoBuild}

LEMMA BuildsMade ==
  /\ \A row \in LiveBuilds :
       /\ row.version \in Builds /\ row.template \in Refs \union {-1}
       /\ row.iso \in 0..MaxIso /\ row.previous \in {0} \union Builds
       /\ row.status \in Active \union Ended \union {"deleted"}
       /\ \A s \in Active \union Ended \union {"deleted"} : [row EXCEPT !.status = s] \in LiveBuilds
       /\ \A i \in 0..MaxIso : [row EXCEPT !.iso = i] \in LiveBuilds
       /\ \A r \in Refs : [row EXCEPT !.template = r] \in LiveBuilds
  /\ \A v \in Builds, p \in {0} \union Builds :
       [status |-> "pending", version |-> v, template |-> -1, previous |-> p, iso |-> 0] \in LiveBuilds
<1>0. NoBuild \notin [status : Active \union Ended \union {"deleted"}, version : Builds,
              template : Refs \union {-1}, previous : {0} \union Builds, iso : 0..MaxIso]
  BY DEF NoBuild, Active, Ended
<1>1. LiveBuilds = [status : Active \union Ended \union {"deleted"}, version : Builds,
              template : Refs \union {-1}, previous : {0} \union Builds, iso : 0..MaxIso]
  BY <1>0 DEF LiveBuilds, BuildRows
<1>2. "pending" \in Active \union Ended \union {"deleted"} /\ 0 \in 0..MaxIso
  BY FactoryAssumption DEF Active
<1> QED  BY <1>1, <1>2

LEMMA LinkedIsRow ==
  ASSUME NEW row \in FullRows, NEW b \in Builds, builds[b] \in LiveBuilds
  PROVE  Linked(row, b) \in FullRows
<1>0. NoRow \notin [name : Names, build : {0} \union Builds, version : Builds,
          iso : 0..MaxIso, family : BOOLEAN, status : {"active", "superseded"}, by : Refs \union {-1}]
  BY DEF NoRow, Names, None, Custom
<1>1. FullRows = [name : Names, build : {0} \union Builds, version : Builds,
          iso : 0..MaxIso, family : BOOLEAN, status : {"active", "superseded"}, by : Refs \union {-1}]
  BY <1>0 DEF FullRows, Rows
<1>2. builds[b].version \in Builds /\ builds[b].iso \in 0..MaxIso
  BY BuildsMade
<1> QED  BY <1>1, <1>2 DEF Linked

LEMMA NamesHaveVersions ==
  Custom \in Names /\ None \notin Names /\ \A n \in Names : n[2] \in Builds
BY FactoryAssumption DEF Names, Custom, None, Builds

\* A row that is there, and a build that exists.
LEMMA Rows1 ==
  ASSUME FactoryTypeOK
  PROVE  /\ Present = {r \in Refs : rows[r] \in FullRows}
         /\ \A b \in Builds : Exists(b) => builds[b] \in LiveBuilds
         /\ \A b \in Builds : builds[b].status = "deleted" => builds[b] \in LiveBuilds
BY DEF FactoryTypeOK, Present, FullRows, Exists, LiveBuilds, NoBuild

------------------------------------------------------------------------------
(* The type invariant, variable by variable *)

BuildsTyped == builds \in [Builds -> BuildRows]
RowsTyped   == rows \in [Refs -> Rows]
CallTyped   == call \in [Builds -> [at : {"idle", "read", "created", "done"}, name : Names,
                                    prev : {0} \union Builds]]
EngineTyped ==
  /\ engine \in [build : {0} \union Builds, cancelled : BOOLEAN, attempt : 1..Attempts]
  /\ stage \in Working \union Completing \union {"none"}
  /\ found \in Refs \union {-1}
VMsTyped    == vms \in [Refs -> Names \union {None}]
AdminTyped  == admin \in [op : {"none", "cancel", "signal", "orphan", "delete"},
                          build : {0} \union Builds, left : 0..MaxActs]
RestTyped   ==
  /\ used \subseteq Refs /\ schedule \in Refs \union {-1}
  /\ iso \in 0..MaxIso /\ listing \union answer \subseteq Refs /\ conn \in {"free", "held"}
  /\ overtaken \union unwritten \subseteq Builds /\ cut \in BOOLEAN

LEMMA TypeParts ==
  FactoryTypeOK <=> /\ BuildsTyped /\ RowsTyped /\ CallTyped /\ EngineTyped
                    /\ VMsTyped /\ AdminTyped /\ RestTyped
BY DEF FactoryTypeOK, BuildsTyped, RowsTyped, CallTyped, EngineTyped, VMsTyped, AdminTyped, RestTyped

LEMMA TypePartsNext ==
  FactoryTypeOK' <=> /\ BuildsTyped' /\ RowsTyped' /\ CallTyped' /\ EngineTyped'
                     /\ VMsTyped' /\ AdminTyped' /\ RestTyped'
BY DEF FactoryTypeOK, BuildsTyped, RowsTyped, CallTyped, EngineTyped, VMsTyped, AdminTyped, RestTyped

LEMMA ActsTyped ==
  ASSUME AdminTyped
  PROVE  /\ MayAct /\ Acted => AdminTyped' /\ admin'.op = "none"
         /\ Done => AdminTyped' /\ admin'.op = "none"
<1>1. MayAct /\ Acted => AdminTyped' /\ admin'.op = "none"
  BY FactoryAssumption DEF AdminTyped, MayAct, Acted
<1>2. ASSUME Done PROVE AdminTyped' /\ admin'.op = "none"
  <2>1. admin' = [op |-> "none", build |-> 0, left |-> admin.left]
    BY <1>2 DEF Done, AdminTyped
  <2> QED  BY <2>1 DEF AdminTyped
<1> QED  BY <1>1, <1>2

LEMMA ReleasedTyped == Released => EngineTyped'
BY FactoryAssumption DEF Released, Rest, EngineTyped, Refs

------------------------------------------------------------------------------
(* Steps that leave the lineage alone *)

SameRows ==
  \A r \in Refs :
    /\ r \in Managed => /\ rows'[r] \in FullRows
                        /\ rows'[r].build = rows[r].build /\ rows'[r].version = rows[r].version
                        /\ rows'[r].family = rows[r].family /\ rows'[r].status = rows[r].status
                        /\ rows'[r].name = rows[r].name
    /\ r \notin Managed => rows'[r] = NoRow \/ /\ rows'[r] \in FullRows /\ rows'[r].build = 0
                                               /\ ~rows'[r].family /\ rows'[r].status = "active"
                                               /\ NamedAs(r, rows'[r].name)

\* A build may appear before its engine has it, and go when nothing refers to it.
SameBuilds ==
  /\ builds' \in [Builds -> BuildRows]
  /\ \A b \in Builds :
       /\ builds'[b].status = "absent" <=> builds[b].status = "absent"
       /\ Exists(b) => builds'[b].version = builds[b].version /\ builds'[b].template = builds[b].template
       /\ Exists(b)' => Exists(b)
       /\ Exists(b) /\ ~Exists(b)' => \A r \in Present : rows[r].build # b

\* A status is written, or the build is one whose last status was not.
LEMMA UpdateKeeps ==
  ASSUME IInv, NEW b \in {0} \union Builds, NEW s \in Active \union Ended, UpdateBuildStatus(b, s), b # 0
  PROVE  /\ SameBuilds /\ unwritten' \subseteq Builds
         /\ \A c \in Builds \ {b} : builds'[c] = builds[c] /\ (c \in unwritten' <=> c \in unwritten)
         /\ b \in unwritten' \/ builds'[b].status \in {s, "absent", "deleted"}
<1> USE DEF Exists
<1>0. s # "absent" /\ s # "deleted" /\ s \in Active \union Ended \union {"deleted"}
  BY DEF Active, Ended
<1>1. builds \in [Builds -> BuildRows] /\ LiveBuilds \subseteq BuildRows /\ b \in Builds /\ unwritten \subseteq Builds
  BY DEF IInv, FactoryTypeOK, LiveBuilds
<1>2. /\ unwritten' \subseteq Builds
      /\ \A c \in Builds \ {b} : c \in unwritten' <=> c \in unwritten
  BY <1>1 DEF UpdateBuildStatus
<1>3. CASE Exists(b) /\ builds' # builds
  <2>1. builds' = [builds EXCEPT ![b].status = s] /\ builds[b] \in LiveBuilds
    BY <1>1, <1>3, Rows1 DEF UpdateBuildStatus, IInv
  <2>2. builds'[b] = [builds[b] EXCEPT !.status = s] /\ builds'[b] \in LiveBuilds
        /\ \A c \in Builds \ {b} : builds'[c] = builds[c]
    BY <1>0, <1>1, <2>1, BuildsMade
  <2>3. builds'[b].status = s /\ builds'[b].version = builds[b].version
        /\ builds'[b].template = builds[b].template
    BY <1>0, <2>1, <2>2 DEF LiveBuilds, BuildRows, NoBuild
  <2>4. builds' \in [Builds -> BuildRows]
    BY <1>1, <2>1, <2>2
  <2>5. SameBuilds
    BY <1>0, <1>3, <2>2, <2>3, <2>4 DEF SameBuilds
  <2> QED  BY <1>2, <2>2, <2>3, <2>5
<1>4. CASE builds' = builds
  <2>1. SameBuilds
    BY <1>1, <1>4 DEF SameBuilds
  <2>2. b \in unwritten' \/ builds'[b].status \in {s, "absent", "deleted"}
    <3> SUFFICES ASSUME b \notin unwritten', Exists(b) PROVE builds'[b].status = s
      BY <1>4
    <3>1. builds' = [builds EXCEPT ![b].status = s]
      BY DEF UpdateBuildStatus
    <3>2. builds[b] \in LiveBuilds
      BY <1>1, Rows1 DEF IInv
    <3> QED  BY <1>1, <3>1, <3>2 DEF LiveBuilds, BuildRows
  <2> QED  BY <1>2, <1>4, <2>1, <2>2
<1> QED  BY <1>3, <1>4 DEF UpdateBuildStatus

LEMMA RowsKept ==
  ASSUME FactoryTypeOK, SameRows, Linkage
  PROVE  /\ Managed' = Managed /\ Family' = Family /\ ActiveInFamily' = ActiveInFamily
         /\ Present' = {r \in Refs : rows'[r] \in FullRows}
         /\ Managed \subseteq Refs /\ Family \subseteq Managed
         /\ \A r \in Managed : rows'[r] # NoRow /\ rows'[r].build = rows[r].build
                               /\ rows'[r].version = rows[r].version /\ rows'[r].name = rows[r].name
                               /\ rows'[r].status = rows[r].status /\ rows'[r].family = rows[r].family
<1>1. Family \subseteq Managed /\ Managed \subseteq Refs
  BY DEF Linkage, Family, Managed, Present
<1>2. Managed' = Managed
  BY DEF SameRows, Managed, Present, FullRows
<1>3. Family' = Family
  BY <1>1, <1>2 DEF SameRows, Family, Managed, Present, FullRows
<1>4. ActiveInFamily' = ActiveInFamily
  BY <1>1, <1>3 DEF SameRows, ActiveInFamily
<1> QED  BY <1>1, <1>2, <1>3, <1>4 DEF SameRows, Present, FullRows, FactoryTypeOK

\* Most steps keep the lineage: what is left to show is theirs alone.
LEMMA LineageKept ==
  ASSUME IInv, SameRows, SameBuilds, UNCHANGED overtaken,
         \A b \in Builds : call[b].at = "done" => call'[b] = call[b]
  PROVE  /\ \A r \in Managed' : Paired(r)'
         /\ \A r \in Present' \ Managed' : ~rows'[r].family /\ rows'[r].status = "active"
         /\ \A r \in Managed' \ Family' : rows'[r].status = "active"
         /\ VersionsDistinct'
<1> USE RowsKept DEF IInv
<1>1. \A r \in Managed' : Paired(r)'
  <2> SUFFICES ASSUME NEW r \in Managed' PROVE Paired(r)'
    OBVIOUS
  <2>1. r \in Managed /\ Paired(r) /\ rows'[r].build = rows[r].build /\ rows'[r].version = rows[r].version
    BY DEF Linkage
  <2>2. rows[r].build \in Builds /\ r \in Builds /\ r \in Present
    BY <2>1, Rows1, RowFields DEF Managed, Present, Paired, Refs, Builds
  <2>3. Exists(rows[r].build)' /\ builds'[rows[r].build].template = r
        /\ builds'[rows[r].build].version = rows[r].version
    BY <2>1, <2>2 DEF SameBuilds, Paired
  <2>4. call[r].at = "done"
    BY <2>1, <2>2 DEF NamesOK, NamedAs, Paired
  <2>5. call'[r] = call[r] /\ call'[rows[r].build] = call[rows[r].build]
    BY <2>1, <2>2, <2>4 DEF Paired
  <2> QED  BY <2>1, <2>2, <2>3, <2>5 DEF Paired
<1>2. \A r \in Present' \ Managed' : ~rows'[r].family /\ rows'[r].status = "active"
  BY DEF SameRows, Present
<1>3. \A r \in Managed' \ Family' : rows'[r].status = "active"
  BY DEF Linkage
<1>4. VersionsDistinct'
  BY DEF VersionsDistinct
<1> QED  BY <1>1, <1>2, <1>3, <1>4

LEMMA NothingChanges ==
  ASSUME IInv
  PROVE  /\ UNCHANGED builds => SameBuilds
         /\ UNCHANGED rows => SameRows
<1>1. UNCHANGED builds => SameBuilds
  BY DEF IInv, FactoryTypeOK, SameBuilds, Exists
<1>2. UNCHANGED rows => SameRows
  <2>1. \A r \in Present : rows[r] \in FullRows /\ rows[r].build \in {0} \union Builds
    BY Rows1, RowFields DEF IInv
  <2> QED  BY <2>1 DEF IInv, Linkage, NamesOK, SameRows, Managed, Present
<1> QED  BY <1>1, <1>2

------------------------------------------------------------------------------
(* Steps of users and of the world, which the engine does not notice *)

\* The row the completion found is still there, or the completion will see it is not.
FoundStays ==
  \/ found' = found /\ (found \in Present => rows'[found] # NoRow)
  \/ found' = -1 /\ found \notin Managed

LEMMA QuietStep ==
  ASSUME IInv, SameRows, SameBuilds, RowsTyped', VMsTyped', AdminTyped', RestTyped', EngineTyped',
         UNCHANGED <<call, stage, overtaken, cut>>, engine'.build = engine.build, FoundStays,
         \A r \in Refs : vms'[r] \in {vms[r], None},
         listing' \union answer' \subseteq listing \union answer \union Listed,
         \A b \in Builds \ unwritten' :
            builds'[b].status \in Active => builds[b].status \in Active /\ b \notin unwritten,
         admin'.op # "none" => admin'.build \in Builds
  PROVE  IInv'
<1> USE RowsKept, LineageKept DEF IInv
<1>1. FactoryTypeOK'
  BY TypeParts, TypePartsNext DEF SameBuilds, BuildsTyped, CallTyped
<1>2. NamesOK'
  <2>1. \A r \in Refs : vms'[r] # None => NamedAs(r, vms[r])'
    BY DEF NamesOK, NamedAs
  <2>2. \A r \in Present' : NamedAs(r, rows[r].name)'
    BY DEF NamesOK, NamedAs, SameRows, Present, Managed
  <2> QED  BY <2>1, <2>2 DEF NamesOK
<1>3. BuildsOK'
  BY DEF BuildsOK, SameBuilds, Exists
<1>4. EngineOK'
  BY DEF EngineOK
<1>5. Linkage'
  <2>1. \A r \in Managed' : rows'[r].build = engine'.build => stage' \in {"family", "supersede"}
    BY DEF Linkage
  <2> QED  BY <2>1 DEF Linkage
<1>6. FoundOK'
  <2>1. stage \in {"family", "supersede"} => found \in Managed
    BY DEF FoundOK, EngineOK, Managed
  <2>2. CASE stage = "link" /\ found' # -1
    <3>1. found' = found /\ found \in Present /\ rows'[found] # NoRow
      BY <2>2 DEF FoundStays, FoundOK
    <3>2. NamedAs(found, rows[found].name) /\ NamedAs(found, rows'[found].name)
      BY <3>1 DEF NamesOK, SameRows, Present, Managed
    <3> QED  BY <2>2, <3>1, <3>2 DEF FoundOK, NamedAs, Present
  <2> QED  BY <2>1, <2>2 DEF FoundOK, FoundStays, Present, Managed
<1>7. Ahead'
  <2>1. stage = "family" => found \in Managed
    BY DEF FoundOK, EngineOK, Managed
  <2>2. stage \in {"family", "supersede"} => found \in Managed /\ found' = found
    BY DEF FoundOK, EngineOK, Managed, FoundStays
  <2> QED  BY <2>1, <2>2 DEF Ahead
<1>8. ActiveRowHasOwner'
  BY DEF ActiveRowHasOwner
<1>9. OneActivePerFamily'
  <2>1. ActiveInFamily \subseteq Managed
    BY DEF ActiveInFamily
  <2> QED  BY <2>1 DEF OneActivePerFamily
<1>10. ListedOK'
  BY DEF ListedOK, Listed, NamesOK, NamedAs
<1> QED  BY <1>1, <1>2, <1>3, <1>4, <1>5, <1>6, <1>7, <1>8, <1>9, <1>10

------------------------------------------------------------------------------
(* The phases of the engine before its completion *)

LEMMA EnginePhase ==
  ASSUME IInv, SameBuilds, stage \in Working, UNCHANGED <<vms, rows, answer, conn>>, EngineKeeps,
         unwritten' \subseteq Builds,
         \/ /\ EngineTyped' /\ engine'.build = engine.build /\ stage' \in Working
         \/ Released,
         \A b \in Builds \ {engine.build} :
            builds'[b] = builds[b] /\ (b \in unwritten' <=> b \in unwritten),
         engine.build \in unwritten' \/ builds'[engine.build].status \notin Active \/ ~Released
  PROVE  IInv'
<1> USE NothingChanges, RowsKept, LineageKept DEF IInv
<1>0. engine.build # 0
  BY DEF EngineOK, Working
<1>1. FactoryTypeOK'
  BY TypeParts, TypePartsNext, ReleasedTyped
     DEF SameBuilds, BuildsTyped, CallTyped, EngineKeeps, RowsTyped, VMsTyped, AdminTyped, RestTyped
<1>2. NamesOK' /\ ListedOK'
  BY DEF NamesOK, ListedOK, NamedAs, EngineKeeps, Present
<1>3. BuildsOK'
  BY DEF BuildsOK, SameBuilds, Exists, EngineKeeps
<1>4. EngineOK'
  BY <1>0 DEF EngineOK, EngineKeeps, Released, Rest, Working
<1>5. Linkage'
  BY <1>0 DEF Linkage, EngineKeeps, Released, Rest, Managed, Working
<1>6. FoundOK'
  BY DEF FoundOK, Released, Working
<1>7. Ahead'
  BY <1>0 DEF Ahead, EngineKeeps, Released, Rest, Working
<1>8. ActiveRowHasOwner'
  <2> SUFFICES ASSUME NEW b \in Builds \ unwritten', builds'[b].status \in Active
               PROVE  call'[b].at = "created" \/ (engine'.build = b /\ stage' \in Working)
    BY DEF ActiveRowHasOwner
  <2>1. CASE b = engine.build
    BY <2>1
  <2>2. CASE b # engine.build
    BY <2>2 DEF ActiveRowHasOwner, EngineKeeps
  <2> QED  BY <2>1, <2>2
<1>9. OneActivePerFamily'
  BY DEF OneActivePerFamily, EngineKeeps, Released, Working
<1>10. VersionsDistinct'
  BY DEF EngineKeeps
<1> QED  BY <1>1, <1>2, <1>3, <1>4, <1>5, <1>6, <1>7, <1>8, <1>9, <1>10

\* The build failed or was cancelled: its row ends, if that can be written, and the
\* engine comes free.
LEMMA EndsBuild ==
  ASSUME IInv, stage \in Working, UNCHANGED <<vms, rows, answer, conn>>, EngineKeeps, Released,
         NEW s \in Ended, UpdateBuildStatus(engine.build, s)
  PROVE  IInv'
<1>1. engine.build \in {0} \union Builds /\ engine.build # 0 /\ s \in Active \union Ended /\ s \notin Active
  BY DEF IInv, EngineOK, FactoryTypeOK, Working, Active, Ended
<1>2. /\ SameBuilds /\ unwritten' \subseteq Builds
      /\ \A c \in Builds \ {engine.build} :
            builds'[c] = builds[c] /\ (c \in unwritten' <=> c \in unwritten)
      /\ engine.build \in unwritten' \/ builds'[engine.build].status \in {s, "absent", "deleted"}
  BY <1>1, UpdateKeeps
<1>3. engine.build \in unwritten' \/ builds'[engine.build].status \notin Active
  BY <1>1, <1>2 DEF Active
<1> QED  BY <1>2, <1>3, EnginePhase

\* The build goes on; its row may have changed.
LEMMA GoesOn ==
  ASSUME IInv, stage \in Working, UNCHANGED <<vms, rows, answer, conn, engine, found>>, EngineKeeps,
         stage' \in Working, SameBuilds, unwritten' \subseteq Builds,
         \A b \in Builds \ {engine.build} :
            builds'[b] = builds[b] /\ (b \in unwritten' <=> b \in unwritten)
  PROVE  IInv'
<1>1. EngineTyped'
  BY DEF IInv, FactoryTypeOK, EngineTyped
<1>2. ~Released
  BY DEF Released, Working
<1> QED  BY <1>1, <1>2, EnginePhase

\* It goes on without a write, or tries to write that it is building.
LEMMA GoesOnSame ==
  ASSUME IInv, stage \in Working, UNCHANGED <<builds, unwritten, vms, rows, answer, conn, engine, found>>,
         EngineKeeps, stage' \in Working
  PROVE  IInv'
<1>1. SameBuilds /\ unwritten' \subseteq Builds
      /\ \A b \in Builds \ {engine.build} :
            builds'[b] = builds[b] /\ (b \in unwritten' <=> b \in unwritten)
  BY NothingChanges DEF IInv, FactoryTypeOK
<1> QED  BY <1>1, GoesOn

LEMMA GoesOnBuilding ==
  ASSUME IInv, stage \in Working, UNCHANGED <<vms, rows, answer, conn, engine, found>>,
         EngineKeeps, stage' \in Working, UpdateBuildStatus(engine.build, "building")
  PROVE  IInv'
<1>1. engine.build \in {0} \union Builds /\ engine.build # 0 /\ "building" \in Active \union Ended
  BY DEF IInv, EngineOK, FactoryTypeOK, Working, Active
<1>2. SameBuilds /\ unwritten' \subseteq Builds
      /\ \A b \in Builds \ {engine.build} :
            builds'[b] = builds[b] /\ (b \in unwritten' <=> b \in unwritten)
  BY <1>1, UpdateKeeps
<1> QED  BY <1>2, GoesOn

LEMMA SetupStep == ASSUME IInv, Setup PROVE IInv'
<1>1. CASE FailBuild
  BY <1>1, EndsBuild DEF Setup, FailBuild, Working, Ended
<1>2. CASE UpdateBuildStatus(engine.build, "building") /\ stage' = "generate" /\ UNCHANGED <<engine, found>>
  BY <1>2, GoesOnBuilding DEF Setup, Working
<1> QED  BY <1>1, <1>2 DEF Setup

LEMMA GenerateStep == ASSUME IInv, Generate PROVE IInv'
<1>1. CASE FailBuild
  BY <1>1, EndsBuild DEF Generate, FailBuild, Working, Ended
<1>2. CASE ~FailBuild
  <2>0. engine.build \in Builds /\ builds \in [Builds -> BuildRows]
    BY DEF Generate, IInv, FactoryTypeOK, EngineOK
  <2>1. PICK sum \in ResolveChecksum :
          builds' = IF Exists(engine.build) THEN [builds EXCEPT ![engine.build].iso = sum] ELSE builds
    BY <1>2 DEF Generate
  <2>2. /\ stage = "generate" /\ stage' = "files"
        /\ UNCHANGED <<engine, found, unwritten, vms, rows, answer, conn>> /\ EngineKeeps
        /\ unwritten' \subseteq Builds
    BY <1>2 DEF Generate, IInv, FactoryTypeOK
  <2>3. sum \in 0..MaxIso
    BY <2>1, FactoryAssumption DEF ResolveChecksum, IInv, FactoryTypeOK
  <2>4. CASE Exists(engine.build)
    <3>1. builds[engine.build] \in LiveBuilds
      BY <2>0, <2>4, Rows1 DEF IInv
    <3>2. builds'[engine.build] = [builds[engine.build] EXCEPT !.iso = sum]
          /\ builds'[engine.build] \in LiveBuilds
          /\ \A b \in Builds \ {engine.build} : builds'[b] = builds[b]
      BY <2>0, <2>1, <2>3, <2>4, <3>1, BuildsMade
    <3>3. builds'[engine.build].status = builds[engine.build].status
          /\ builds'[engine.build].version = builds[engine.build].version
          /\ builds'[engine.build].template = builds[engine.build].template
      BY <3>1, <3>2 DEF LiveBuilds, BuildRows
    <3>4. builds' \in [Builds -> BuildRows]
      BY <2>0, <2>1, <2>4, <3>2 DEF LiveBuilds
    <3>5. SameBuilds
      BY <3>2, <3>3, <3>4 DEF SameBuilds, Exists
    <3> QED  BY <2>2, <3>2, <3>5, GoesOn DEF Working
  <2>5. CASE ~Exists(engine.build)
    BY <2>1, <2>2, <2>5, GoesOnSame DEF Working
  <2> QED  BY <2>4, <2>5
<1> QED  BY <1>1, <1>2

LEMMA WriteFilesStep == ASSUME IInv, WriteFiles PROVE IInv'
<1>1. CASE FailBuild
  BY <1>1, EndsBuild DEF WriteFiles, FailBuild, Working, Ended
<1>2. CASE ~FailBuild
  BY <1>2, GoesOnSame DEF WriteFiles, RecordKeeps, Working
<1> QED  BY <1>1, <1>2

LEMMA PackerInitStep == ASSUME IInv, PackerInit PROVE IInv'
<1>1. CASE FailBuild
  BY <1>1, EndsBuild DEF PackerInit, FailBuild, Working, Ended
<1>2. CASE HandleCancel
  BY <1>2, EndsBuild DEF PackerInit, HandleCancel, Working, Ended
<1>3. CASE UpdateBuildStatus(engine.build, "building") /\ stage' = "build" /\ UNCHANGED <<engine, found>>
  BY <1>3, GoesOnBuilding DEF PackerInit, Working
<1> QED  BY <1>1, <1>2, <1>3 DEF PackerInit

LEMMA PackerFailsStep == ASSUME IInv, PackerFails PROVE IInv'
<1>1. CASE FailBuild
  BY <1>1, EndsBuild DEF PackerFails, FailBuild, Working, Ended
<1>2. CASE stage' = "retry" /\ RecordKeeps /\ UNCHANGED <<engine, found>>
  BY <1>2, GoesOnSame DEF PackerFails, RecordKeeps, Working
<1> QED  BY <1>1, <1>2 DEF PackerFails

LEMMA PackerCancelledStep == ASSUME IInv, PackerCancelled PROVE IInv'
BY EndsBuild DEF PackerCancelled, HandleCancel, Working, Ended

LEMMA DeadlineStep == ASSUME IInv, Deadline PROVE IInv'
<1>1. EngineTyped' /\ engine'.build = engine.build /\ stage' \in Working
  BY DEF IInv, FactoryTypeOK, EngineTyped, Deadline
<1>2. ~Released
  BY <1>1 DEF Released, Working
<1>3. SameBuilds /\ unwritten' \subseteq Builds
      /\ \A b \in Builds \ {engine.build} :
            builds'[b] = builds[b] /\ (b \in unwritten' <=> b \in unwritten)
  BY NothingChanges DEF Deadline, RecordKeeps, IInv, FactoryTypeOK
<1> QED  BY <1>1, <1>2, <1>3, EnginePhase DEF Deadline

------------------------------------------------------------------------------
(* Users, administrators and the world *)

\* Steps that change nothing the lineage depends on.
LEMMA OnlyTheRest ==
  ASSUME IInv, UNCHANGED <<builds, unwritten, call, stage, found, vms, rows, overtaken, cut>>,
         engine'.build = engine.build, EngineTyped', AdminTyped', RestTyped',
         listing' \union answer' \subseteq listing \union answer \union Listed,
         admin'.op # "none" => admin'.build \in Builds
  PROVE  IInv'
<1>1. SameRows /\ SameBuilds /\ FoundStays
  BY NothingChanges DEF FoundStays, Present
<1>2. RowsTyped' /\ VMsTyped'
  BY DEF IInv, FactoryTypeOK, RowsTyped, VMsTyped
<1> QED  BY <1>1, <1>2, QuietStep

LEMMA ReadBuildStep ==
  ASSUME IInv, NEW op, NEW b \in Builds, ReadBuild(op, b)
  PROVE  IInv'
<1>1. AdminTyped' /\ admin'.build \in Builds
  BY FactoryAssumption DEF IInv, FactoryTypeOK, AdminTyped, ReadBuild, MayAct
<1>2. EngineTyped' /\ RestTyped'
  BY DEF IInv, FactoryTypeOK, EngineTyped, RestTyped, ReadBuild, AdminKeeps, RecordKeeps
<1> QED  BY <1>1, <1>2, OnlyTheRest DEF ReadBuild, AdminKeeps, RecordKeeps

LEMMA CheckRunningStep == ASSUME IInv, CheckRunning PROVE IInv'
<1>1. AdminTyped' /\ admin'.build \in Builds
  BY DEF IInv, FactoryTypeOK, AdminTyped, CheckRunning, EngineOK
<1>2. EngineTyped' /\ RestTyped'
  BY DEF IInv, FactoryTypeOK, EngineTyped, RestTyped, CheckRunning, AdminKeeps, RecordKeeps
<1> QED  BY <1>1, <1>2, OnlyTheRest DEF CheckRunning, AdminKeeps, RecordKeeps

LEMMA SignalStep == ASSUME IInv, Signal PROVE IInv'
<1>1. AdminTyped' /\ admin'.op = "none"
  BY ActsTyped, TypeParts DEF IInv, Signal
<1>2. EngineTyped' /\ RestTyped' /\ engine'.build = engine.build
  BY DEF IInv, FactoryTypeOK, EngineTyped, RestTyped, Signal, AdminKeeps, RecordKeeps
<1> QED  BY <1>1, <1>2, OnlyTheRest DEF Signal, AdminKeeps, RecordKeeps

LEMMA CancelOrphanStep == ASSUME IInv, CancelOrphan PROVE IInv'
<1>1. AdminTyped' /\ admin'.op = "none"
  BY ActsTyped, TypeParts DEF IInv, CancelOrphan
<1>2. EngineTyped' /\ RowsTyped' /\ VMsTyped' /\ FoundStays
  BY DEF IInv, FactoryTypeOK, EngineTyped, RowsTyped, VMsTyped, CancelOrphan, AdminKeeps,
         FoundStays, Present
<1>3. admin.build \in Builds /\ admin.build \in {0} \union Builds /\ admin.build # 0
      /\ "cancelled" \in Active \union Ended /\ "cancelled" \notin Active
  BY DEF IInv, EngineOK, CancelOrphan, Builds, Ended, Active
<1>4. /\ SameBuilds /\ unwritten' \subseteq Builds
      /\ \A b \in Builds \ {admin.build} :
            builds'[b] = builds[b] /\ (b \in unwritten' <=> b \in unwritten)
      /\ admin.build \in unwritten' \/ builds'[admin.build].status \in {"cancelled", "absent", "deleted"}
  BY <1>3, UpdateKeeps DEF CancelOrphan
<1>5. \A b \in Builds \ unwritten' :
         builds'[b].status \in Active => builds[b].status \in Active /\ b \notin unwritten
  BY <1>3, <1>4 DEF Active
<1>6. SameRows /\ RestTyped'
  BY <1>4, NothingChanges DEF CancelOrphan, AdminKeeps, RestTyped, IInv, FactoryTypeOK
<1> QED  BY <1>1, <1>2, <1>4, <1>5, <1>6, QuietStep DEF CancelOrphan, AdminKeeps

LEMMA DeleteBuildStep == ASSUME IInv, DeleteBuild PROVE IInv'
<1>1. AdminTyped' /\ admin'.op = "none"
  BY ActsTyped, TypeParts DEF IInv, DeleteBuild
<1>2. EngineTyped' /\ RestTyped' /\ RowsTyped' /\ VMsTyped' /\ FoundStays
  BY DEF IInv, FactoryTypeOK, EngineTyped, RestTyped, RowsTyped, VMsTyped, DeleteBuild, AdminKeeps,
         FoundStays, Present
<1>3. admin.build \in Builds /\ builds \in [Builds -> BuildRows]
  BY DEF IInv, EngineOK, DeleteBuild, FactoryTypeOK
<1>4. SameBuilds /\ \A b \in Builds : builds'[b].status \in Active => builds[b].status \in Active
  <2>1. CASE ~BuildReferenced(admin.build) /\ Exists(admin.build)
    <3>1. builds[admin.build] \in LiveBuilds
      BY <1>3, <2>1, Rows1 DEF IInv
    <3>2. builds' = [builds EXCEPT ![admin.build].status = "deleted"]
      BY <2>1 DEF DeleteBuild
    <3>3. builds'[admin.build].status = "deleted" /\ builds'[admin.build] \in LiveBuilds
      BY <1>3, <3>1, <3>2, BuildsMade DEF LiveBuilds, BuildRows
    <3>4. \A b \in Builds \ {admin.build} : builds'[b] = builds[b]
      BY <1>3, <3>2
    <3>5. builds' \in [Builds -> BuildRows]
      BY <1>3, <3>2, <3>3 DEF LiveBuilds
    <3>6. builds'[admin.build].version = builds[admin.build].version
          /\ builds'[admin.build].template = builds[admin.build].template
      BY <1>3, <3>1, <3>2 DEF LiveBuilds, BuildRows
    <3>7. \A r \in Present : rows[r].build # admin.build
      BY <2>1 DEF BuildReferenced
    <3> QED  BY <1>3, <2>1, <3>3, <3>4, <3>5, <3>6, <3>7 DEF SameBuilds, Exists, Active
  <2>2. CASE BuildReferenced(admin.build) \/ ~Exists(admin.build)
    BY <2>2, NothingChanges DEF DeleteBuild
  <2> QED  BY <2>1, <2>2
<1>5. SameRows
  BY NothingChanges DEF DeleteBuild
<1> QED  BY <1>1, <1>2, <1>4, <1>5, QuietStep DEF DeleteBuild, AdminKeeps

\* A superseded template is in the family, so its build refers to it.
LEMMA CleanupKeepsRows ==
  ASSUME IInv, NEW r \in Refs, CleanupSuperseded(r)
  PROVE  rows' = rows
<1>1. CleanupRefused(r)
  <2>1. PICK q \in Superseded(r) : TRUE
    BY DEF CleanupSuperseded
  <2>2. q \in Managed /\ rows[q].build \in {0} \union Builds
    BY <2>1, Rows1, RowFields DEF Superseded, IInv, Linkage
  <2>3. Referenced(q, Superseded(r))
    BY <2>2 DEF IInv, Linkage, Paired, Referenced, Managed
  <2> QED  BY <2>1, <2>3 DEF CleanupRefused
<1> QED  BY <1>1 DEF CleanupSuperseded, IInv, FactoryTypeOK

LEMMA CleanupStep ==
  ASSUME IInv, NEW r \in Refs, CleanupSuperseded(r)
  PROVE  IInv'
<1>2. rows' = rows
  BY CleanupKeepsRows
<1>3. AdminTyped' /\ admin'.op = "none"
  BY ActsTyped, TypeParts DEF IInv, CleanupSuperseded
<1>4. EngineTyped' /\ RestTyped'
  BY DEF IInv, FactoryTypeOK, EngineTyped, RestTyped, CleanupSuperseded, AdminKeeps, RecordKeeps
<1> QED  BY <1>2, <1>3, <1>4, OnlyTheRest DEF CleanupSuperseded, AdminKeeps, RecordKeeps

LEMMA DeleteTemplateStep ==
  ASSUME IInv, NEW r \in Refs, NEW destroy \in BOOLEAN, DeleteTemplate(r, destroy)
  PROVE  IInv'
<1>1. AdminTyped' /\ admin'.op = "none"
  BY ActsTyped, TypeParts DEF IInv, DeleteTemplate
<1>2. VMsTyped' /\ (\A q \in Refs : vms'[q] \in {vms[q], None}) /\ EngineTyped' /\ RestTyped'
  <2>1. VMsTyped' /\ \A q \in Refs : vms'[q] \in {vms[q], None}
    BY DEF IInv, FactoryTypeOK, VMsTyped, DeleteTemplate
  <2>2. EngineTyped' /\ RestTyped'
    BY DEF IInv, FactoryTypeOK, EngineTyped, RestTyped, DeleteTemplate, RecordKeeps
  <2> QED  BY <2>1, <2>2
<1>3. SameRows /\ RowsTyped' /\ FoundStays
  <2>1. CASE r \in Managed
    <3>1. rows' = rows /\ found' = found
      BY <2>1 DEF DeleteTemplate
    <3> QED  BY <3>1, NothingChanges DEF FoundStays, Present, RowsTyped, IInv, FactoryTypeOK
  <2>2. CASE r \notin Managed
    <3>1. \A q \in Refs : rows'[q] = IF q = r THEN NoRow
                          ELSE IF q \in Present /\ rows[q].by = r THEN [rows[q] EXCEPT !.by = -1]
                          ELSE rows[q]
      BY <2>2 DEF DeleteTemplate
    <3>2. \A q \in Present : rows[q] \in FullRows /\ [rows[q] EXCEPT !.by = -1] \in FullRows
      BY Rows1, RowsMade DEF IInv
    <3>3. \A q \in Refs \ {r} : (rows'[q] = NoRow /\ q \notin Present) \/
             /\ q \in Present /\ rows'[q] \in FullRows /\ rows'[q].build = rows[q].build
             /\ rows'[q].version = rows[q].version /\ rows'[q].family = rows[q].family
             /\ rows'[q].status = rows[q].status /\ rows'[q].name = rows[q].name
      <4> SUFFICES ASSUME NEW q \in Refs \ {r}, q \in Present
                   PROVE  /\ rows'[q] \in FullRows /\ rows'[q].build = rows[q].build
                          /\ rows'[q].version = rows[q].version /\ rows'[q].family = rows[q].family
                          /\ rows'[q].status = rows[q].status /\ rows'[q].name = rows[q].name
        BY <3>1 DEF Present
      <4>1. CASE rows'[q] = rows[q]
        BY <4>1, <3>2
      <4>2. CASE rows'[q] = [rows[q] EXCEPT !.by = -1]
        BY <4>2, <3>2 DEF FullRows, Rows
      <4> QED  BY <3>1, <4>1, <4>2
    <3>4. SameRows
      BY <2>2, <3>1, <3>3 DEF SameRows, IInv, Linkage, NamesOK, Managed
    <3>5. RowsTyped'
      BY <2>2, <3>1, <3>3 DEF DeleteTemplate, RowsTyped, FullRows, Rows
    <3>6. FoundStays
      BY <2>2, <3>1, <3>3 DEF DeleteTemplate, FoundStays, FullRows, Present
    <3> QED  BY <3>4, <3>5, <3>6
  <2> QED  BY <2>1, <2>2
<1>4. SameBuilds
  BY NothingChanges DEF DeleteTemplate, RecordKeeps
<1> QED  BY <1>1, <1>2, <1>3, <1>4, QuietStep DEF DeleteTemplate, RecordKeeps

LEMMA RestStep ==
  ASSUME IInv, \/ ListTemplates \/ CreateSchedule \/ DeleteSchedule \/ Publish
               \/ \E r \in Refs : Deploy(r)
  PROVE  IInv'
<1>1. AdminTyped' /\ (admin'.op = "none" \/ admin' = admin)
  BY ActsTyped, TypeParts
     DEF IInv, ListTemplates, CreateSchedule, DeleteSchedule, Publish, Deploy, AdminTyped
<1>2. RestTyped'
  BY FactoryAssumption DEF IInv, FactoryTypeOK, RestTyped, ListTemplates, CreateSchedule,
     DeleteSchedule, Publish, Deploy, AdminKeeps, RecordKeeps, Listed, Managed, Present
<1>3. UNCHANGED <<builds, unwritten, call, engine, stage, found, vms, rows, overtaken, cut>>
  BY DEF ListTemplates, CreateSchedule, DeleteSchedule, Publish, Deploy, AdminKeeps, RecordKeeps
<1>4. EngineTyped'
  BY <1>3 DEF IInv, FactoryTypeOK, EngineTyped
<1>5. admin'.op # "none" => admin'.build \in Builds
  BY <1>1 DEF IInv, EngineOK
<1>6. listing' \union answer' \subseteq listing \union answer \union Listed
  BY DEF ListTemplates, CreateSchedule, DeleteSchedule, Publish, Deploy, AdminKeeps
<1> QED  BY <1>1, <1>2, <1>3, <1>4, <1>5, <1>6, OnlyTheRest

------------------------------------------------------------------------------
(* Requests *)

LEMMA RequestStep ==
  ASSUME IInv, NEW b \in Builds, NEW base \in {"fm-os-target", "base"},
         NEW previous \in {0} \union Builds, Request(b, base, previous)
  PROVE  IInv'
<1> USE DEF IInv
<1>1. call[b].at = "idle" /\ <<base, NextVersion>> \in Names \ {Custom}
      /\ call' = [call EXCEPT ![b] = [at |-> "read", name |-> <<base, NextVersion>>,
                                      prev |-> previous]]
  BY DEF Request, NextRow, Names, Custom
<1>2. CallTyped'
  BY <1>1 DEF FactoryTypeOK, CallTyped
<1>3. FactoryTypeOK'
  BY <1>2, TypeParts, TypePartsNext DEF Request, BuildsTyped, RowsTyped, EngineTyped, VMsTyped,
     AdminTyped, RestTyped
<1>4. call'[b].at = "read" /\ call'[b].name # Custom /\ \A c \in Builds \ {b} : call'[c] = call[c]
  BY <1>1 DEF FactoryTypeOK
<1>5. SameRows /\ SameBuilds /\ UNCHANGED <<builds, engine, stage, found, vms, rows, admin, overtaken,
                                            listing, answer, unwritten, cut>>
  BY NothingChanges DEF Request
<1>6. \A c \in Builds : call[c].at = "done" => call'[c] = call[c]
  BY <1>1, <1>4
<1>7. NamesOK' /\ ListedOK'
  <2>1. NamesOK'
    BY <1>4, <1>5, <1>6 DEF NamesOK, NamedAs, Present, Builds, Refs
  <2> QED  BY <1>5, <1>6, <2>1 DEF ListedOK, FactoryTypeOK, Builds, Refs
<1>8. BuildsOK'
  BY <1>1, <1>4, <1>5 DEF BuildsOK, Exists
<1>9. EngineOK'
  BY <1>5, <1>6 DEF EngineOK, FactoryTypeOK
<1>10. Linkage' /\ VersionsDistinct'
  BY <1>5, <1>6, LineageKept, RowsKept DEF Linkage
<1>11. FoundOK' /\ Ahead'
  BY <1>5, <1>6 DEF FoundOK, Ahead, EngineOK, FactoryTypeOK, Present, Family
<1>12. ActiveRowHasOwner'
  BY <1>1, <1>4, <1>5 DEF ActiveRowHasOwner
<1>13. OneActivePerFamily'
  BY <1>5 DEF OneActivePerFamily, ActiveInFamily, Family, Present
<1> QED  BY <1>3, <1>7, <1>8, <1>9, <1>10, <1>11, <1>12, <1>13

LEMMA RebuildStep ==
  ASSUME IInv, NEW b \in Builds, NEW r \in Refs, RebuildTemplate(b, r)
  PROVE  IInv'
<1>1. rows[r].build \in {0} \union Builds
  BY Rows1, RowFields DEF RebuildTemplate, Managed, IInv
<1> QED  BY <1>1, RequestStep DEF RebuildTemplate

LEMMA CreateStep ==
  ASSUME IInv, NEW b \in Builds, CreateTemplateBuild(b)
  PROVE  IInv'
<1> USE DEF IInv
<1>1. call[b].at = "read" /\ builds[b].status = "absent" /\ b # engine.build
      /\ UNCHANGED <<engine, stage, found, vms, rows, admin, overtaken, listing, answer, unwritten, cut>>
  BY DEF CreateTemplateBuild, BuildsOK, EngineOK, Builds
<1>2. call[b].name[2] \in Builds /\ call[b].prev \in {0} \union Builds
  BY NamesHaveVersions DEF FactoryTypeOK
<1>3. /\ builds'[b] = [status |-> "pending", version |-> call[b].name[2],
                       template |-> -1, previous |-> call[b].prev, iso |-> 0]
      /\ builds'[b] \in LiveBuilds
      /\ \A c \in Builds \ {b} : builds'[c] = builds[c]
  BY <1>2, BuildsMade DEF CreateTemplateBuild, FactoryTypeOK
<1>4. builds' \in [Builds -> BuildRows]
  BY <1>3 DEF CreateTemplateBuild, FactoryTypeOK, LiveBuilds
<1>5. /\ call'[b].at = "created" /\ call'[b].name = call[b].name
      /\ \A c \in Builds \ {b} : call'[c] = call[c]
      /\ CallTyped'
  BY <1>1 DEF CreateTemplateBuild, FactoryTypeOK, CallTyped
<1>6. FactoryTypeOK'
  BY <1>4, <1>5, TypeParts, TypePartsNext DEF CreateTemplateBuild, BuildsTyped, RowsTyped, EngineTyped,
     VMsTyped, AdminTyped, RestTyped
<1>7. \A c \in Builds : call[c].at = "done" => call'[c] = call[c] /\ c # b
  BY <1>1, <1>5
<1>8. NamesOK' /\ ListedOK'
  <2>1. NamesOK'
    BY <1>1, <1>5, <1>7 DEF NamesOK, NamedAs, Present, Builds, Refs
  <2> QED  BY <1>1, <1>7, <2>1 DEF ListedOK, FactoryTypeOK, Builds, Refs
<1>9. BuildsOK'
  BY <1>1, <1>3, <1>5 DEF BuildsOK, Exists
<1>10. EngineOK'
  BY <1>1, <1>7 DEF EngineOK, FactoryTypeOK
<1>11. Linkage'
  <2>1. \A r \in Managed : rows[r].build \in Builds /\ r \in Builds /\ r \in Present
    BY Rows1, RowFields DEF Managed, Linkage, Paired, Present, Builds, Refs
  <2>2. \A r \in Managed : call[r].at = "done" /\ rows[r].build # b
    BY <1>1, <2>1 DEF Linkage, Paired, NamesOK, NamedAs
  <2>3. \A r \in Managed : Paired(r)'
    BY <1>1, <1>3, <1>7, <2>1, <2>2 DEF Linkage, Paired, Exists
  <2> QED  BY <1>1, <2>3 DEF Linkage, Managed, Present, Family
<1>12. FoundOK' /\ Ahead'
  BY <1>1, <1>7 DEF FoundOK, Ahead, EngineOK, FactoryTypeOK, Present, Family
<1>13. ActiveRowHasOwner'
  BY <1>1, <1>3, <1>5 DEF ActiveRowHasOwner
<1>14. VersionsDistinct' /\ OneActivePerFamily'
  BY <1>1 DEF VersionsDistinct, OneActivePerFamily, ActiveInFamily, Family, Present
<1> QED  BY <1>6, <1>8, <1>9, <1>10, <1>11, <1>12, <1>13, <1>14

\* The version a request reads is above all of the family.
LEMMA NextIsAhead ==
  ASSUME IInv
  PROVE  NextVersion \in Int /\ \A r \in Family : rows[r].version < NextVersion
<1> DEFINE S == {0} \union {rows[r].version : r \in Family}
<1>1. \A r \in Family : rows[r].version \in Builds
  BY Rows1, RowFields DEF IInv, Family
<1>2. S \subseteq 0..MaxBuilds
  BY <1>1, FactoryAssumption DEF Builds
<1>3. IsFiniteSet(S) /\ S \in SUBSET Int /\ S # {}
  <2>1. IsFiniteSet(0..MaxBuilds)
    BY FactoryAssumption, FS_Interval
  <2>2. S \in SUBSET (0..MaxBuilds)
    BY <1>2
  <2>3. S # {}
    OBVIOUS
  <2> HIDE DEF S
  <2>4. IsFiniteSet(S)
    BY <2>1, <2>2, FS_Subset
  <2> QED  BY <2>2, <2>3, <2>4
<1>4. Max(S) \in S /\ \A x \in S : x <= Max(S)
  BY <1>3, MaxIsMax
<1>5. Max(S) \in Int
  BY <1>3, <1>4
<1>6. NextVersion = Max(S) + 1
  BY DEF NextVersion, GetMaxVersionInFamily
<1> HIDE DEF S
<1>7. \A r \in Family : rows[r].version \in S /\ rows[r].version \in Int
  BY <1>3 DEF S
<1> QED  BY <1>4, <1>5, <1>6, <1>7

LEMMA RunStep ==
  ASSUME IInv, NEW b \in Builds, RunBuild(b)
  PROVE  IInv'
<1> USE DEF IInv
<1>1. call[b].at = "created" /\ UNCHANGED <<found, vms, rows, admin, listing, answer, cut>> /\ b # 0
  BY DEF RunBuild, Builds
<1>2. /\ call'[b].at = "done" /\ call'[b].name = call[b].name
      /\ \A c \in Builds \ {b} : call'[c] = call[c]
      /\ CallTyped'
  BY <1>1 DEF RunBuild, FactoryTypeOK, CallTyped
<1>3. \A c \in Builds : call[c].at = "done" => call'[c] = call[c] /\ c # b
  BY <1>1, <1>2
<1>4. NamesOK' /\ ListedOK'
  <2>1. NamesOK'
    BY <1>1, <1>2, <1>3 DEF NamesOK, NamedAs, Present, Builds, Refs
  <2> QED  BY <1>1, <1>3, <2>1 DEF ListedOK, FactoryTypeOK, Builds, Refs
<1>5. CASE /\ Free(b)
           /\ engine' = [Rest EXCEPT !.build = b] /\ stage' = "setup"
           /\ overtaken' = IF call[b].name[2] = NextVersion THEN overtaken
                           ELSE overtaken \union {b}
           /\ UNCHANGED <<builds, unwritten>>
  <2>0. engine' = [build |-> b, cancelled |-> FALSE, attempt |-> 1]
    BY <1>5 DEF Rest
  <2>1. EngineTyped' /\ engine.build = 0 /\ stage = "none" /\ engine'.build = b
    <3>1. 1 \in 1..Attempts
      BY FactoryAssumption
    <3>2. engine' \in [build : {0} \union Builds, cancelled : BOOLEAN, attempt : 1..Attempts]
      BY <2>0, <3>1
    <3>3. stage' \in Working \union Completing \union {"none"} /\ found' \in Refs \union {-1}
      BY <1>1, <1>5 DEF FactoryTypeOK, Working
    <3>4. engine.build = 0 /\ stage = "none" /\ engine'.build = b
      BY <1>5, <2>0 DEF Free, EngineOK
    <3> QED  BY <3>2, <3>3, <3>4 DEF EngineTyped
  <2>2. FactoryTypeOK'
    BY <1>2, <1>5, <2>1, TypeParts, TypePartsNext DEF RunBuild, BuildsTyped, RowsTyped,
       VMsTyped, AdminTyped, RestTyped
  <2>3. BuildsOK'
    BY <1>1, <1>2, <1>5 DEF BuildsOK, Exists
  <2>4. EngineOK'
    BY <1>1, <1>2, <1>5, <2>1 DEF EngineOK
  <2>5. \A r \in Managed : /\ rows[r].build \in Builds /\ r \in Builds /\ r \in Present
                           /\ call[r].at = "done" /\ call[rows[r].build].at = "done"
    BY Rows1, RowFields DEF Managed, Linkage, Paired, Present, Builds, Refs, NamesOK, NamedAs
  <2>6. Linkage'
    <3>1. \A r \in Managed : Paired(r)' /\ rows[r].build # b
      BY <1>1, <1>3, <1>5, <2>5 DEF Linkage, Paired, Exists
    <3> QED  BY <1>1, <2>1, <3>1 DEF Linkage, Managed, Present, Family
  <2>7. FoundOK'
    BY <1>5 DEF FoundOK
  <2>8. Ahead'
    BY <1>1, <1>2, <1>5, <2>1, NextIsAhead DEF Ahead, Family, Present
  <2>9. ActiveRowHasOwner'
    BY <1>2, <1>5, <2>1 DEF ActiveRowHasOwner, Working, Builds
  <2>10. VersionsDistinct' /\ OneActivePerFamily'
    <3>1. overtaken \subseteq overtaken' /\ Family' = Family /\ ActiveInFamily' = ActiveInFamily
      BY <1>1, <1>5 DEF ActiveInFamily, Family, Present
    <3>2. VersionsDistinct'
      BY <1>1, <3>1 DEF VersionsDistinct
    <3>3. OneActivePerFamily'
      BY <1>1, <2>1, <3>1 DEF OneActivePerFamily
    <3> QED  BY <3>2, <3>3
  <2> QED  BY <1>4, <2>2, <2>3, <2>4, <2>6, <2>7, <2>8, <2>9, <2>10
<1>6. CASE ~Free(b) /\ UpdateBuildStatus(b, "failed") /\ UNCHANGED <<engine, stage, overtaken>>
  <2>1. "failed" \in Active \union Ended /\ "failed" \notin Active
    BY DEF Active, Ended
  <2>2. /\ SameBuilds /\ unwritten' \subseteq Builds
        /\ \A c \in Builds \ {b} : builds'[c] = builds[c] /\ (c \in unwritten' <=> c \in unwritten)
        /\ b \in unwritten' \/ builds'[b].status \in {"failed", "absent", "deleted"}
    BY <1>1, <1>6, <2>1, UpdateKeeps
  <2>3. SameRows /\ BuildsTyped'
    BY <1>1, <2>2, NothingChanges DEF SameBuilds, BuildsTyped
  <2>4. FactoryTypeOK'
    BY <1>2, <1>6, <2>2, <2>3, TypeParts, TypePartsNext DEF RunBuild, RowsTyped, EngineTyped,
       VMsTyped, AdminTyped, RestTyped
  <2>5. BuildsOK'
    BY <1>1, <1>2, <2>2 DEF BuildsOK, Exists, SameBuilds
  <2>6. EngineOK'
    BY <1>1, <1>3, <1>6 DEF EngineOK, FactoryTypeOK
  <2>7. Linkage' /\ VersionsDistinct'
    BY <1>1, <1>3, <1>6, <2>2, <2>3, LineageKept, RowsKept DEF Linkage
  <2>8. FoundOK' /\ Ahead'
    BY <1>1, <1>3, <1>6 DEF FoundOK, Ahead, EngineOK, FactoryTypeOK, Present, Family
  <2>9. ActiveRowHasOwner'
    <3>1. b \in unwritten' \/ builds'[b].status \notin Active
      BY <2>1, <2>2 DEF Active
    <3> QED  BY <1>2, <1>6, <2>2, <3>1 DEF ActiveRowHasOwner
  <2>10. OneActivePerFamily'
    BY <1>1, <1>6 DEF OneActivePerFamily, ActiveInFamily, Family, Present
  <2> QED  BY <1>4, <2>4, <2>5, <2>6, <2>7, <2>8, <2>9, <2>10
<1> QED  BY <1>5, <1>6 DEF RunBuild

------------------------------------------------------------------------------
(* The listing of templates *)

LEMMA Stored ==
  ASSUME IInv, NEW seen \in {listing, answer}, StoreListing(seen)
  PROVE  SameRows /\ RowsTyped' /\ \A r \in Managed : rows'[r] # NoRow
<1> USE DEF IInv
<1>1. \A r \in Refs : rows'[r] =
        IF r \in Managed THEN rows[r] ELSE IF r \in seen THEN Synced(TemplateName(r)) ELSE NoRow
  BY DEF StoreListing
<1>2. \A r \in Refs : r \in seen => NamedAs(r, TemplateName(r)) /\ Synced(TemplateName(r)) \in FullRows
  <2> SUFFICES ASSUME NEW r \in Refs, r \in seen
               PROVE  NamedAs(r, TemplateName(r)) /\ TemplateName(r) \in Names
    BY RowsMade
  <2>1. r = 0 \/ (r \in Builds /\ call[r].at = "done")
    BY DEF ListedOK, Refs, Builds
  <2> QED  BY <2>1, NamesHaveVersions DEF NamedAs, TemplateName, FactoryTypeOK, Builds
<1>3. \A r \in Managed : rows[r] \in FullRows /\ r \in Refs
  BY Rows1 DEF Managed, Present
<1>4. ASSUME NEW r \in Refs \ Managed
      PROVE  \/ rows'[r] = NoRow
             \/ /\ rows'[r] \in FullRows /\ rows'[r].build = 0 /\ ~rows'[r].family
                /\ rows'[r].status = "active" /\ NamedAs(r, rows'[r].name)
  <2>1. rows'[r] = IF r \in seen THEN Synced(TemplateName(r)) ELSE NoRow
    BY <1>1
  <2>2. CASE r \in seen
    <3>1. rows'[r] = Synced(TemplateName(r)) /\ rows'[r] \in FullRows /\ NamedAs(r, TemplateName(r))
      BY <1>2, <2>1, <2>2
    <3> QED  BY <3>1 DEF Synced
  <2> QED  BY <2>1, <2>2
<1>5. SameRows
  BY <1>1, <1>3, <1>4 DEF SameRows
<1>6. RowsTyped'
  BY <1>1, <1>3, <1>4 DEF StoreListing, RowsTyped, FullRows, Rows
<1> QED  BY <1>1, <1>3, <1>5, <1>6 DEF FullRows

LEMMA SyncStep == ASSUME IInv, SyncTemplates PROVE IInv'
<1>1. SameRows /\ RowsTyped' /\ FoundStays
  <2>1. CASE SyncFails
    BY <2>1, NothingChanges DEF SyncTemplates, FoundStays, Present, RowsTyped, IInv, FactoryTypeOK
  <2>2. CASE ~SyncFails
    BY <2>2, Stored DEF SyncTemplates, FoundStays, Unmanaged
  <2> QED  BY <2>1, <2>2
<1>2. VMsTyped' /\ AdminTyped' /\ RestTyped' /\ EngineTyped' /\ SameBuilds
  BY NothingChanges DEF SyncTemplates, IInv, FactoryTypeOK, VMsTyped, AdminTyped, RestTyped, EngineTyped
<1>3. /\ UNCHANGED <<builds, call, engine, stage, vms, admin, overtaken, unwritten, cut>>
      /\ listing' \union answer' \subseteq listing \union answer \union Listed
  BY DEF SyncTemplates
<1>4. admin'.op # "none" => admin'.build \in Builds
  BY <1>3 DEF IInv, EngineOK
<1> QED  BY <1>1, <1>2, <1>3, <1>4, QuietStep

------------------------------------------------------------------------------
(* The build succeeds and its completion links the template *)

LEMMA PackerSucceedsStep == ASSUME IInv, PackerSucceeds PROVE IInv'
<1> USE DEF IInv
<1> DEFINE b == engine.build
<1>1. /\ stage \in {"build", "retry"} /\ stage' = "lineage" /\ b \in Builds /\ b # 0 /\ call[b].at = "done"
      /\ UNCHANGED <<engine, found, rows, answer, conn>> /\ EngineKeeps
      /\ "completed" \in Active \union Ended /\ "completed" \notin Active
  BY DEF PackerSucceeds, EngineOK, FactoryTypeOK, Active, Ended
<1>2. UpdateBuildStatus(b, "completed")
  BY DEF PackerSucceeds
<1>3. /\ SameBuilds /\ unwritten' \subseteq Builds
      /\ \A c \in Builds \ {b} : builds'[c] = builds[c] /\ (c \in unwritten' <=> c \in unwritten)
      /\ b \in unwritten' \/ builds'[b].status \in {"completed", "absent", "deleted"}
  BY <1>1, <1>2, UpdateKeeps
<1>4. VMsTyped' /\ \A r \in Refs : vms'[r] = IF r = b THEN call[b].name
                                             ELSE IF vms[r] = call[b].name THEN None ELSE vms[r]
  BY <1>1 DEF PackerSucceeds, VMsTyped, FactoryTypeOK
<1>5. FactoryTypeOK'
  BY <1>1, <1>3, <1>4, TypeParts, TypePartsNext DEF SameBuilds, BuildsTyped, CallTyped, EngineTyped,
     RowsTyped, AdminTyped, RestTyped, EngineKeeps, Completing
<1>6. NamesOK' /\ ListedOK'
  BY <1>1, <1>4 DEF NamesOK, ListedOK, NamedAs, EngineKeeps, Present
<1>7. BuildsOK'
  BY <1>1, <1>3 DEF BuildsOK, SameBuilds, Exists, EngineKeeps
<1>8. EngineOK'
  BY <1>1 DEF EngineOK, EngineKeeps
<1>9. SameRows
  BY <1>1, NothingChanges
<1>10. Linkage' /\ VersionsDistinct'
  BY <1>1, <1>3, <1>9, LineageKept, RowsKept DEF Linkage, EngineKeeps
<1>11. FoundOK' /\ Ahead'
  BY <1>1 DEF FoundOK, Ahead, EngineKeeps, Family, Present
<1>12. ActiveRowHasOwner'
  <2>1. b \in unwritten' \/ builds'[b].status \notin Active
    BY <1>1, <1>3 DEF Active
  <2> QED  BY <1>1, <1>3, <2>1 DEF ActiveRowHasOwner, EngineKeeps
<1>13. OneActivePerFamily'
  BY <1>1 DEF OneActivePerFamily, EngineKeeps, ActiveInFamily, Family, Present
<1> QED  BY <1>5, <1>6, <1>7, <1>8, <1>10, <1>11, <1>12, <1>13

LEMMA ByNameFinds ==
  ASSUME NEW n, NEW table, NEW h \in ByName(n, table)
  PROVE  h \in Refs /\ table[h] # NoRow /\ table[h].name = n
<1> DEFINE named == {r \in Refs : table[r] # NoRow /\ table[r].name = n}
           fresh == {r \in named : table[r].build = 0}
<1>1. \A T \in SUBSET named : T # {} => Max(T) \in T
  <2>1. IsFiniteSet(0..MaxBuilds) /\ \A r \in 0..MaxBuilds : r \in Int
    BY FactoryAssumption, FS_Interval
  <2> SUFFICES ASSUME NEW T \in SUBSET named, T # {} PROVE Max(T) \in T
    OBVIOUS
  <2>2. T \in SUBSET (0..MaxBuilds)
    BY DEF Refs
  <2>3. IsFiniteSet(T) /\ T \in SUBSET Int
    BY <2>1, <2>2, FS_Subset
  <2> QED  BY <2>3, MaxIsMax
<1>2. \/ fresh # {} /\ h = Max(fresh)
      \/ named # {} /\ h = Max(named)
  BY DEF ByName
<1>3. h \in named
  BY <1>1, <1>2
<1> QED  BY <1>3

\* Until it found its template the completion only brings the table up to date.
Searching == {"lineage", "listing", "store", "capabilities", "find"}

LEMMA SearchStep ==
  ASSUME IInv, stage \in Searching, CompletionKeeps, UNCHANGED conn, SameRows, RowsTyped', EngineTyped',
         engine'.build = engine.build, answer' \subseteq answer \union Listed,
         \/ stage' \in Searching
         \/ /\ stage' = "link" /\ found' \in Refs /\ rows'[found'] # NoRow
            /\ rows'[found'].name = call[engine.build].name
  PROVE  IInv'
<1> USE DEF IInv
<1>1. /\ stage \notin Working /\ stage \notin {"family", "supersede", "none"}
      /\ stage' \notin Working /\ stage' \notin {"family", "supersede", "none"}
      /\ UNCHANGED <<builds, unwritten, vms, admin>> /\ EngineKeeps /\ SameBuilds
  BY NothingChanges DEF CompletionKeeps, RecordKeeps, EngineKeeps, Searching, Working
<1>2. answer' \subseteq Refs
  BY DEF Listed, FactoryTypeOK
<1>3. FactoryTypeOK'
  BY <1>1, <1>2, TypeParts, TypePartsNext DEF BuildsTyped, CallTyped, VMsTyped, AdminTyped, RestTyped,
     EngineKeeps
<1>4. NamesOK' /\ ListedOK'
  <2>1. \A r \in Present' : NamedAs(r, rows[r].name)'
    BY <1>1 DEF NamesOK, NamedAs, SameRows, Present, Managed, EngineKeeps
  <2>2. ListedOK'
    BY <1>1 DEF NamesOK, NamedAs, ListedOK, Listed, EngineKeeps
  <2> QED  BY <1>1, <2>1, <2>2 DEF NamesOK, NamedAs, EngineKeeps
<1>5. BuildsOK' /\ EngineOK'
  BY <1>1 DEF BuildsOK, Exists, EngineOK, EngineKeeps
<1>6. Linkage' /\ VersionsDistinct'
  <2>1. \A r \in Managed : rows'[r].build # engine'.build
    BY <1>1, RowsKept DEF Linkage
  <2> QED  BY <1>1, <2>1, LineageKept, RowsKept DEF Linkage, EngineKeeps
<1>7. FoundOK'
  BY <1>1 DEF FoundOK, EngineKeeps, Present, Searching
<1>8. Ahead'
  BY <1>1, RowsKept DEF Ahead, EngineKeeps
<1>9. ActiveRowHasOwner'
  BY <1>1 DEF ActiveRowHasOwner, EngineKeeps
<1>10. OneActivePerFamily'
  <2>1. ActiveInFamily' = ActiveInFamily /\ ActiveInFamily \subseteq Managed
    BY RowsKept DEF ActiveInFamily
  <2> QED  BY <1>1, <2>1, RowsKept DEF OneActivePerFamily, EngineKeeps
<1> QED  BY <1>3, <1>4, <1>5, <1>6, <1>7, <1>8, <1>9, <1>10

\* The completion gives up, or cannot supersede: what it was about to do is left out.
LEMMA GivesUp ==
  ASSUME IInv, stage \in Completing, Released, RecordKeeps, UNCHANGED <<rows, vms, conn, call, used, schedule,
         iso, admin, listing, answer, overtaken>>,
         cut' \in {cut, TRUE}, stage = "supersede" => cut'
  PROVE  IInv'
<1> USE DEF IInv
<1>1. SameRows /\ SameBuilds /\ engine'.build = 0 /\ stage' = "none" /\ UNCHANGED <<builds, unwritten>>
  BY NothingChanges DEF Released, Rest, RecordKeeps
<1>2. FactoryTypeOK'
  BY <1>1, ReleasedTyped, TypeParts, TypePartsNext DEF BuildsTyped, RowsTyped, CallTyped, VMsTyped,
     AdminTyped, RestTyped
<1>3. NamesOK' /\ ListedOK' /\ BuildsOK'
  BY <1>1 DEF NamesOK, NamedAs, ListedOK, Present, BuildsOK, Exists
<1>4. EngineOK' /\ FoundOK' /\ Ahead'
  BY <1>1 DEF EngineOK, FoundOK, Ahead
<1>5. Linkage'
  <2>1. /\ \A r \in Managed' : Paired(r)' /\ rows'[r].build # 0
        /\ Managed' = Managed /\ Family' = Family
    <3>1. /\ Managed' = Managed /\ Family' = Family
          /\ \A r \in Managed : rows'[r].build = rows[r].build /\ rows[r].build # 0
      BY <1>1, RowsKept DEF Managed
    <3>2. \A r \in Managed' : Paired(r)'
      BY <1>1, LineageKept
    <3> QED  BY <3>1, <3>2
  <2>2. /\ \A r \in Present' \ Managed' : ~rows'[r].family /\ rows'[r].status = "active"
        /\ \A r \in Managed' \ Family' : rows'[r].status = "active"
    BY <1>1, LineageKept
  <2> QED  BY <1>1, <2>1, <2>2 DEF Linkage
<1>6. VersionsDistinct'
  BY <1>1, LineageKept
<1>7. ActiveRowHasOwner'
  BY <1>1 DEF ActiveRowHasOwner, Working, Completing
<1>8. OneActivePerFamily'
  BY <1>1 DEF OneActivePerFamily, ActiveInFamily, Family, Present
<1> QED  BY <1>2, <1>3, <1>4, <1>5, <1>6, <1>7, <1>8

LEMMA GetTemplateBuildStep == ASSUME IInv, GetTemplateBuild PROVE IInv'
<1>1. CASE stage' = "listing" /\ UNCHANGED <<engine, found>>
  <2>1. SameRows /\ RowsTyped' /\ EngineTyped'
    BY <1>1, NothingChanges DEF GetTemplateBuild, IInv, FactoryTypeOK, RowsTyped, EngineTyped, Completing
  <2> QED  BY <1>1, <2>1, SearchStep DEF GetTemplateBuild, Searching
<1>2. CASE Released
  BY <1>2, GivesUp DEF GetTemplateBuild, CompletionKeeps, EngineKeeps, Completing
<1> QED  BY <1>1, <1>2 DEF GetTemplateBuild

LEMMA HypervisorAnswersStep == ASSUME IInv, HypervisorAnswers PROVE IInv'
<1>1. /\ stage \in Searching /\ stage' \in Searching /\ answer' \subseteq answer \union Listed
      /\ CompletionKeeps /\ UNCHANGED <<engine, found, rows, conn>>
  BY DEF HypervisorAnswers, AtHypervisor, Searching
<1>2. SameRows /\ RowsTyped' /\ EngineTyped'
  BY <1>1, NothingChanges DEF IInv, FactoryTypeOK, RowsTyped, EngineTyped, Searching, Completing
<1> QED  BY <1>1, <1>2, SearchStep

LEMMA StoreAnswerStep == ASSUME IInv, StoreAnswer PROVE IInv'
<1>1. /\ stage \in Searching /\ stage' \in Searching /\ answer' \subseteq answer \union Listed
      /\ CompletionKeeps /\ UNCHANGED <<engine, found, conn>>
  BY DEF StoreAnswer, Searching
<1>2. SameRows /\ RowsTyped'
  <2>1. CASE UNCHANGED rows
    BY <2>1, NothingChanges DEF IInv, FactoryTypeOK, RowsTyped
  <2>2. CASE StoreListing(answer)
    BY <2>2, Stored
  <2> QED  BY <2>1, <2>2 DEF StoreAnswer
<1>3. EngineTyped'
  BY <1>1 DEF IInv, FactoryTypeOK, EngineTyped, Searching, Completing
<1> QED  BY <1>1, <1>2, <1>3, SearchStep

LEMMA FindStep == ASSUME IInv, FindTemplate PROVE IInv'
<1>1. /\ stage = "find" /\ CompletionKeeps /\ UNCHANGED <<rows, answer, conn>> /\ SameRows /\ RowsTyped'
  BY NothingChanges DEF FindTemplate, IInv, FactoryTypeOK, RowsTyped
<1>2. CASE Released
  BY <1>1, <1>2, GivesUp DEF CompletionKeeps, EngineKeeps, Completing
<1>3. CASE /\ engine.attempt < Attempts /\ engine' = [engine EXCEPT !.attempt = @ + 1]
           /\ stage' = "listing" /\ UNCHANGED found
  <2>1. EngineTyped' /\ engine'.build = engine.build
    BY <1>3, FactoryAssumption DEF IInv, FactoryTypeOK, EngineTyped, Completing
  <2> QED  BY <1>1, <1>3, <2>1, SearchStep DEF Searching
<1>4. CASE found' \in ByName(call[engine.build].name, rows) /\ stage' = "link" /\ UNCHANGED engine
  <2>1. found' \in Refs /\ rows[found'] # NoRow /\ rows[found'].name = call[engine.build].name
    BY <1>4, ByNameFinds
  <2>2. EngineTyped'
    BY <1>4, <2>1 DEF IInv, FactoryTypeOK, EngineTyped, Completing
  <2> QED  BY <1>1, <1>4, <2>1, <2>2, SearchStep DEF Searching
<1> QED  BY <1>2, <1>3, <1>4 DEF FindTemplate

LEMMA LinkStep == ASSUME IInv, LinkBuildToTemplate PROVE IInv'
<1> USE DEF IInv
<1> DEFINE b == engine.build
<1>1. /\ stage = "link" /\ b \in Builds /\ b # 0 /\ call[b].at = "done"
      /\ UNCHANGED <<vms, answer, conn, unwritten>> /\ EngineKeeps
  BY DEF LinkBuildToTemplate, EngineOK, FactoryTypeOK
<1>2. CASE Released /\ UNCHANGED <<builds, rows>>
  BY <1>1, <1>2, GivesUp DEF RecordKeeps, EngineKeeps, Completing
<1>3. CASE /\ found # -1 /\ Exists(b)
           /\ rows' = [rows EXCEPT ![found] = Linked(rows[found], b)]
           /\ builds' = [builds EXCEPT ![b].template = found]
           /\ stage' = "family" /\ UNCHANGED <<engine, found>>
  <2>1. /\ rows' = [rows EXCEPT ![found] = Linked(rows[found], b)]
        /\ builds' = [builds EXCEPT ![b].template = found]
        /\ stage' = "family" /\ UNCHANGED <<engine, found>>
    BY <1>3
  <2>2. /\ found \in Refs /\ found \in Present /\ rows[found] \in FullRows
        /\ found # 0 /\ call[found].name = call[b].name /\ call[found].at = "done"
    BY <1>1, <1>3, Rows1 DEF FoundOK, NamesOK, NamedAs, Present
  <2>3. builds[b] \in LiveBuilds /\ builds[b].version = call[b].name[2]
    BY <1>1, <1>3, Rows1 DEF BuildsOK
  <2>4. /\ builds'[b] = [builds[b] EXCEPT !.template = found] /\ builds'[b] \in LiveBuilds
        /\ \A c \in Builds \ {b} : builds'[c] = builds[c]
        /\ builds' \in [Builds -> BuildRows]
    BY <1>1, <2>1, <2>2, <2>3, BuildsMade DEF FactoryTypeOK, LiveBuilds
  <2>5. /\ builds'[b].status = builds[b].status /\ builds'[b].version = builds[b].version
        /\ builds'[b].template = found
    BY <2>3, <2>4 DEF LiveBuilds, BuildRows
  <2>6. /\ rows'[found] = Linked(rows[found], b) /\ rows'[found] \in FullRows
        /\ \A r \in Refs \ {found} : rows'[r] = rows[r]
        /\ RowsTyped'
    BY <1>1, <2>1, <2>2, <2>3, LinkedIsRow DEF FactoryTypeOK, RowsTyped, FullRows
  <2>7. /\ rows'[found].build = b /\ rows'[found].version = call[b].name[2]
        /\ rows'[found].status = "active" /\ rows'[found].name = rows[found].name
        /\ rows'[found].family = rows[found].family /\ rows'[found] # NoRow
    BY <2>2, <2>3, <2>6 DEF Linked, FullRows, Rows
  <2>8. /\ Present' = Present /\ Managed' = Managed \union {found} /\ Family' = Family
        /\ \A r \in Managed : rows[r].build # b
        /\ Managed \subseteq Refs /\ Family \subseteq Managed
    BY <1>1, <2>2, <2>6, <2>7 DEF Present, Managed, Family, Linkage
  <2>9. FactoryTypeOK'
    BY <1>1, <2>1, <2>4, <2>6, TypeParts, TypePartsNext DEF BuildsTyped, CallTyped, EngineTyped,
       VMsTyped, AdminTyped, RestTyped, EngineKeeps, Completing
  <2>10. NamesOK' /\ ListedOK'
    BY <1>1, <2>6, <2>7, <2>8 DEF NamesOK, NamedAs, ListedOK, EngineKeeps, Present
  <2>11. BuildsOK'
    <3>1. \A c \in Builds : /\ builds'[c].status = builds[c].status
                            /\ builds'[c].version = builds[c].version /\ call'[c] = call[c]
      BY <1>1, <2>4, <2>5 DEF EngineKeeps
    <3> QED  BY <3>1 DEF BuildsOK, Exists
  <2>12. EngineOK'
    BY <1>1, <2>1 DEF EngineOK, EngineKeeps
  <2>13. Linkage'
    <3>1. \A r \in Managed : rows[r].build \in Builds
      BY Rows1, RowFields DEF Managed
    <3>2. \A r \in Managed \ {found} : Paired(r)'
      BY <1>1, <2>4, <2>6, <2>8, <3>1 DEF Linkage, Paired, Exists, EngineKeeps
    <3>3. Paired(found)'
      BY <1>1, <1>3, <2>1, <2>2, <2>3, <2>5, <2>7 DEF Paired, Exists, EngineKeeps
    <3>4. \A r \in Present' \ Managed' : ~rows'[r].family /\ rows'[r].status = "active"
      BY <2>6, <2>8 DEF Linkage, Present
    <3>5. \A r \in Managed' \ Family' : rows'[r].status = "active"
      BY <2>6, <2>7, <2>8 DEF Linkage
    <3> QED  BY <2>1, <2>8, <3>2, <3>3, <3>4, <3>5 DEF Linkage
  <2>14. FoundOK'
    BY <2>1, <2>2, <2>7, <2>8 DEF FoundOK
  <2>15. b \notin overtaken => found \notin Family /\ \A r \in Family : rows[r].version < call[b].name[2]
    <3>1. b \notin overtaken => \A r \in Family : rows[r].version < call[b].name[2]
      BY <1>1 DEF Ahead
    <3>2. found \in Family => rows[found].version = call[b].name[2]
      BY <2>2, <2>8 DEF Linkage, Paired
    <3>3. call[b].name[2] \in Int
      BY <1>1, NamesHaveVersions DEF FactoryTypeOK, Builds
    <3> QED  BY <3>1, <3>2, <3>3
  <2>16. Ahead'
    BY <1>1, <2>1, <2>6, <2>8, <2>15 DEF Ahead, EngineKeeps
  <2>17. ActiveRowHasOwner'
    BY <1>1, <2>4, <2>5 DEF ActiveRowHasOwner, EngineKeeps, Working
  <2>18. VersionsDistinct'
    BY <1>1, <2>6, <2>7, <2>8, <2>15 DEF VersionsDistinct, EngineKeeps
  <2>19. OneActivePerFamily'
    <3> SUFFICES ASSUME ~cut, NEW q \in ActiveInFamily', NEW r \in ActiveInFamily', q # r
                 PROVE  {rows'[q].build, rows'[r].build} \intersect overtaken # {}
      BY <1>1 DEF OneActivePerFamily, EngineKeeps
    <3>1. q \in Family /\ r \in Family /\ q \in Refs /\ r \in Refs
      BY <2>8 DEF ActiveInFamily
    <3>2. CASE q = found \/ r = found
      BY <2>7, <2>15, <3>1, <3>2
    <3>3. CASE q # found /\ r # found
      BY <1>1, <2>6, <2>8, <3>1, <3>3 DEF OneActivePerFamily, ActiveInFamily
    <3> QED  BY <3>2, <3>3
  <2> QED  BY <2>9, <2>10, <2>11, <2>12, <2>13, <2>14, <2>16, <2>17, <2>18, <2>19
<1> QED  BY <1>2, <1>3 DEF LinkBuildToTemplate

LEMMA FamilyStep == ASSUME IInv, LinkFamily PROVE IInv'
<1> USE DEF IInv
<1> DEFINE b == engine.build
<1>1. /\ stage = "family" /\ b \in Builds /\ b # 0 /\ call[b].at = "done"
      /\ UNCHANGED <<builds, unwritten, vms, answer>> /\ RecordKeeps /\ EngineKeeps
      /\ found \in Present /\ rows[found].build = b /\ found \in Managed /\ found \in Refs
  BY DEF LinkFamily, CompletionKeeps, RecordKeeps, EngineOK, FactoryTypeOK, FoundOK, Managed, Present
<1>2. CASE Released /\ UNCHANGED <<rows, conn>>
  BY <1>1, <1>2, GivesUp DEF EngineKeeps, Completing
<1>3. CASE conn' \in {"free", "held"} /\ stage' = "supersede" /\ UNCHANGED <<rows, engine, found>>
  <2>1. FactoryTypeOK'
    BY <1>1, <1>3, TypeParts, TypePartsNext DEF BuildsTyped, RowsTyped, CallTyped, EngineTyped, VMsTyped,
       AdminTyped, RestTyped, EngineKeeps, Completing
  <2>2. NamesOK' /\ ListedOK' /\ BuildsOK' /\ EngineOK' /\ FoundOK'
    BY <1>1, <1>3 DEF NamesOK, NamedAs, ListedOK, Present, BuildsOK, Exists, EngineKeeps, EngineOK, FoundOK
  <2>3. Linkage' /\ VersionsDistinct'
    BY <1>1, <1>3, NothingChanges, LineageKept, RowsKept DEF Linkage, EngineKeeps
  <2>4. Ahead' /\ ActiveRowHasOwner' /\ OneActivePerFamily'
    BY <1>1, <1>3 DEF Ahead, ActiveRowHasOwner, OneActivePerFamily, EngineKeeps, Working, Family, Present
  <2> QED  BY <2>1, <2>2, <2>3, <2>4
<1>4. CASE /\ rows' = [rows EXCEPT ![found].family = TRUE] /\ stage' = "supersede"
           /\ UNCHANGED <<engine, found, conn>>
  <2>1. rows[found] \in FullRows
    BY <1>1, Rows1
  <2>2. /\ rows'[found] = [rows[found] EXCEPT !.family = TRUE] /\ rows'[found] \in FullRows
        /\ \A r \in Refs \ {found} : rows'[r] = rows[r]
        /\ RowsTyped'
    BY <1>1, <1>4, <2>1, RowsMade DEF FactoryTypeOK, RowsTyped, FullRows
  <2>3. /\ rows'[found].build = b /\ rows'[found].version = rows[found].version
        /\ rows'[found].name = rows[found].name /\ rows'[found].status = rows[found].status
        /\ rows'[found].family /\ rows'[found] # NoRow
    BY <1>1, <2>1, <2>2 DEF FullRows, Rows
  <2>4. /\ \A r \in Present : /\ rows'[r] # NoRow /\ rows'[r].build = rows[r].build
                              /\ rows'[r].version = rows[r].version /\ rows'[r].name = rows[r].name
                              /\ rows'[r].family = (rows[r].family \/ r = found)
        /\ \A r \in Refs \ Present : rows'[r] = NoRow
    <3>1. \A r \in Present : rows[r].family \in BOOLEAN
      BY Rows1, RowFields
    <3> QED  BY <1>1, <2>2, <2>3, <3>1 DEF Present
  <2>5. /\ Present' = Present /\ Managed' = Managed /\ Family' = Family \union {found}
        /\ Managed \subseteq Refs /\ Family \subseteq Managed
    <3>1. Present' = Present
      BY <2>4 DEF Present
    <3>2. Managed \subseteq Refs /\ Family \subseteq Managed
      BY DEF Managed, Present, Family, Linkage
    <3>3. Managed' = Managed
      BY <2>4, <3>1 DEF Managed
    <3>4. Family' = Family \union {found}
      <4>1. \A r \in Present : rows[r].family \in BOOLEAN /\ rows'[r].family = (rows[r].family \/ r = found)
        BY <2>4, Rows1, RowFields
      <4> QED  BY <1>1, <3>1, <4>1 DEF Family
    <3> QED  BY <3>1, <3>2, <3>3, <3>4
  <2>6. FactoryTypeOK'
    BY <1>1, <1>4, <2>2, TypeParts, TypePartsNext DEF BuildsTyped, CallTyped, EngineTyped,
       VMsTyped, AdminTyped, RestTyped, EngineKeeps, Completing
  <2>7. NamesOK' /\ ListedOK'
    BY <1>1, <2>4, <2>5 DEF NamesOK, NamedAs, ListedOK, EngineKeeps
  <2>8. BuildsOK' /\ EngineOK' /\ FoundOK'
    BY <1>1, <1>4, <2>3, <2>5 DEF BuildsOK, Exists, EngineOK, FoundOK, EngineKeeps
  <2>9. Linkage'
    <3>1. \A r \in Managed : rows'[r].build = rows[r].build /\ rows'[r].version = rows[r].version
      BY <1>1, <2>2, <2>3, <2>5
    <3>2. \A r \in Managed : Paired(r)'
      BY <1>1, <3>1 DEF Linkage, Paired, Exists, EngineKeeps
    <3>3. \A r \in Present' \ Managed' : ~rows'[r].family /\ rows'[r].status = "active"
      BY <1>1, <2>2, <2>5 DEF Linkage, Present
    <3>4. \A r \in Managed' \ Family' : rows'[r].status = "active"
      BY <2>2, <2>5 DEF Linkage
    <3> QED  BY <1>4, <2>5, <3>2, <3>3, <3>4 DEF Linkage
  <2>10. b \notin overtaken => \A r \in Family \ {found} : rows[r].version < rows[found].version
    <3>1. rows[found].version = call[b].name[2]
      BY <1>1 DEF Linkage, Paired, BuildsOK
    <3> QED  BY <1>1, <3>1 DEF Ahead
  <2>11. Ahead'
    BY <1>1, <1>4, <2>2, <2>5 DEF Ahead, EngineKeeps
  <2>12. ActiveRowHasOwner' /\ OneActivePerFamily'
    BY <1>1, <1>4 DEF ActiveRowHasOwner, OneActivePerFamily, EngineKeeps, Working
  <2>13. VersionsDistinct'
    <3>1. \A r \in Family : rows[r].version \in Int
      BY <2>5, Rows1, RowFields DEF Managed, Builds
    <3> SUFFICES ASSUME NEW q \in Family', NEW r \in Family', q # r, rows'[q].version = rows'[r].version
                 PROVE  \E c \in overtaken : rows'[q].build = c \/ rows'[r].build = c
      BY <1>1 DEF VersionsDistinct, EngineKeeps
    <3>2. /\ rows[q].version = rows[r].version /\ q \in Family \union {found} /\ r \in Family \union {found}
          /\ rows'[q].build = rows[q].build /\ rows'[r].build = rows[r].build
      BY <1>1, <2>4, <2>5 DEF Family
    <3>3. CASE q \in Family /\ r \in Family
      BY <3>2, <3>3 DEF VersionsDistinct
    <3>4. CASE b \notin overtaken /\ (q = found \/ r = found)
      BY <2>10, <3>1, <3>2, <3>4, <1>1, Rows1, RowFields DEF Builds
    <3>5. CASE b \in overtaken /\ (q = found \/ r = found)
      BY <1>1, <3>2, <3>5
    <3> QED  BY <3>2, <3>3, <3>4, <3>5
  <2> QED  BY <2>6, <2>7, <2>8, <2>9, <2>11, <2>12, <2>13
<1> QED  BY <1>2, <1>3, <1>4 DEF LinkFamily

\* What SupersedeAllActiveInFamily does when it succeeds.
SupersedeOthers ==
  /\ rows' = [r \in Refs |-> IF r \in Others
                THEN [rows[r] EXCEPT !.status = "superseded", !.by = found] ELSE rows[r]]
  /\ cut' = FALSE

LEMMA SupersededStep == ASSUME IInv, Supersede, SupersedeOthers PROVE IInv'
<1> USE DEF IInv
<1>1. /\ stage = "supersede" /\ Released
      /\ UNCHANGED <<builds, unwritten, call, vms, conn, used, schedule, iso, admin, listing, answer, overtaken>>
      /\ cut' = FALSE
      /\ found \in Present /\ found \in Refs
  BY DEF Supersede, SupersedeOthers, RecordKeeps, FoundOK, Present
<1>2. Others \subseteq Family /\ Family \subseteq Managed /\ Managed \subseteq Refs
  BY DEF Others, ActiveInFamily, Family, Linkage, Managed, Present
<1>3. \A r \in Refs : rows'[r] = IF r \in Others
            THEN [rows[r] EXCEPT !.status = "superseded", !.by = found] ELSE rows[r]
  BY DEF SupersedeOthers
<1>4. \A r \in Others : /\ rows'[r] \in FullRows
                        /\ rows'[r].build = rows[r].build /\ rows'[r].version = rows[r].version
                        /\ rows'[r].name = rows[r].name /\ rows'[r].family = rows[r].family
                        /\ rows'[r].status = "superseded" /\ rows'[r] # NoRow
  <2> SUFFICES ASSUME NEW r \in Others
               PROVE  /\ rows'[r] \in FullRows
                      /\ rows'[r].build = rows[r].build /\ rows'[r].version = rows[r].version
                      /\ rows'[r].name = rows[r].name /\ rows'[r].family = rows[r].family
                      /\ rows'[r].status = "superseded"
    BY DEF FullRows
  <2>1. rows[r] \in FullRows /\ r \in Refs
    BY <1>2, Rows1 DEF Managed
  <2>2. rows'[r] = [rows[r] EXCEPT !.status = "superseded", !.by = found] /\ rows'[r] \in FullRows
    BY <1>1, <1>3, <2>1, RowsMade
  <2> QED  BY <2>1, <2>2 DEF FullRows, Rows
<1>5. /\ \A r \in Present : /\ rows'[r] # NoRow /\ rows'[r].build = rows[r].build
                            /\ rows'[r].version = rows[r].version /\ rows'[r].name = rows[r].name
                            /\ rows'[r].family = rows[r].family
      /\ \A r \in Refs \ Present : rows'[r] = NoRow
  BY <1>2, <1>3, <1>4 DEF Present, Family
<1>6. /\ Present' = Present /\ Managed' = Managed /\ Family' = Family
  <2>1. Present' = Present
    BY <1>5 DEF Present
  <2> QED  BY <1>5, <2>1 DEF Managed, Family
<1>7. RowsTyped'
  BY <1>3, <1>4 DEF SupersedeOthers, RowsTyped, FactoryTypeOK, FullRows
<1>8. FactoryTypeOK'
  BY <1>1, <1>7, ReleasedTyped, TypeParts, TypePartsNext DEF BuildsTyped, CallTyped,
     VMsTyped, AdminTyped, RestTyped
<1>9. NamesOK' /\ ListedOK'
  BY <1>1, <1>5, <1>6 DEF NamesOK, NamedAs, ListedOK
<1>10. BuildsOK' /\ EngineOK' /\ FoundOK' /\ Ahead'
  BY <1>1 DEF BuildsOK, Exists, EngineOK, FoundOK, Ahead, Released, Rest
<1>11. Linkage'
  <2>1. \A r \in Managed : rows'[r].build = rows[r].build /\ rows'[r].version = rows[r].version
    BY <1>2, <1>3, <1>4
  <2>2. \A r \in Managed : Paired(r)'
    BY <1>1, <2>1 DEF Linkage, Paired, Exists
  <2>3. \A r \in Managed : rows[r].build # 0
    BY DEF Managed
  <2>4. \A r \in Present \ Family : rows'[r] = rows[r]
    BY <1>2, <1>3 DEF Present
  <2>5. \A r \in Managed' : rows'[r].build = engine'.build => stage' \in {"family", "supersede"}
    BY <1>1, <1>6, <2>1, <2>3 DEF Released, Rest
  <2>6. \A r \in Present' \ Managed' : ~rows'[r].family /\ rows'[r].status = "active"
    BY <1>2, <1>6, <2>4 DEF Linkage
  <2>7. \A r \in Managed' \ Family' : rows'[r].status = "active"
    BY <1>6, <2>4 DEF Linkage, Managed
  <2> QED  BY <1>6, <2>2, <2>5, <2>6, <2>7 DEF Linkage
<1>12. ActiveRowHasOwner'
  BY <1>1 DEF ActiveRowHasOwner, Working
<1>13. VersionsDistinct'
  BY <1>1, <1>5, <1>6 DEF VersionsDistinct, Family
<1>14. ActiveInFamily' \subseteq {found}
  BY <1>2, <1>3, <1>4, <1>6 DEF ActiveInFamily, Others
<1>15. OneActivePerFamily'
  BY <1>14 DEF OneActivePerFamily
<1> QED  BY <1>8, <1>9, <1>10, <1>11, <1>12, <1>13, <1>15

LEMMA SupersedeStep == ASSUME IInv, Supersede PROVE IInv'
<1>1. CASE UNCHANGED rows /\ cut' = TRUE
  BY <1>1, GivesUp DEF Supersede, Completing
<1>2. CASE SupersedeOthers
  BY <1>2, SupersededStep
<1> QED  BY <1>1, <1>2 DEF Supersede, SupersedeOthers

------------------------------------------------------------------------------
(* The server stops *)

LEMMA CrashStep == ASSUME IInv, Crash PROVE IInv'
<1> USE DEF IInv
<1>1. /\ UNCHANGED <<vms, rows, used, schedule, iso, overtaken>>
      /\ engine' = Rest /\ stage' = "none" /\ found' = 0
      /\ listing' = {} /\ answer' = {} /\ conn' = "free"
      /\ cut' = (cut \/ stage = "supersede")
  BY DEF Crash
<1>2. AdminTyped' /\ admin'.op = "none"
  BY ActsTyped, TypeParts DEF Crash
<1>3. /\ unwritten' \subseteq Builds /\ builds' \in [Builds -> {builds'[b] : b \in Builds}]
      /\ \A b \in Builds : \/ /\ builds'[b] = builds[b]
                              /\ builds[b].status \notin Active \/ b \in unwritten'
                           \/ /\ builds[b].status \in Active /\ builds[b] \in LiveBuilds
                              /\ builds'[b] = [builds[b] EXCEPT !.status = "failed"]
  BY Rows1 DEF Crash, Stale, Exists, Active, FactoryTypeOK
<1>4. \A b \in Builds : /\ builds'[b] \in BuildRows
                        /\ b \in unwritten' \/ builds'[b].status \notin Active
                        /\ builds'[b].status = "absent" <=> builds[b].status = "absent"
                        /\ Exists(b)' = Exists(b)
                        /\ Exists(b) => /\ builds'[b].version = builds[b].version
                                        /\ builds'[b].template = builds[b].template
  <2> SUFFICES ASSUME NEW b \in Builds, builds[b].status \in Active, builds[b] \in LiveBuilds,
                      builds'[b] = [builds[b] EXCEPT !.status = "failed"]
               PROVE  /\ builds'[b] \in BuildRows /\ builds'[b].status = "failed"
                      /\ builds'[b].version = builds[b].version
                      /\ builds'[b].template = builds[b].template
    BY <1>3 DEF FactoryTypeOK, Exists, Active
  <2>1. builds'[b] \in LiveBuilds
    BY BuildsMade DEF Ended
  <2> QED  BY <2>1 DEF LiveBuilds, BuildRows
<1>5. SameBuilds
  BY <1>3, <1>4 DEF SameBuilds
<1>6. /\ \A b \in Builds : call'[b].name = call[b].name \/ (call[b].at = "idle" /\ call'[b] = NoCall)
      /\ \A b \in Builds : call'[b].at = IF call[b].at = "idle" THEN "idle" ELSE "done"
      /\ \A b \in Builds : call[b].at = "done" => call'[b] = call[b]
      /\ CallTyped'
  BY NamesHaveVersions DEF Crash, NoCall, FactoryTypeOK, CallTyped
<1>7. FactoryTypeOK'
  BY <1>1, <1>2, <1>3, <1>5, <1>6, FactoryAssumption, TypeParts, TypePartsNext
     DEF SameBuilds, BuildsTyped, RowsTyped, EngineTyped, VMsTyped, RestTyped, Rest, Refs
<1>8. NamesOK' /\ ListedOK'
  BY <1>1, <1>6 DEF NamesOK, NamedAs, ListedOK, Present, Builds, Refs
<1>9. BuildsOK'
  BY <1>4, <1>6 DEF BuildsOK, Exists
<1>10. EngineOK' /\ FoundOK' /\ Ahead'
  BY <1>1, <1>2 DEF EngineOK, FoundOK, Ahead, Rest
<1>11. Linkage' /\ VersionsDistinct'
  BY <1>1, <1>5, <1>6, NothingChanges, LineageKept, RowsKept DEF Linkage, Rest, Managed
<1>12. ActiveRowHasOwner'
  BY <1>4 DEF ActiveRowHasOwner
<1>13. OneActivePerFamily'
  BY <1>1 DEF OneActivePerFamily, ActiveInFamily, Family, Present
<1> QED  BY <1>7, <1>8, <1>9, <1>10, <1>11, <1>12, <1>13

------------------------------------------------------------------------------
(* The invariant holds *)

LEMMA InitInv == Init => IInv
<1> SUFFICES ASSUME Init PROVE IInv
  OBVIOUS
<1>1. MaxBuilds \in Nat \ {0} /\ MaxIso \in Nat \ {0} /\ MaxActs \in Nat /\ Attempts \in Nat \ {0}
  BY FactoryAssumption
<1>2. /\ builds = [b \in Builds |-> NoBuild] /\ call = [b \in Builds |-> NoCall]
      /\ rows \in [Refs -> Rows] /\ rows[0] = Synced(Custom) /\ \A r \in Builds : rows[r] = NoRow
      /\ vms \in [Refs -> Names \union {None}] /\ vms[0] = Custom /\ \A r \in Builds : vms[r] = None
  <2>1. Synced(Custom) \in FullRows /\ NoRow \in Rows /\ 0 \in Refs /\ Builds = Refs \ {0}
    <3>1. Synced(Custom) \in FullRows /\ NoRow \in Rows
      BY RowsMade, NamesHaveVersions DEF Rows
    <3>2. 0 \in Refs /\ Builds = Refs \ {0}
      BY <1>1 DEF Refs, Builds
    <3> QED  BY <3>1, <3>2
  <2>2. /\ rows = [r \in Refs |-> IF r = 0 THEN Synced(Custom) ELSE NoRow]
        /\ vms  = [r \in Refs |-> IF r = 0 THEN Custom ELSE None]
        /\ builds = [b \in Builds |-> NoBuild] /\ call = [b \in Builds |-> NoCall]
    BY DEF Init
  <2>3. \A r \in Refs : rows[r] \in Rows /\ vms[r] \in Names \union {None}
    BY <2>1, <2>2, NamesHaveVersions DEF FullRows
  <2> QED  BY <2>1, <2>2, <2>3
<1>3. Present \subseteq {0} /\ Managed = {} /\ Family = {}
  <2>0. \A r \in Refs : r = 0 \/ r \in Builds
    BY <1>1 DEF Refs, Builds
  <2>1. Present \subseteq {0}
    BY <1>2, <2>0 DEF Present
  <2>2. \A r \in Present : rows[r].build = 0 /\ ~rows[r].family
    BY <1>2, <2>1 DEF Synced
  <2> QED  BY <2>1, <2>2 DEF Managed, Family
<1>4. FactoryTypeOK
  <2>1. BuildsTyped /\ RowsTyped /\ VMsTyped
    BY <1>2 DEF BuildsTyped, RowsTyped, VMsTyped, BuildRows
  <2>2. CallTyped
    BY <1>2, NamesHaveVersions DEF CallTyped, NoCall
  <2>3. EngineTyped /\ AdminTyped /\ RestTyped
    <3>1. /\ engine = [build |-> 0, cancelled |-> FALSE, attempt |-> 1] /\ stage = "none" /\ found = 0
          /\ used = {} /\ schedule = -1 /\ iso = 1 /\ listing = {} /\ answer = {} /\ conn = "free"
          /\ unwritten = {}
          /\ admin = [op |-> "none", build |-> 0, left |-> MaxActs] /\ overtaken = {} /\ cut = FALSE
      BY DEF Init, Rest, NoAdmin
    <3>2. EngineTyped
      BY <1>1, <3>1 DEF EngineTyped, Refs
    <3>3. RestTyped
      <4>1. used \subseteq Refs /\ listing \union answer \subseteq Refs /\ overtaken \union unwritten \subseteq Builds
        BY <3>1
      <4>2. schedule \in Refs \union {-1} /\ iso \in 0..MaxIso
        BY <1>1, <3>1
      <4> QED  BY <3>1, <4>1, <4>2 DEF RestTyped
    <3>4. AdminTyped
      BY <1>1, <3>1 DEF AdminTyped
    <3> QED  BY <3>2, <3>3, <3>4
  <2> QED  BY <2>1, <2>2, <2>3, TypeParts
<1>5. NamesOK
  <2>1. \A r \in Refs : r = 0 \/ r \in Builds
    BY <1>1 DEF Refs, Builds
  <2> QED  BY <1>2, <1>3, <2>1 DEF NamesOK, NamedAs, NoCall, Synced
<1>10. ListedOK
  BY DEF Init, ListedOK
<1>6. BuildsOK /\ ActiveRowHasOwner
  BY <1>2 DEF BuildsOK, ActiveRowHasOwner, NoBuild, Exists, Active
<1>7. EngineOK /\ FoundOK /\ Ahead
  BY DEF Init, EngineOK, FoundOK, Ahead, Rest, NoAdmin
<1>8. Linkage
  BY <1>2, <1>3 DEF Linkage, Synced
<1>9. VersionsDistinct /\ OneActivePerFamily
  BY <1>3 DEF VersionsDistinct, OneActivePerFamily, ActiveInFamily
<1> QED  BY <1>4, <1>5, <1>6, <1>7, <1>8, <1>9, <1>10 DEF IInv

LEMMA NextInv == IInv /\ [Next]_vars => IInv'
<1> SUFFICES ASSUME IInv, [Next]_vars PROVE IInv'
  OBVIOUS
<1>1. CASE \E b \in Builds : StartBuild(b) \/ RebuildByUser(b) \/ ProcessSchedule(b)
                               \/ CreateTemplateBuild(b) \/ RunBuild(b)
  <2> PICK b \in Builds : StartBuild(b) \/ RebuildByUser(b) \/ ProcessSchedule(b)
                            \/ CreateTemplateBuild(b) \/ RunBuild(b)
    BY <1>1
  <2>1. CASE StartBuild(b)
    BY <2>1, RequestStep DEF StartBuild
  <2>2. CASE RebuildByUser(b)
    BY <2>2, RebuildStep DEF RebuildByUser
  <2>3. CASE ProcessSchedule(b)
    BY <2>3, RebuildStep DEF ProcessSchedule, TriggerRebuild, RebuildTemplate, Managed, Present
  <2> QED  BY <2>1, <2>2, <2>3, CreateStep, RunStep
<1>2. CASE EngineStep
  BY <1>2, SetupStep, GenerateStep, WriteFilesStep, PackerInitStep, PackerCancelledStep,
     GetTemplateBuildStep, StoreAnswerStep, FindStep, LinkStep, FamilyStep, SupersedeStep DEF EngineStep
<1>3. CASE Packer \/ Deadline \/ HypervisorAnswers
  BY <1>3, PackerFailsStep, PackerSucceedsStep, DeadlineStep, HypervisorAnswersStep DEF Packer
<1>4. CASE \/ ListTemplates \/ SyncTemplates \/ CreateSchedule \/ DeleteSchedule \/ Publish
           \/ CheckRunning \/ Signal \/ CancelOrphan \/ DeleteBuild
  BY <1>4, RestStep, SyncStep, CheckRunningStep, SignalStep, CancelOrphanStep, DeleteBuildStep
<1>5. CASE \E b \in Builds : ReadBuild("cancel", b) \/ ReadBuild("delete", b)
  BY <1>5, ReadBuildStep
<1>6. CASE \E r \in Refs : CleanupSuperseded(r) \/ DeleteTemplate(r, TRUE)
                             \/ DeleteTemplate(r, FALSE) \/ Deploy(r)
  BY <1>6, CleanupStep, DeleteTemplateStep, RestStep
<1>7. CASE Crash
  BY <1>7, CrashStep
<1>8. CASE UNCHANGED vars
  BY <1>8 DEF vars, IInv, FactoryTypeOK, NamesOK, NamedAs, ListedOK, BuildsOK, Exists, EngineOK, Linkage, Paired,
     FoundOK, Ahead, ActiveRowHasOwner, VersionsDistinct, OneActivePerFamily, ActiveInFamily,
     Family, Managed, Present
<1> QED  BY <1>1, <1>2, <1>3, <1>4, <1>5, <1>6, <1>7, <1>8 DEF Next

\* The strengthened invariant of the factory holds in every reachable state.
THEOREM FactoryInvariant == Spec => []IInv
BY InitInv, NextInv, PTL DEF Spec

\* Every variable keeps its type.
THEOREM FactoryTypes == Spec => []FactoryTypeOK
<1>1. IInv => FactoryTypeOK
  BY DEF IInv
<1> QED  BY <1>1, FactoryInvariant, PTL

\* A row of template_builds that says pending or building has an owner that ends it,
\* crashes, deletions and cancellations included, unless the last status the code tried
\* to write there was refused, which it only logs (engine.go:229, sqlite.go:1687).
THEOREM BuildsHaveOwners == Spec => []ActiveRowHasOwner
<1>1. IInv => ActiveRowHasOwner
  BY DEF IInv
<1> QED  BY <1>1, FactoryInvariant, PTL

\* Versions of a family are distinct, but for builds whose version was overtaken
\* (factory.go:141).
THEOREM FamilyVersionsDistinct == Spec => []VersionsDistinct
<1>1. IInv => VersionsDistinct
  BY DEF IInv
<1> QED  BY <1>1, FactoryInvariant, PTL

\* Two templates of a family are active at once only through an overtaken build, while
\* one is about to supersede the other, or after a supersede that failed or that a crash
\* prevented (sqlite.go:1788, service/factory.go:448).
THEOREM FamilyHasOneActive == Spec => []OneActivePerFamily
<1>1. IInv => OneActivePerFamily
  BY DEF IInv
<1> QED  BY <1>1, FactoryInvariant, PTL

LEMMA ManagedKept == IInv /\ [Next]_vars => Managed \subseteq Managed'
<1> SUFFICES ASSUME IInv, [Next]_vars PROVE Managed \subseteq Managed'
  OBVIOUS
<1>1. \/ UNCHANGED rows
      \/ SyncTemplates \/ StoreAnswer \/ LinkBuildToTemplate \/ LinkFamily \/ Supersede
      \/ \E r \in Refs : \/ CleanupSuperseded(r)
                         \/ \E destroy \in BOOLEAN : DeleteTemplate(r, destroy)
  BY DEF Next, vars, StartBuild, RebuildByUser, ProcessSchedule, TriggerRebuild, RebuildTemplate, Request,
     CreateTemplateBuild, RunBuild, EngineStep, Setup, Generate, WriteFiles, PackerInit, PackerCancelled,
     Packer, PackerFails, PackerSucceeds, Deadline, ListTemplates, CreateSchedule, DeleteSchedule, Publish,
     ReadBuild, CheckRunning, Signal, CancelOrphan, DeleteBuild, Deploy, Crash, GetTemplateBuild,
     HypervisorAnswers, FindTemplate
<1>2. CASE UNCHANGED rows
  BY <1>2 DEF Managed, Present
<1>3. CASE SyncTemplates \/ StoreAnswer
  <2>1. UNCHANGED rows \/ \E seen \in {listing, answer} : StoreListing(seen)
    BY <1>3 DEF SyncTemplates, StoreAnswer
  <2> QED  BY <2>1, Stored, RowsKept, NothingChanges DEF IInv
<1>4. CASE LinkBuildToTemplate
  <2>1. UNCHANGED rows \/ rows' = [rows EXCEPT ![found] = Linked(rows[found], engine.build)]
    BY <1>4 DEF LinkBuildToTemplate
  <2>2. engine.build # 0
    BY <1>4 DEF LinkBuildToTemplate, IInv, EngineOK
  <2>3. \A row \in FullRows : Linked(row, engine.build).build = engine.build
    BY DEF Linked, FullRows, Rows
  <2>4. \A r \in Managed : r \in Refs /\ rows[r] \in FullRows /\ rows[r].build # 0
    BY Rows1 DEF Managed, Present, IInv
  <2>5. \A r \in Managed : rows'[r].build # 0 /\ rows'[r] # NoRow
    <3> SUFFICES ASSUME NEW r \in Managed, rows'[r] = Linked(rows[r], engine.build)
                 PROVE  rows'[r].build # 0 /\ rows'[r] # NoRow
      BY <2>1, <2>4 DEF IInv, FactoryTypeOK, FullRows
    <3>1. rows'[r].build = engine.build
      BY <2>3, <2>4
    <3>2. rows'[r] # NoRow
      BY <2>4 DEF Linked, NoRow, FullRows, Rows
    <3> QED  BY <2>2, <3>1, <3>2
  <2> QED  BY <2>4, <2>5 DEF Managed, Present
<1>5. CASE LinkFamily \/ Supersede
  <2>1. \A r \in Managed : /\ r \in Refs /\ rows[r] \in FullRows /\ rows[r].build # 0
                           /\ [rows[r] EXCEPT !.family = TRUE] \in FullRows
                           /\ \A f \in Refs : [rows[r] EXCEPT !.status = "superseded", !.by = f] \in FullRows
    BY Rows1, RowsMade DEF Managed, Present, IInv
  <2>2. CASE Supersede
    <3>1. found \in Refs
      BY <2>2 DEF Supersede, IInv, FoundOK, Present
    <3>2. \A r \in Managed : \/ rows'[r] = rows[r]
                             \/ rows'[r] = [rows[r] EXCEPT !.status = "superseded", !.by = found]
      BY <2>1, <2>2 DEF Supersede, IInv, FactoryTypeOK
    <3>3. \A r \in Managed : rows'[r].build = rows[r].build /\ rows'[r] \in FullRows
      <4> SUFFICES ASSUME NEW r \in Managed,
                          rows'[r] = [rows[r] EXCEPT !.status = "superseded", !.by = found]
                   PROVE  rows'[r].build = rows[r].build /\ rows'[r] \in FullRows
        BY <2>1, <3>2
      <4>1. [rows[r] EXCEPT !.status = "superseded", !.by = found].build = rows[r].build
        BY <2>1, <3>1, BuildStays
      <4>2. [rows[r] EXCEPT !.status = "superseded", !.by = found] \in FullRows
        BY <2>1, <3>1
      <4> QED  BY <4>1, <4>2
    <3> QED  BY <2>1, <3>3 DEF Managed, Present, FullRows
  <2>3. CASE LinkFamily
    <3>1. \A r \in Managed : rows'[r] = rows[r] \/ rows'[r] = [rows[r] EXCEPT !.family = TRUE]
      BY <2>1, <2>3 DEF LinkFamily, IInv, FactoryTypeOK
    <3>2. \A r \in Managed : rows'[r].build = rows[r].build /\ rows'[r] \in FullRows
      BY <2>1, <3>1, BuildStays
    <3> QED  BY <2>1, <3>2 DEF Managed, Present, FullRows
  <2> QED  BY <1>5, <2>2, <2>3
<1>6. CASE \E r \in Refs : CleanupSuperseded(r)
  BY <1>6, CleanupKeepsRows DEF Managed, Present
<1>7. CASE \E r \in Refs, destroy \in BOOLEAN : DeleteTemplate(r, destroy)
  <2> PICK r \in Refs, destroy \in BOOLEAN : DeleteTemplate(r, destroy)
    BY <1>7
  <2>1. CASE r \in Managed
    BY <2>1 DEF DeleteTemplate, Managed, Present
  <2>2. CASE r \notin Managed
    <3>1. \A q \in Managed : /\ q \in Refs /\ rows[q] \in FullRows /\ rows[q].build # 0
                             /\ [rows[q] EXCEPT !.by = -1] \in FullRows
      BY Rows1, RowsMade DEF Managed, Present, IInv
    <3>2. \A q \in Managed : rows'[q] = rows[q] \/ rows'[q] = [rows[q] EXCEPT !.by = -1]
      BY <2>2, <3>1 DEF DeleteTemplate
    <3>3. \A q \in Managed : rows'[q].build = rows[q].build /\ rows'[q] \in FullRows
      BY <3>1, <3>2, BuildStays
    <3> QED  BY <3>1, <3>3 DEF Managed, Present, FullRows
  <2> QED  BY <2>1, <2>2
<1> QED  BY <1>1, <1>2, <1>3, <1>4, <1>5, <1>6, <1>7

\* A template that a build made never leaves the table: its build and it refer to each
\* other, so neither the deletion of a template (sqlite.go:450) nor the clean-up of
\* superseded versions (sqlite.go:1965) can remove it.
THEOREM LinkedTemplatesStay == Spec => [][Managed \subseteq Managed']_vars
BY ManagedKept, FactoryInvariant, PTL DEF Spec

=============================================================================
