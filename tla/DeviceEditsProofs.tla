-------------------------- MODULE DeviceEditsProofs --------------------------
(***************************************************************************)
(* The edits of the device lists, for any number of children, any names,   *)
(* any lists to import and any limit.  Three results: what the DELETE      *)
(* handler answered for holds (DeletedIsUnreferenced), while no two        *)
(* children write the same temporary file nothing but a whole list is      *)
(* ever published, and while no publication overtook another the files     *)
(* hold the edits that were answered for (NoEditLost).                     *)
(***************************************************************************)
EXTENDS HubHelpers, FiniteSetTheorems, WellFoundedInduction, TLAPS

(* Numbers and positions. *)

\* A finite set of numbers that is not empty has a least member, and Min is it.
LEMMA LeastIsThere ==
  ASSUME NEW S, S \subseteq Nat, IsFiniteSet(S), S # {}
  PROVE  D!Min(S) \in S /\ \A y \in S : D!Min(S) <= y
<1> DEFINE Below(x) == {y \in S : y <= x}
           T == {Below(x) : x \in S}
<1>1. IsWellFoundedOn(StrictSubsetOrdering(S), FiniteSubsetsOf(S))
  BY FS_StrictSubsetOrderingWellFounded
<1>2. T \subseteq FiniteSubsetsOf(S) /\ T # {}
  <2>1. \A x \in S : Below(x) \in SUBSET S /\ IsFiniteSet(Below(x))
    <3> SUFFICES ASSUME NEW x \in S PROVE Below(x) \in SUBSET S /\ IsFiniteSet(Below(x))
      OBVIOUS
    <3>1. Below(x) \in SUBSET S
      OBVIOUS
    <3> HIDE DEF Below
    <3> QED
      BY <3>1, FS_Subset
  <2>2. PICK x \in S : TRUE
    OBVIOUS
  <2> HIDE DEF Below
  <2>3. Below(x) \in T
    BY <2>2
  <2> QED
    BY <2>1, <2>3 DEF FiniteSubsetsOf
<1>3. PICK m \in T : \A t \in T : ~(<<t, m>> \in StrictSubsetOrdering(S))
  <2> HIDE DEF T
  <2> QED
    BY <1>1, <1>2, WFMin
<1>4. PICK x \in S : m = Below(x)
  OBVIOUS
<1>5. ASSUME NEW y \in S, y < x PROVE FALSE
  <2>1. x \in Nat /\ y \in Nat
    OBVIOUS
  <2>2. \A z \in S : z \in Nat /\ (z <= y => z <= x)
    BY <1>5, <2>1
  <2>3. Below(y) \subseteq Below(x) /\ x \notin Below(y) /\ x \in Below(x)
    <3>1. \A z : z \in Below(y) => z \in Below(x)
      BY <2>2
    <3>2. x \notin Below(y)
      BY <1>5, <2>1
    <3>3. x \in Below(x)
      BY <2>1
    <3> QED
      BY <3>1, <3>2, <3>3
  <2>4. <<Below(y), Below(x)>> \in StrictSubsetOrdering(S)
    <3>1. Below(y) \in SUBSET S /\ Below(x) \in SUBSET S
      OBVIOUS
    <3> HIDE DEF Below
    <3> QED
      BY <2>3, <3>1 DEF StrictSubsetOrdering
  <2>5. Below(y) \in T
    <3> HIDE DEF Below
    <3> QED
      OBVIOUS
  <2> HIDE DEF T, Below
  <2> QED
    BY <1>3, <1>4, <2>4, <2>5
<1>6. \A y \in S : x <= y
  BY <1>5
<1> QED
  BY <1>6 DEF D!Min

\* A finite set of numbers that is not empty has a greatest member.
LEMMA GreatestIsThere ==
  ASSUME NEW S, S \subseteq Nat, IsFiniteSet(S), S # {}
  PROVE  \E x \in S : \A y \in S : y <= x
<1> DEFINE Above(x) == {y \in S : x <= y}
           T == {Above(x) : x \in S}
<1>1. IsWellFoundedOn(StrictSubsetOrdering(S), FiniteSubsetsOf(S))
  BY FS_StrictSubsetOrderingWellFounded
<1>2. T \subseteq FiniteSubsetsOf(S) /\ T # {}
  <2>1. \A x \in S : Above(x) \in SUBSET S /\ IsFiniteSet(Above(x))
    <3> SUFFICES ASSUME NEW x \in S PROVE Above(x) \in SUBSET S /\ IsFiniteSet(Above(x))
      OBVIOUS
    <3>1. Above(x) \in SUBSET S
      OBVIOUS
    <3> HIDE DEF Above
    <3> QED
      BY <3>1, FS_Subset
  <2>2. PICK x \in S : TRUE
    OBVIOUS
  <2> HIDE DEF Above
  <2>3. Above(x) \in T
    BY <2>2
  <2> QED
    BY <2>1, <2>3 DEF FiniteSubsetsOf
<1>3. PICK m \in T : \A t \in T : ~(<<t, m>> \in StrictSubsetOrdering(S))
  <2> HIDE DEF T
  <2> QED
    BY <1>1, <1>2, WFMin
<1>4. PICK x \in S : m = Above(x)
  OBVIOUS
<1>5. ASSUME NEW y \in S, x < y PROVE FALSE
  <2>1. x \in Nat /\ y \in Nat
    OBVIOUS
  <2>2. \A z \in S : z \in Nat /\ (y <= z => x <= z)
    BY <1>5, <2>1
  <2>3. Above(y) \subseteq Above(x) /\ x \notin Above(y) /\ x \in Above(x)
    <3>1. \A z : z \in Above(y) => z \in Above(x)
      BY <2>2
    <3>2. x \notin Above(y)
      BY <1>5, <2>1
    <3>3. x \in Above(x)
      BY <2>1
    <3> QED
      BY <3>1, <3>2, <3>3
  <2>4. <<Above(y), Above(x)>> \in StrictSubsetOrdering(S)
    <3>1. Above(y) \in SUBSET S /\ Above(x) \in SUBSET S
      OBVIOUS
    <3> HIDE DEF Above
    <3> QED
      BY <2>3, <3>1 DEF StrictSubsetOrdering
  <2>5. Above(y) \in T
    <3> HIDE DEF Above
    <3> QED
      OBVIOUS
  <2> HIDE DEF T, Above
  <2> QED
    BY <1>3, <1>4, <2>4, <2>5
<1> QED
  BY <1>5

\* The places of a sequence where something holds.
LEMMA FirstOf ==
  ASSUME NEW n \in Nat, NEW S \in SUBSET (1 .. n)
  PROVE  LET at == IF S # {} THEN D!Min(S) ELSE 0 IN
           /\ S # {} => at \in S
           /\ S = {} => at = 0
<1>1. IsFiniteSet(1 .. n)
  <2>1. 1 \in Int /\ n \in Int
    OBVIOUS
  <2> QED
    BY <2>1, FS_Interval
<1>2. IsFiniteSet(S)
  BY <1>1, FS_Subset
<1>3. S \subseteq Nat
  OBVIOUS
<1> QED
  BY <1>2, <1>3, LeastIsThere

-----------------------------------------------------------------------------
(* Lists. *)

\* An entry of DeviceList.json.
Device == [id : Nat, label : Texts, cmds : Seq(Texts)]

\* An entry of ProtocolList.json.
Protocol == [name : Texts]

\* What a child was asked for.
EditRequest == [kind : D!EditKinds \cup {"none"}, id : Nat, old : Texts, name : Texts]

\* The place the scan for an id stops at holds that id, if any entry does.
LEMMA PositionOf ==
  ASSUME NEW list \in Seq(Device), NEW id
  PROVE  /\ id \in D!Ids(list) =>
              D!Position(list, id) \in 1 .. Len(list) /\ list[D!Position(list, id)].id = id
         /\ D!Position(list, id) \in 0 .. Len(list)
<1> DEFINE S == {i \in 1 .. Len(list) : list[i].id = id}
<1>1. D!Position(list, id) = IF S # {} THEN D!Min(S) ELSE 0
  BY DEF D!Position, D!SelectInSeq
<1>2. Len(list) \in Nat /\ S \in SUBSET (1 .. Len(list)) /\ DOMAIN list = 1 .. Len(list)
  OBVIOUS
<1>3. id \in D!Ids(list) => S # {}
  BY <1>2 DEF D!Ids
<1>4. /\ S # {} => D!Position(list, id) \in S
      /\ S = {} => D!Position(list, id) = 0
  <2> HIDE DEF S
  <2> QED
    BY <1>1, <1>2, FirstOf
<1> QED
  BY <1>2, <1>3, <1>4

\* The place a command is found at holds a command of that name.
LEMMA PlaceOf ==
  ASSUME NEW cmds \in Seq(Texts), NEW name
  PROVE  /\ D!Contains(cmds, name) =>
              /\ D!SelectInSeq(cmds, LAMBDA n : n = name) \in 1 .. Len(cmds)
              /\ cmds[D!SelectInSeq(cmds, LAMBDA n : n = name)] = name
<1> DEFINE S == {i \in 1 .. Len(cmds) : cmds[i] = name}
<1>1. D!SelectInSeq(cmds, LAMBDA n : n = name) = IF S # {} THEN D!Min(S) ELSE 0
  BY DEF D!SelectInSeq
<1>2. Len(cmds) \in Nat /\ S \in SUBSET (1 .. Len(cmds))
  OBVIOUS
<1>3. D!Contains(cmds, name) => S # {}
  BY DEF D!Contains
<1>4. S # {} => D!SelectInSeq(cmds, LAMBDA n : n = name) \in S
  <2> HIDE DEF S
  <2> QED
    BY <1>1, <1>2, FirstOf
<1> QED
  BY <1>3, <1>4

\* What is left of a list one entry of which was cut out.
LEMMA WithoutOne ==
  ASSUME NEW S, NEW s \in Seq(S), NEW i \in 1 .. Len(s)
  PROVE  /\ D!RemoveAt(s, i) \in Seq(S)
         /\ Len(D!RemoveAt(s, i)) = Len(s) - 1
         /\ \A j \in 1 .. Len(s) - 1 : D!RemoveAt(s, i)[j] = IF j < i THEN s[j] ELSE s[j + 1]
<1>1. /\ Len(s) \in Nat /\ i \in Nat /\ i >= 1 /\ i <= Len(s)
  OBVIOUS
<1>2. /\ SubSeq(s, 1, i - 1) \in Seq(S) /\ Len(SubSeq(s, 1, i - 1)) = i - 1
      /\ \A j \in 1 .. i - 1 : SubSeq(s, 1, i - 1)[j] = s[j]
  BY <1>1
<1>3. /\ SubSeq(s, i + 1, Len(s)) \in Seq(S) /\ Len(SubSeq(s, i + 1, Len(s))) = Len(s) - i
      /\ \A j \in 1 .. Len(s) - i : SubSeq(s, i + 1, Len(s))[j] = s[i + j]
  BY <1>1
<1> DEFINE a == SubSeq(s, 1, i - 1)
           b == SubSeq(s, i + 1, Len(s))
<1>4. D!RemoveAt(s, i) = a \o b
  BY DEF D!RemoveAt
<1> HIDE DEF a, b
<1>5. /\ a \o b \in Seq(S) /\ Len(a \o b) = Len(a) + Len(b)
      /\ \A j \in 1 .. Len(a) + Len(b) :
           (a \o b)[j] = IF j <= Len(a) THEN a[j] ELSE b[j - Len(a)]
  <2>1. a \in Seq(S) /\ b \in Seq(S)
    BY <1>2, <1>3 DEF a, b
  <2> QED
    BY <2>1
<1>6. Len(a) = i - 1 /\ Len(b) = Len(s) - i
  BY <1>2, <1>3 DEF a, b
<1>7. ASSUME NEW j \in 1 .. Len(s) - 1
      PROVE  (a \o b)[j] = IF j < i THEN s[j] ELSE s[j + 1]
  <2>1. CASE j < i
    BY <1>1, <1>2, <1>5, <1>6, <2>1 DEF a
  <2>2. CASE ~(j < i)
    <3>1. (a \o b)[j] = b[j - (i - 1)]
      BY <1>1, <1>5, <1>6, <2>2
    <3>2. j - (i - 1) \in 1 .. Len(s) - i /\ i + (j - (i - 1)) = j + 1
      BY <1>1, <2>2
    <3> QED
      BY <1>3, <2>2, <3>1, <3>2 DEF b
  <2> QED
    BY <2>1, <2>2
<1> QED
  BY <1>1, <1>4, <1>5, <1>6, <1>7

\* A list has finitely many ids.
LEMMA IdsOf ==
  ASSUME NEW list \in Seq(Device)
  PROVE  D!Ids(list) \subseteq Nat /\ IsFiniteSet(D!Ids(list))
<1> DEFINE ids == [i \in 1 .. Len(list) |-> list[i].id]
<1>1. \A i \in 1 .. Len(list) : list[i].id \in Nat
  <2>1. \A i \in 1 .. Len(list) : list[i] \in Device
    OBVIOUS
  <2>2. \A d \in Device : d.id \in Nat
    BY DEF Device
  <2> QED
    BY <2>1, <2>2
<1>2. D!Ids(list) = {list[i].id : i \in 1 .. Len(list)}
  BY DEF D!Ids
<1>3. ids \in Seq(D!Ids(list)) /\ Len(ids) = Len(list)
  BY <1>2
<1>4. \A d \in D!Ids(list) : \E n \in 1 .. Len(ids) : ids[n] = d
  BY <1>2, <1>3
<1>5. IsFiniteSet(D!Ids(list))
  <2> HIDE DEF ids
  <2> QED
    BY <1>3, <1>4 DEF IsFiniteSet
<1> QED
  BY <1>1, <1>2, <1>5

\* No id of a list exceeds the largest one.
LEMMA LargestOf ==
  ASSUME NEW list \in Seq(Device)
  PROVE  /\ D!Largest(list) \in Nat
         /\ \A i \in D!Ids(list) : i <= D!Largest(list)
<1> DEFINE S == {0} \cup D!Ids(list)
<1>1. D!Ids(list) \subseteq Nat /\ IsFiniteSet(D!Ids(list))
  BY IdsOf
<1>2. IsFiniteSet(S)
  <2>1. IsFiniteSet({0})
    BY FS_Singleton
  <2> QED
    BY <1>1, <2>1, FS_Union
<1>3. S \subseteq Nat /\ S # {}
  BY <1>1
<1>4. PICK x \in S : \A y \in S : y <= x
  <2> HIDE DEF S
  <2> QED
    BY <1>2, <1>3, GreatestIsThere
<1> QED
  BY <1>1, <1>4 DEF D!Largest

\* The id a new device gets is none of the list (create_ir_device_ex).
LEMMA FreshIdsOf ==
  ASSUME NEW list \in Seq(Device), NEW id \in D!FreshIds(list)
  PROVE  id \in Nat /\ id \notin D!Ids(list)
<1>1. Floor \in Nat /\ Spread \in Nat
  BY DevicesAssumption
<1>2. D!Largest(list) \in Nat /\ \A i \in D!Ids(list) : i <= D!Largest(list)
  BY LargestOf
<1>3. D!Ids(list) \subseteq Nat
  BY IdsOf
<1>4. id \in Nat /\ id > D!Largest(list)
  BY <1>1, <1>2 DEF D!FreshIds
<1> QED
  BY <1>2, <1>3, <1>4

\* A finite set put in order lists each of its members once.
LEMMA OrderedSet ==
  ASSUME NEW T, IsFiniteSet(T)
  PROVE  /\ D!SetToSeq(T) \in Seq(T)
         /\ Len(D!SetToSeq(T)) \in Nat
         /\ \A i, j \in 1 .. Len(D!SetToSeq(T)) : D!SetToSeq(T)[i] = D!SetToSeq(T)[j] => i = j
<1> DEFINE rows == D!SetToSeq(T)
<1>1. /\ rows \in [1 .. Cardinality(T) -> T]
      /\ \A i, j \in 1 .. Cardinality(T) : rows[i] = rows[j] => i = j
      /\ Cardinality(T) \in Nat
  <2>1. ExistsBijection(1 .. Cardinality(T), T) /\ Cardinality(T) \in Nat
    BY FS_CountingElements, FS_CardinalityType
  <2>2. PICK g : g \in Bijection(1 .. Cardinality(T), T)
    BY <2>1 DEF ExistsBijection
  <2>3. g \in [1 .. Cardinality(T) -> T] /\ \A i, j \in 1 .. Cardinality(T) : g[i] = g[j] => i = j
    BY <2>2 DEF Bijection, Injection, IsInjective, Surjection
  <2>4. Cardinality(T) = D!Cardinality(T)
    BY DEF Cardinality, D!Cardinality
  <2>5. rows = CHOOSE f \in [1 .. Cardinality(T) -> T] : D!IsInjective(f)
    BY <2>4 DEF D!SetToSeq
  <2>6. \A f \in [1 .. Cardinality(T) -> T] :
          D!IsInjective(f) <=> \A i, j \in 1 .. Cardinality(T) : f[i] = f[j] => i = j
    BY DEF D!IsInjective
  <2> HIDE DEF rows
  <2> QED
    BY <2>1, <2>3, <2>5, <2>6
<1>2. rows \in Seq(T) /\ Len(rows) = Cardinality(T)
  <2> HIDE DEF rows
  <2> QED
    BY <1>1
<1> HIDE DEF rows
<1> QED
  BY <1>1, <1>2 DEF rows

\* An import stages names the device does not hold yet, each once, and no more
\* than its table still takes (bulk_import_irdb_commands).
LEMMA StagedOf ==
  ASSUME NEW cmds \in Seq(Texts), Len(cmds) <= MaxCommands
  PROVE  /\ D!Staged(cmds) \in Seq(Texts)
         /\ \A i \in 1 .. Len(D!Staged(cmds)) : ~D!Contains(cmds, D!Staged(cmds)[i])
         /\ D!Distinct(D!Staged(cmds))
         /\ Len(cmds) + Len(D!Staged(cmds)) <= MaxCommands
<1> DEFINE T == Names \ D!ToSet(cmds)
           rows == D!SetToSeq(T)
           room == MaxCommands - Len(cmds)
           m == IF Len(rows) < room THEN Len(rows) ELSE room
<1>1. MaxCommands \in Nat /\ Len(cmds) \in Nat /\ room \in Nat
  BY DevicesAssumption
<1>2. IsFiniteSet(T) /\ T \subseteq Texts
  BY DevicesAssumption, FS_Difference
<1>3. rows \in Seq(T) /\ Len(rows) \in Nat
  BY <1>2, OrderedSet
<1>4. \A i, j \in 1 .. Len(rows) : rows[i] = rows[j] => i = j
  BY <1>2, OrderedSet
<1>5. \A i \in 1 .. Len(rows) : rows[i] \in Texts /\ rows[i] \notin D!ToSet(cmds)
  <2>1. \A i \in 1 .. Len(rows) : rows[i] \in T
    <3> HIDE DEF rows, T
    <3> QED
      BY <1>3
  <2> HIDE DEF rows
  <2> QED
    BY <1>2, <2>1
<1>6. \A n : D!Contains(cmds, n) => n \in D!ToSet(cmds)
  BY DEF D!Contains, D!ToSet
<1>7. m \in Nat /\ m <= Len(rows) /\ m <= room
  <2> HIDE DEF rows
  <2> QED
    BY <1>1, <1>3
<1>8. D!Staged(cmds) = SubSeq(rows, 1, m)
  BY DEF D!Staged
<1> HIDE DEF m, rows, T
<1>9. /\ SubSeq(rows, 1, m) \in Seq(T) /\ Len(SubSeq(rows, 1, m)) = m
      /\ \A i \in 1 .. m : SubSeq(rows, 1, m)[i] = rows[i] /\ i \in 1 .. Len(rows)
  BY <1>3, <1>7
<1>10. D!Staged(cmds) \in Seq(Texts)
  <2>1. \A i \in 1 .. m : SubSeq(rows, 1, m)[i] \in Texts
    BY <1>5, <1>9
  <2> QED
    BY <1>7, <1>8, <1>9, <2>1
<1>11. \A i \in 1 .. Len(D!Staged(cmds)) : ~D!Contains(cmds, D!Staged(cmds)[i])
  BY <1>5, <1>6, <1>8, <1>9
<1>12. D!Distinct(D!Staged(cmds))
  BY <1>3, <1>4, <1>8, <1>9 DEF D!Distinct
<1> QED
  BY <1>1, <1>7, <1>8, <1>9, <1>10, <1>11, <1>12

\* What an import stages are names, whatever the device holds.
LEMMA StagedTyped ==
  ASSUME NEW cmds \in Seq(Texts)
  PROVE  D!Staged(cmds) \in Seq(Texts)
<1>1. CASE Len(cmds) <= MaxCommands
  BY <1>1, StagedOf
<1>2. CASE ~(Len(cmds) <= MaxCommands)
  <2> DEFINE rows == D!SetToSeq(Names \ D!ToSet(cmds))
             room == MaxCommands - Len(cmds)
             m == IF Len(rows) < room THEN Len(rows) ELSE room
  <2>1. room \in Int /\ room < 0
    BY <1>2, DevicesAssumption
  <2>2. IsFiniteSet(Names \ D!ToSet(cmds)) /\ Names \ D!ToSet(cmds) \subseteq Texts
    BY DevicesAssumption, FS_Difference
  <2>3. D!Staged(cmds) = SubSeq(rows, 1, m)
    BY DEF D!Staged
  <2>4. Len(rows) \in Nat
    BY <2>2, OrderedSet
  <2>5. m = room
    <3> HIDE DEF rows, room
    <3> QED
      BY <2>1, <2>4
  <2> HIDE DEF m, rows, room
  <2>6. SubSeq(rows, 1, m) = <<>>
    BY <2>1, <2>5
  <2>7. D!Staged(cmds) = <<>>
    BY <2>3, <2>6
  <2> QED
    BY <2>7
<1> QED
  BY <1>1, <1>2

\* Removing a command adds no name and makes no duplicate.
LEMMA RemovedFirst ==
  ASSUME NEW cmds \in Seq(Texts), NEW name
  PROVE  /\ D!RemoveFirst(cmds, name) \in Seq(Texts)
         /\ Len(D!RemoveFirst(cmds, name)) <= Len(cmds)
         /\ \A n : D!Contains(D!RemoveFirst(cmds, name), n) => D!Contains(cmds, n)
         /\ D!Distinct(cmds) => D!Distinct(D!RemoveFirst(cmds, name))
<1> DEFINE i == D!SelectInSeq(cmds, LAMBDA n : n = name)
<1>1. CASE ~D!Contains(cmds, name)
  <2>1. D!RemoveFirst(cmds, name) = cmds
    BY <1>1 DEF D!RemoveFirst, D!Contains
  <2> QED
    BY <2>1
<1>2. CASE D!Contains(cmds, name)
  <2>1. D!RemoveFirst(cmds, name) = D!RemoveAt(cmds, i)
    BY <1>2 DEF D!RemoveFirst, D!Contains
  <2>2. i \in 1 .. Len(cmds)
    <3>1. D!Contains(cmds, name) => i \in 1 .. Len(cmds) /\ cmds[i] = name
      BY PlaceOf
    <3> QED
      BY <1>2, <3>1
  <2> HIDE DEF i
  <2>3. /\ D!RemoveAt(cmds, i) \in Seq(Texts)
        /\ Len(D!RemoveAt(cmds, i)) = Len(cmds) - 1
        /\ \A j \in 1 .. Len(cmds) - 1 :
             D!RemoveAt(cmds, i)[j] = IF j < i THEN cmds[j] ELSE cmds[j + 1]
    BY <2>2, WithoutOne
  <2>4. Len(cmds) \in Nat /\ \A j \in 1 .. Len(cmds) - 1 : j \in 1 .. Len(cmds) /\ j + 1 \in 1 .. Len(cmds)
    OBVIOUS
  <2> DEFINE cut == D!RemoveAt(cmds, i)
  <2>5. \A n : D!Contains(cut, n) => D!Contains(cmds, n)
    BY <2>3, <2>4 DEF D!Contains
  <2>6. D!Distinct(cmds) => D!Distinct(cut)
    <3>1. /\ DOMAIN cut = 1 .. Len(cmds) - 1 /\ DOMAIN cmds = 1 .. Len(cmds)
          /\ Len(cmds) \in Nat /\ i \in Nat
      BY <2>2, <2>3
    <3>2. SUFFICES ASSUME D!Distinct(cmds), NEW j \in 1 .. Len(cmds) - 1,
                          NEW k \in 1 .. Len(cmds) - 1, cut[j] = cut[k]
                   PROVE  j = k
      BY <3>1 DEF D!Distinct
    <3>3. /\ cut[j] = cmds[IF j < i THEN j ELSE j + 1]
          /\ cut[k] = cmds[IF k < i THEN k ELSE k + 1]
      BY <2>3
    <3> HIDE DEF cut
    <3>4. (IF j < i THEN j ELSE j + 1) = (IF k < i THEN k ELSE k + 1)
      BY <2>4, <3>1, <3>2, <3>3 DEF D!Distinct
    <3> QED
      BY <3>1, <3>4
  <2> QED
    BY <2>1, <2>3, <2>4, <2>5, <2>6
<1> QED
  BY <1>1, <1>2

\* Renaming a command adds the new name alone, and makes no duplicate of a list
\* that has none and does not hold that name.
LEMMA RenamedOf ==
  ASSUME NEW cmds \in Seq(Texts), NEW old, NEW name \in Texts
  PROVE  /\ D!Renamed(cmds, old, name) \in Seq(Texts)
         /\ Len(D!Renamed(cmds, old, name)) = Len(cmds)
         /\ \A n : D!Contains(D!Renamed(cmds, old, name), n) => D!Contains(cmds, n) \/ n = name
         /\ D!Distinct(cmds) /\ D!Contains(cmds, old)
              /\ (name # old => ~D!Contains(cmds, name))
            => D!Distinct(D!Renamed(cmds, old, name))
<1> DEFINE i == D!SelectInSeq(cmds, LAMBDA n : n = old)
           new == D!Renamed(cmds, old, name)
<1>1. new = IF D!Contains(cmds, old) THEN [cmds EXCEPT ![i] = name] ELSE cmds
  BY DEF D!Renamed
<1>2. D!Contains(cmds, old) => i \in 1 .. Len(cmds) /\ cmds[i] = old
  BY PlaceOf
<1> HIDE DEF i, new
<1>3. new \in Seq(Texts) /\ Len(new) = Len(cmds) /\ DOMAIN new = 1 .. Len(cmds)
  <2>1. CASE D!Contains(cmds, old)
    <3>1. i \in 1 .. Len(cmds) /\ new = [cmds EXCEPT ![i] = name]
      BY <1>1, <1>2, <2>1
    <3>2. Len(cmds) \in Nat /\ cmds \in [1 .. Len(cmds) -> Texts]
      OBVIOUS
    <3>3. new \in [1 .. Len(cmds) -> Texts]
      BY <3>1, <3>2
    <3> QED
      BY <3>2, <3>3
  <2>2. CASE ~D!Contains(cmds, old)
    <3>1. new = cmds
      BY <1>1, <2>2
    <3> QED
      BY <3>1
  <2> QED
    BY <2>1, <2>2
<1>4. \A j \in 1 .. Len(cmds) :
        new[j] = IF j = i /\ D!Contains(cmds, old) THEN name ELSE cmds[j]
  BY <1>1, <1>2
<1>5. \A n : D!Contains(new, n) => D!Contains(cmds, n) \/ n = name
  BY <1>3, <1>4 DEF D!Contains
<1>6. ASSUME D!Distinct(cmds), D!Contains(cmds, old), name # old => ~D!Contains(cmds, name)
      PROVE  D!Distinct(new)
  <2>1. DOMAIN cmds = 1 .. Len(cmds) /\ i \in 1 .. Len(cmds) /\ cmds[i] = old
    BY <1>2, <1>6
  <2>2. \A j \in 1 .. Len(cmds) : cmds[j] = name => j = i
    <3>1. CASE name = old
      BY <1>6, <2>1, <3>1 DEF D!Distinct
    <3>2. CASE name # old
      BY <1>6, <3>2 DEF D!Contains
    <3> QED
      BY <3>1, <3>2
  <2>3. SUFFICES ASSUME NEW j \in 1 .. Len(cmds), NEW k \in 1 .. Len(cmds), new[j] = new[k]
                 PROVE  j = k
    BY <1>3 DEF D!Distinct
  <2>4. /\ new[j] = IF j = i THEN name ELSE cmds[j]
        /\ new[k] = IF k = i THEN name ELSE cmds[k]
    BY <1>4, <1>6
  <2> QED
    BY <1>6, <2>1, <2>2, <2>3, <2>4 DEF D!Distinct
<1> QED
  BY <1>3, <1>5, <1>6 DEF new

\* What Accepts asks of the commands of the device an edit is about.
Allowed(r, cmds) ==
  /\ r.kind = "add" => Len(cmds) < MaxCommands /\ ~D!Contains(cmds, r.name)
  /\ r.kind = "change" =>
       D!Contains(cmds, r.old) /\ (r.name # r.old => ~D!Contains(cmds, r.name))

\* A name the edit may bring to the device.
NewIn(r, cmds, n) ==
  \/ r.kind \in {"add", "change"} /\ n = r.name
  \/ r.kind = "import" /\ D!Contains(D!Staged(cmds), n)

\* What two lists put end to end hold, and when that has no duplicate.
LEMMA Joined ==
  ASSUME NEW a \in Seq(Texts), NEW b \in Seq(Texts)
  PROVE  /\ a \o b \in Seq(Texts) /\ Len(a \o b) = Len(a) + Len(b)
         /\ \A n : D!Contains(a \o b, n) => D!Contains(a, n) \/ D!Contains(b, n)
         /\ D!Distinct(a) /\ D!Distinct(b) /\ (\A i \in 1 .. Len(b) : ~D!Contains(a, b[i]))
              => D!Distinct(a \o b)
<1>1. Len(a) \in Nat /\ Len(b) \in Nat /\ DOMAIN a = 1 .. Len(a) /\ DOMAIN b = 1 .. Len(b)
  OBVIOUS
<1>2. /\ a \o b \in Seq(Texts) /\ Len(a \o b) = Len(a) + Len(b)
      /\ DOMAIN (a \o b) = 1 .. Len(a) + Len(b)
  OBVIOUS
<1>3. \A j \in 1 .. Len(a) + Len(b) :
        /\ j <= Len(a) => j \in 1 .. Len(a) /\ (a \o b)[j] = a[j]
        /\ ~(j <= Len(a)) => j - Len(a) \in 1 .. Len(b) /\ (a \o b)[j] = b[j - Len(a)]
  OBVIOUS
<1> DEFINE c == a \o b
<1> HIDE DEF c
<1>4. \A n : D!Contains(c, n) => D!Contains(a, n) \/ D!Contains(b, n)
  BY <1>2, <1>3 DEF D!Contains, c
<1>5. ASSUME D!Distinct(a), D!Distinct(b), \A i \in 1 .. Len(b) : ~D!Contains(a, b[i])
      PROVE  D!Distinct(c)
  <2>1. SUFFICES ASSUME NEW j \in 1 .. Len(a) + Len(b), NEW k \in 1 .. Len(a) + Len(b), c[j] = c[k]
                 PROVE  j = k
    BY <1>2 DEF D!Distinct, c
  <2>2. \A i \in 1 .. Len(b), m \in 1 .. Len(a) : b[i] # a[m]
    BY <1>5 DEF D!Contains
  <2>3. /\ j <= Len(a) => j \in 1 .. Len(a) /\ c[j] = a[j]
        /\ ~(j <= Len(a)) => j - Len(a) \in 1 .. Len(b) /\ c[j] = b[j - Len(a)]
        /\ k <= Len(a) => k \in 1 .. Len(a) /\ c[k] = a[k]
        /\ ~(k <= Len(a)) => k - Len(a) \in 1 .. Len(b) /\ c[k] = b[k - Len(a)]
    BY <1>3 DEF c
  <2>4. CASE j <= Len(a) /\ k <= Len(a)
    BY <1>1, <1>5, <2>1, <2>3, <2>4 DEF D!Distinct
  <2>5. CASE ~(j <= Len(a)) /\ ~(k <= Len(a))
    <3>1. j - Len(a) = k - Len(a)
      BY <1>1, <1>5, <2>1, <2>3, <2>5 DEF D!Distinct
    <3> QED
      BY <1>1, <3>1
  <2>6. CASE j <= Len(a) /\ ~(k <= Len(a))
    BY <2>1, <2>2, <2>3, <2>6
  <2>7. CASE ~(j <= Len(a)) /\ k <= Len(a)
    BY <2>1, <2>2, <2>3, <2>7
  <2> QED
    BY <2>4, <2>5, <2>6, <2>7
<1> QED
  BY <1>2, <1>4, <1>5 DEF c

\* What a list holds with one more at its end, and when that has no duplicate.
LEMMA Appended ==
  ASSUME NEW S, NEW a \in Seq(S), NEW name \in S
  PROVE  /\ Append(a, name) \in Seq(S) /\ Len(Append(a, name)) = Len(a) + 1
         /\ \A n : D!Contains(Append(a, name), n) => D!Contains(a, n) \/ n = name
         /\ D!Distinct(a) /\ ~D!Contains(a, name) => D!Distinct(Append(a, name))
<1> DEFINE b == Append(a, name)
<1>1. Len(a) \in Nat /\ DOMAIN a = 1 .. Len(a)
  OBVIOUS
<1>2. b \in Seq(S) /\ Len(b) = Len(a) + 1 /\ DOMAIN b = 1 .. Len(a) + 1
  <2>1. b \in Seq(S)
    OBVIOUS
  <2>2. Len(b) = Len(a) + 1
    OBVIOUS
  <2> HIDE DEF b
  <2> QED
    BY <2>1, <2>2
<1>3. \A j \in 1 .. Len(a) : b[j] = a[j] /\ j \in 1 .. Len(b)
  BY <1>1
<1>4. b[Len(a) + 1] = name
  BY <1>1
<1> HIDE DEF b
<1>5. \A j \in 1 .. Len(a) + 1 : j = Len(a) + 1 \/ j \in 1 .. Len(a)
  BY <1>1
<1>6. \A n : D!Contains(b, n) => D!Contains(a, n) \/ n = name
  <2>1. \A n : D!Contains(b, n) => \E j \in 1 .. Len(a) + 1 : b[j] = n
    BY <1>2 DEF D!Contains
  <2>2. \A n : (\E j \in 1 .. Len(a) : a[j] = n) => D!Contains(a, n)
    BY DEF D!Contains
  <2> QED
    BY <1>3, <1>4, <1>5, <2>1, <2>2
<1>7. ASSUME D!Distinct(a), ~D!Contains(a, name) PROVE D!Distinct(b)
  <2>1. \A j \in 1 .. Len(a) : a[j] # name
    BY <1>7 DEF D!Contains
  <2>2. \A j, k \in 1 .. Len(a) : a[j] = a[k] => j = k
    BY <1>1, <1>7 DEF D!Distinct
  <2>3. \A j, k \in 1 .. Len(a) + 1 : b[j] = b[k] => j = k
    BY <1>3, <1>4, <1>5, <2>1, <2>2
  <2> QED
    BY <1>2, <2>3 DEF D!Distinct
<1> QED
  BY <1>2, <1>6, <1>7 DEF b

\* Every edit leaves a list of names.
LEMMA RewrittenTyped ==
  ASSUME NEW r \in EditRequest, NEW cmds \in Seq(Texts)
  PROVE  D!Rewritten(r, cmds) \in Seq(Texts)
<1>1. r.name \in Texts
  BY DEF EditRequest
<1>2. D!Renamed(cmds, r.old, r.name) \in Seq(Texts)
  BY <1>1, RenamedOf
<1>3. D!RemoveFirst(cmds, r.name) \in Seq(Texts)
  BY RemovedFirst
<1>4. cmds \o D!Staged(cmds) \in Seq(Texts)
  <2>1. D!Staged(cmds) \in Seq(Texts)
    BY StagedTyped
  <2> QED
    BY <2>1
<1>5. Append(cmds, r.name) \in Seq(Texts) /\ <<>> \in Seq(Texts)
  BY <1>1
<1> QED
  BY <1>2, <1>3, <1>4, <1>5 DEF D!Rewritten

\* An edit that passed its checks leaves the commands of the device without
\* duplicates and within the table, and brings only the names it was sent with.
LEMMA RewrittenOf ==
  ASSUME NEW r \in EditRequest, NEW cmds \in Seq(Texts),
         D!Distinct(cmds), Len(cmds) <= MaxCommands, Allowed(r, cmds)
  PROVE  /\ D!Distinct(D!Rewritten(r, cmds)) /\ Len(D!Rewritten(r, cmds)) <= MaxCommands
         /\ \A n : D!Contains(D!Rewritten(r, cmds), n) => D!Contains(cmds, n) \/ NewIn(r, cmds, n)
<1> DEFINE new == D!Rewritten(r, cmds)
           Good(s) == /\ D!Distinct(s) /\ Len(s) <= MaxCommands
                      /\ \A n : D!Contains(s, n) => D!Contains(cmds, n) \/ NewIn(r, cmds, n)
<1>1. r.name \in Texts /\ Len(cmds) \in Nat /\ MaxCommands \in Nat
  BY DevicesAssumption DEF EditRequest
<1>2. CASE r.kind = "add"
  <2>1. new = Append(cmds, r.name)
    BY <1>2 DEF D!Rewritten
  <2>2. D!Distinct(Append(cmds, r.name)) /\ Len(Append(cmds, r.name)) <= MaxCommands
    <3>1. Len(cmds) < MaxCommands /\ ~D!Contains(cmds, r.name)
      BY <1>2 DEF Allowed
    <3>2. Len(Append(cmds, r.name)) = Len(cmds) + 1 /\ D!Distinct(Append(cmds, r.name))
      BY <1>1, <3>1, Appended
    <3> QED
      BY <1>1, <3>1, <3>2
  <2>3. \A n : D!Contains(Append(cmds, r.name), n) => D!Contains(cmds, n) \/ n = r.name
    BY <1>1, Appended
  <2> QED
    BY <1>2, <2>1, <2>2, <2>3 DEF NewIn
<1>3. CASE r.kind = "change"
  <2>1. new = D!Renamed(cmds, r.old, r.name)
    BY <1>3 DEF D!Rewritten
  <2>2. /\ Len(D!Renamed(cmds, r.old, r.name)) = Len(cmds)
        /\ \A n : D!Contains(D!Renamed(cmds, r.old, r.name), n) => D!Contains(cmds, n) \/ n = r.name
    BY <1>1, RenamedOf
  <2>3. D!Distinct(D!Renamed(cmds, r.old, r.name))
    BY <1>1, <1>3, RenamedOf DEF Allowed
  <2> QED
    BY <1>1, <1>3, <2>1, <2>2, <2>3 DEF NewIn
<1>4. CASE r.kind = "remove"
  <2>1. new = D!RemoveFirst(cmds, r.name)
    BY <1>4 DEF D!Rewritten
  <2>2. /\ D!RemoveFirst(cmds, r.name) \in Seq(Texts) /\ D!Distinct(D!RemoveFirst(cmds, r.name))
        /\ Len(D!RemoveFirst(cmds, r.name)) <= Len(cmds)
        /\ \A n : D!Contains(D!RemoveFirst(cmds, r.name), n) => D!Contains(cmds, n)
    BY RemovedFirst
  <2>3. Len(D!RemoveFirst(cmds, r.name)) \in Nat
    BY <2>2
  <2> QED
    BY <1>1, <2>1, <2>2, <2>3
<1>5. CASE r.kind = "clear"
  <2>1. new = <<>>
    BY <1>5 DEF D!Rewritten
  <2>2. D!Distinct(<<>>) /\ Len(<<>>) = 0 /\ \A n : ~D!Contains(<<>>, n)
    BY DEF D!Distinct, D!Contains
  <2> QED
    BY <1>1, <2>1, <2>2
<1>6. CASE r.kind = "import"
  <2>1. new = cmds \o D!Staged(cmds)
    BY <1>6 DEF D!Rewritten
  <2>2. /\ D!Staged(cmds) \in Seq(Texts) /\ D!Distinct(D!Staged(cmds))
        /\ \A i \in 1 .. Len(D!Staged(cmds)) : ~D!Contains(cmds, D!Staged(cmds)[i])
        /\ Len(cmds) + Len(D!Staged(cmds)) <= MaxCommands
    BY StagedOf
  <2>3. /\ Len(new) = Len(cmds) + Len(D!Staged(cmds)) /\ D!Distinct(new)
        /\ \A n : D!Contains(new, n) => D!Contains(cmds, n) \/ D!Contains(D!Staged(cmds), n)
    BY <2>1, <2>2, Joined
  <2> QED
    BY <1>6, <2>2, <2>3 DEF NewIn
<1>7. CASE r.kind \notin {"add", "change", "remove", "clear", "import"}
  BY <1>1, <1>7 DEF D!Rewritten
<1> QED
  BY <1>2, <1>3, <1>4, <1>5, <1>6, <1>7

\* Two fields of an entry rewritten, the third left.
LEMMA Updated ==
  ASSUME NEW S1, NEW S2, NEW S3, NEW e \in [id : S1, label : S2, cmds : S3], NEW c, NEW l
  PROVE  /\ [e EXCEPT !.cmds = c].label = e.label
         /\ [[e EXCEPT !.cmds = c] EXCEPT !.label = l] = [id |-> e.id, label |-> l, cmds |-> c]
<1>1. [e EXCEPT !.cmds = c] = [id |-> e.id, label |-> e.label, cmds |-> c]
  OBVIOUS
<1>2. \A x, y : [[id |-> x, label |-> y, cmds |-> c] EXCEPT !.label = l]
                  = [id |-> x, label |-> l, cmds |-> c]
  OBVIOUS
<1>3. [[e EXCEPT !.cmds = c] EXCEPT !.label = l]
        = [[id |-> e.id, label |-> e.label, cmds |-> c] EXCEPT !.label = l]
  BY <1>1, Zenon
<1>4. \A x, y : [id |-> x, label |-> y, cmds |-> c].label = y
  OBVIOUS
<1>5. [e EXCEPT !.cmds = c].label = e.label
  BY <1>1, <1>4
<1> QED
  BY <1>2, <1>3, <1>5

\* An edit rewrites the entry its id is found at and no other.
LEMMA EditedOf ==
  ASSUME NEW r \in EditRequest, NEW list \in Seq(Device), r.id \in D!Ids(list), r.kind # "delete"
  PROVE  LET i == D!Position(list, r.id)
             new == D!Edited(r, list)
         IN /\ i \in 1 .. Len(list) /\ list[i].id = r.id
            /\ new \in Seq(Device) /\ Len(new) = Len(list)
            /\ \A j \in 1 .. Len(list) :
                 new[j] = [id |-> list[j].id,
                           label |-> IF j = i /\ r.kind = "label" THEN r.name ELSE list[j].label,
                           cmds |-> IF j = i THEN D!Rewritten(r, list[j].cmds) ELSE list[j].cmds]
<1> DEFINE i == D!Position(list, r.id)
           new == D!Edited(r, list)
           d == [id |-> list[i].id,
                 label |-> IF r.kind = "label" THEN r.name ELSE list[i].label,
                 cmds |-> D!Rewritten(r, list[i].cmds)]
<1>1. i \in 1 .. Len(list) /\ list[i].id = r.id
  BY PositionOf
<1>2. r.name \in Texts
  BY DEF EditRequest
<1>3. \A j \in 1 .. Len(list) : list[j] \in Device
  OBVIOUS
<1>4. \A e \in Device : /\ e.id \in Nat /\ e.label \in Texts /\ e.cmds \in Seq(Texts)
                        /\ e = [id |-> e.id, label |-> e.label, cmds |-> e.cmds]
  BY DEF Device
<1>5. D!Rewritten(r, list[i].cmds) \in Seq(Texts)
  BY <1>1, <1>3, <1>4, RewrittenTyped
<1>6. d \in Device
  BY <1>1, <1>2, <1>3, <1>4, <1>5 DEF Device
<1>7. new = [list EXCEPT ![i] = d]
  <2>1. new = [list EXCEPT ![i].cmds = D!Rewritten(r, @),
                           ![i].label = IF r.kind = "label" THEN r.name ELSE @]
    BY DEF D!Edited
  <2> DEFINE e == list[i]
             c == D!Rewritten(r, e.cmds)
             l == IF r.kind = "label" THEN r.name ELSE e.label
             half == [list EXCEPT ![i] = [e EXCEPT !.cmds = c]]
  <2>2. e \in Device
    BY <1>1, <1>3
  <2> HIDE DEF i, new
  <2>3. new = [half EXCEPT ![i].label = IF r.kind = "label" THEN r.name ELSE @]
    BY <2>1
  <2>4. half[i] = [e EXCEPT !.cmds = c] /\ half[i].label = e.label
    <3>1. half[i] = [e EXCEPT !.cmds = c]
      <4> HIDE DEF c, e
      <4> QED
        BY <1>1
    <3>2. [e EXCEPT !.cmds = c].label = e.label
      <4> HIDE DEF c, e
      <4> QED
        BY <2>2, Updated DEF Device
    <3> QED
      BY <3>1, <3>2
  <2>5. [half[i] EXCEPT !.label = l] = d
    <3>1. [[e EXCEPT !.cmds = c] EXCEPT !.label = l] = [id |-> e.id, label |-> l, cmds |-> c]
      <4> HIDE DEF c, l, e
      <4> QED
        BY <2>2, Updated DEF Device
    <3> QED
      BY <2>4, <3>1
  <2>6. new = [half EXCEPT ![i] = [half[i] EXCEPT !.label = l]]
    <3> HIDE DEF c, half
    <3> QED
      BY <2>3, <2>4
  <2>7. new = [half EXCEPT ![i] = d]
    BY <2>5, <2>6
  <2>8. [half EXCEPT ![i] = d] = [list EXCEPT ![i] = d]
    <3> HIDE DEF d, c, l, e
    <3> QED
      BY <1>1
  <2> QED
    BY <2>7, <2>8
<1> HIDE DEF i, d, new
<1>8. new \in Seq(Device) /\ Len(new) = Len(list) /\ DOMAIN new = 1 .. Len(list)
  <2>1. Len(list) \in Nat /\ list \in [1 .. Len(list) -> Device]
    OBVIOUS
  <2>2. new \in [1 .. Len(list) -> Device]
    BY <1>1, <1>6, <1>7, <2>1
  <2> QED
    BY <2>1, <2>2
<1>9. \A j \in 1 .. Len(list) : new[j] = IF j = i THEN d ELSE list[j]
  BY <1>7
<1>10. \A j \in 1 .. Len(list) :
         new[j] = [id |-> list[j].id,
                   label |-> IF j = i /\ r.kind = "label" THEN r.name ELSE list[j].label,
                   cmds |-> IF j = i THEN D!Rewritten(r, list[j].cmds) ELSE list[j].cmds]
  <2> SUFFICES ASSUME NEW j \in 1 .. Len(list)
               PROVE  new[j] = [id |-> list[j].id,
                                label |-> IF j = i /\ r.kind = "label" THEN r.name ELSE list[j].label,
                                cmds |-> IF j = i THEN D!Rewritten(r, list[j].cmds) ELSE list[j].cmds]
    OBVIOUS
  <2>1. CASE j = i
    BY <1>9, <2>1 DEF d
  <2>2. CASE j # i
    BY <1>3, <1>4, <1>9, <2>2
  <2> QED
    BY <2>1, <2>2
<1> QED
  BY <1>1, <1>8, <1>10 DEF i, new

\* Every edit leaves a list of devices.
LEMMA EditedTyped ==
  ASSUME NEW r \in EditRequest, NEW list \in Seq(Device)
  PROVE  D!Edited(r, list) \in Seq(Device)
<1>1. CASE r.id \notin D!Ids(list)
  BY <1>1 DEF D!Edited
<1>2. CASE r.id \in D!Ids(list) /\ r.kind = "delete"
  <2>1. D!Edited(r, list) = D!RemoveAt(list, D!Position(list, r.id))
    BY <1>2 DEF D!Edited
  <2>2. D!Position(list, r.id) \in 1 .. Len(list)
    BY <1>2, PositionOf
  <2> QED
    BY <2>1, <2>2, WithoutOne
<1>3. CASE r.id \in D!Ids(list) /\ r.kind # "delete"
  BY <1>3, EditedOf
<1> QED
  BY <1>1, <1>2, <1>3

-----------------------------------------------------------------------------
(* Where a child is, and what it holds there. *)

\* What the list of a file holds.
Item(f) == IF f = "Device" THEN Device ELSE Protocol

\* What a file holds: a whole list, or one cut short.
Content(f) == [text : {"whole", "broken"}, val : Seq(Item(f))]

\* The three steps of write_file_atomic.
Writing == {"open", "write", "publish"}

\* The edits of an entry that is there.
Changes == {"label", "add", "change", "remove", "clear", "import", "delete"}

\* A child: its request, the step it is at, and what it has read and made.
EditChild ==
  [pc : {"idle", "scan", "check", "read", "look", "ensure", "append", "reread", "replace",
         "done"} \cup Writing,
   req : EditRequest, id : Nat, n : 1 .. 3, file : {"Device", "Protocol"},
   raw : Content("Device") \cup {D!NoFile},
   seen : Content("Device") \cup Content("Protocol") \cup {D!NoFile},
   out : Seq(Device) \cup Seq(Protocol),
   on : {"none", "tmp", "live", "gone"}, told : {"none", "ok", "failed", "in use"}]

\* Which file a child is at, and which requests come to which step.
InStep(me) ==
  /\ me.pc \in {"idle", "scan", "check", "read", "look", "ensure", "reread"} => me.file = "Device"
  /\ me.pc = "scan" => me.req.kind = "create"
  /\ me.pc = "check" => me.req.kind = "delete"
  /\ me.pc = "read" => me.req.kind \in Changes \cup {"repair"}
  /\ me.pc = "look" => me.req.kind = "repair"
  /\ me.pc = "ensure" => me.req.kind \in {"add", "change", "import", "repair"}
  /\ me.pc = "reread" => me.req.kind = "add"
  /\ me.pc = "replace" => me.req.kind \in D!Lists \cup {"bundle"}
  /\ me.pc = "append" =>
       me.req.kind \in IF me.file = "Device" THEN {"create"} ELSE {"add", "change", "import", "repair"}
  /\ me.pc \in Writing =>
       me.req.kind \in IF me.file = "Device" THEN Changes \cup {"create", "restore", "bundle"}
                       ELSE {"add", "change", "import", "repair", "bundle"}

\* What a child that writes holds is what its request makes of what it read.
Made(me) ==
  /\ me.req.kind \in {"restore", "bundle"} => me.out = Imported[me.file]
  /\ me.req.kind \in Changes \cup {"repair"} /\ me.file = "Protocol"
       => me.out = Append(me.seen.val, D!Builtin)
  /\ me.req.kind = "create" => me.out = Append(me.seen.val, D!NewDevice(me.id))
  /\ me.req.kind \in Changes /\ me.file = "Device" => me.out = D!Edited(me.req, me.seen.val)

\* What a child has checked of the list it read before it got this far.
Looked(me) ==
  /\ me.pc \in {"ensure", "append", "reread"} \cup Writing /\ me.req.kind \in Changes
       => D!Accepts(me.req, me.raw.val)
  /\ me.pc \in {"append"} \cup Writing /\ me.req.kind = "create"
       => me.id \in D!FreshIds(me.raw.val)
  /\ me.pc = "ensure" /\ me.req.kind # "repair"
       => me.seen = me.raw /\ me.out = D!Edited(me.req, me.raw.val)
  /\ me.pc \in Writing /\ me.file = "Device" /\ me.req.kind \in Changes \ {"add"}
       => me.seen = me.raw

\* A child is of its type, at a step of its request, and holds what it read made.
Steady(me) ==
  /\ me \in EditChild
  /\ me.pc # "append" => me.out \in Seq(Item(me.file))
  /\ InStep(me)
  /\ me.pc \in Writing => Made(me)
  /\ Looked(me)

\* Every child is.
Steadies == DOMAIN dCh = Child /\ \A c \in Child : Steady(dCh[c])

\* The save of codexactivity: what it found of the devices, how far it is, and
\* what it would put back.
SaveRecord ==
  [kind : {"none", "activity", "settings", "reload"}, id : Nat,
   list : Content("Device") \cup {D!NoFile},
   ids : SUBSET Nat, n : 1 .. 4, was : [D!Lists -> SUBSET Nat]]

\* The types of the two files, of their temporary copies and of the history.
EditsTyped ==
  /\ DOMAIN dLive = {"Device", "Protocol"}
  /\ \A f \in {"Device", "Protocol"} : dLive[f] \in Content(f)
  /\ DOMAIN dTmp = {"Device", "Protocol"}
  /\ \A f \in {"Device", "Protocol"} : dTmp[f] \in Content(f) \cup {D!NoFile}
  /\ DOMAIN dWant = {"Device", "Protocol"}
  /\ dRefs \in [D!Lists -> SUBSET Nat]
  /\ dSave \in SaveRecord
  /\ dDeleted \subseteq Nat
  /\ dMishaps \subseteq D!Mishaps

\* What a child that deletes has seen of the references: none in the lists it
\* has checked, and in none at all once it has begun to write.
Unseen(c) ==
  /\ dCh[c].pc = "idle" => dCh[c].n = 1
  /\ dCh[c].pc = "check" =>
       \A i \in 1 .. dCh[c].n - 1 : dCh[c].req.id \notin dRefs[D!Referencing[i]]
  /\ dCh[c].req.kind = "delete" /\ dCh[c].pc \in {"read"} \cup Writing =>
       \A l \in D!Lists : dCh[c].req.id \notin dRefs[l]

\* While no reference was written behind the check of a child that deletes, no
\* deleted id is referred to.
Unreferenced ==
  D!Free({"reference", "import"}) => DeletedIsUnreferenced /\ \A c \in Child : Unseen(c)

\* The temporary file of a child that writes is its own: it holds what this child
\* has written so far, and no other child has it open.
WritesAlone(c) ==
  /\ dCh[c].on = IF dCh[c].pc \in {"write", "publish"} THEN "tmp" ELSE "none"
  /\ dCh[c].pc = "write" => dTmp[dCh[c].file] = D!Broken
  /\ dCh[c].pc = "publish" => dTmp[dCh[c].file] = D!Whole(dCh[c].out)
  /\ \A d \in Child \ {c} :
       dCh[c].on = "tmp" /\ dCh[d].on = "tmp" => dCh[c].file # dCh[d].file

\* While no two children had the same temporary file open and no flush failed
\* unseen, both files can be read.
OneWriter ==
  D!Free({"overlap", "flush"}) =>
    /\ \A c \in Child : WritesAlone(c)
    /\ \A f \in {"Device", "Protocol"} : D!Readable(dLive[f])

\* The two files and what they hold.
LEMMA Files ==
  /\ D!Files = {"Device", "Protocol"}
  /\ Item("Device") = Device /\ Item("Protocol") = Protocol
  /\ \A list \in Seq(Device) : D!Whole(list) \in Content("Device") /\ D!Whole(list).val = list
  /\ \A list \in Seq(Protocol) : D!Whole(list) \in Content("Protocol") /\ D!Whole(list).val = list
  /\ \A f : D!Broken \in Content(f)
  /\ \A x \in Content("Device") \cup {D!NoFile} : x.val \in Seq(Device)
  /\ \A x \in Content("Protocol") \cup {D!NoFile} : x.val \in Seq(Protocol)
<1>1. D!Files = {"Device", "Protocol"} /\ Item("Device") = Device /\ Item("Protocol") = Protocol
  BY DEF D!Files, Item
<1>2. \A S : \A list \in Seq(S) :
        D!Whole(list) \in [text : {"whole", "broken"}, val : Seq(S)] /\ D!Whole(list).val = list
  BY DEF D!Whole
<1>3. \A S : D!Broken \in [text : {"whole", "broken"}, val : Seq(S)] /\ D!NoFile.val \in Seq(S)
  BY DEF D!Broken, D!NoFile
<1>4. \A S : \A x \in [text : {"whole", "broken"}, val : Seq(S)] : x.val \in Seq(S)
  OBVIOUS
<1> QED
  BY <1>1, <1>2, <1>3, <1>4 DEF Content

\* Where the temporary file of a child went changes nothing else of it.
LEMMA OnlyPlaced ==
  ASSUME NEW me, Steady(me), NEW place \in {"none", "tmp", "live", "gone"}
  PROVE  Steady([me EXCEPT !.on = place])
<1> DEFINE you == [me EXCEPT !.on = place]
<1>1. me \in EditChild
  BY DEF Steady
<1>2. you \in EditChild
  BY <1>1 DEF EditChild
<1>3. /\ you.pc = me.pc /\ you.req = me.req /\ you.id = me.id /\ you.file = me.file
      /\ you.raw = me.raw /\ you.seen = me.seen /\ you.out = me.out
  BY <1>1 DEF EditChild
<1> HIDE DEF you
<1>4. InStep(you)
  BY <1>3 DEF Steady, InStep
<1>5. Made(me) => Made(you)
  BY <1>3 DEF Made
<1>6. Looked(you)
  BY <1>3 DEF Steady, Looked
<1>7. Steady(you)
  BY <1>2, <1>3, <1>4, <1>5, <1>6 DEF Steady
<1> QED
  BY <1>7 DEF you

\* One child moves and the others stay as they are.
LEMMA Became ==
  ASSUME Steadies, NEW c \in Child, NEW next, Steady(next), dCh' = [dCh EXCEPT ![c] = next]
  PROVE  Steadies'
BY DEF Steadies

\* One child moves, and those that had its temporary file open lost it.
LEMMA MovedOn ==
  ASSUME Steadies, NEW c \in Child, NEW next, Steady(next), NEW place \in {"live", "gone"}, NEW gone,
         dCh' = D!Moved(c, next, place, gone)
  PROVE  Steadies'
<1> SUFFICES ASSUME NEW d \in Child PROVE DOMAIN dCh' = Child /\ Steady(dCh'[d])
  BY DEF Steadies
<1>1. DOMAIN dCh' = Child
  BY DEF D!Moved
<1>2. \/ dCh'[d] = next \/ dCh'[d] = dCh[d]
      \/ dCh'[d] = [dCh[d] EXCEPT !.on = place] \/ dCh'[d] = [dCh[d] EXCEPT !.on = "gone"]
  BY DEF D!Moved
<1>3. Steady(dCh[d])
  BY DEF Steadies
<1>4. /\ Steady([dCh[d] EXCEPT !.on = place])
      /\ Steady([dCh[d] EXCEPT !.on = "gone"])
  BY <1>3, OnlyPlaced
<1> QED
  BY <1>1, <1>2, <1>3, <1>4

\* The empty list is a list of anything.
LEMMA NoItems == \A S : <<>> \in Seq(S)
OBVIOUS

\* A child that was just forked holds nothing.
LEMMA FreshSteady ==
  /\ D!Fresh \in EditChild /\ D!Fresh.pc = "idle" /\ D!Fresh.file = "Device" /\ D!Fresh.out = <<>>
  /\ D!Fresh.on = "none" /\ D!Fresh.req \in EditRequest /\ D!Fresh.req.kind = "none"
  /\ Steady(D!Fresh)
<1> DEFINE none == [kind |-> "none", id |-> 0, old |-> "none", name |-> "none"]
<1>1. none \in EditRequest /\ none.kind = "none"
  <2>1. "none" \in D!EditKinds \cup {"none"} /\ 0 \in Nat /\ "none" \in Texts
    BY DevicesAssumption
  <2>2. \A k \in D!EditKinds \cup {"none"}, i \in Nat, x \in Texts :
          /\ [kind |-> k, id |-> i, old |-> x, name |-> x] \in EditRequest
          /\ [kind |-> k, id |-> i, old |-> x, name |-> x].kind = k
    BY DEF EditRequest
  <2> QED
    BY <2>1, <2>2
<1>2. <<>> \in Seq(Device) /\ D!NoFile \in {D!NoFile}
  OBVIOUS
<1> HIDE DEF none
<1>3. D!Fresh = [pc |-> "idle", req |-> none, id |-> 0, n |-> 1, file |-> "Device",
                 raw |-> D!NoFile, seen |-> D!NoFile, out |-> <<>>, on |-> "none", told |-> "none"]
  BY DEF D!Fresh, none
<1>4. D!Fresh \in EditChild
  BY <1>1, <1>2, <1>3 DEF EditChild
<1>5. /\ D!Fresh.pc = "idle" /\ D!Fresh.file = "Device" /\ D!Fresh.out = <<>> /\ D!Fresh.on = "none"
      /\ D!Fresh.req = none
  BY <1>3
<1>6. InStep(D!Fresh) /\ Looked(D!Fresh) /\ D!Fresh.pc \notin Writing
  BY <1>5 DEF InStep, Looked, Writing
<1>7. D!Fresh.out \in Seq(Item(D!Fresh.file))
  BY <1>2, <1>5, Files
<1> QED
  BY <1>1, <1>4, <1>5, <1>6, <1>7 DEF Steady

\* A child that has answered is at its last step and holds no file.
LEMMA EndedSteady ==
  ASSUME NEW c \in Child, Steady(dCh[c]), NEW verdict \in {"ok", "failed", "in use"}
  PROVE  /\ Steady(D!Ended(c, verdict))
         /\ D!Ended(c, verdict).pc = "done" /\ D!Ended(c, verdict).on = "none"
         /\ D!Ended(c, verdict).req = dCh[c].req
<1> DEFINE end == D!Ended(c, verdict)
<1>1. dCh[c].req \in EditRequest
  BY DEF Steady, EditChild
<1>2. end = [D!Fresh EXCEPT !.pc = "done", !.req = dCh[c].req, !.told = verdict]
  BY DEF D!Ended
<1> HIDE DEF end
<1>3. end \in EditChild
  BY <1>1, <1>2, FreshSteady DEF EditChild
<1>4. /\ end.pc = "done" /\ end.out = <<>> /\ end.file = "Device" /\ end.on = "none"
      /\ end.req = dCh[c].req
  BY <1>2, FreshSteady DEF EditChild
<1>5. InStep(end) /\ Looked(end) /\ end.pc \notin Writing
  BY <1>4 DEF InStep, Looked, Writing
<1>6. end.out \in Seq(Item(end.file))
  <2>1. <<>> \in Seq(Device)
    BY NoItems
  <2> QED
    BY <1>4, <2>1, Files
<1> QED
  BY <1>3, <1>4, <1>5, <1>6 DEF Steady, end

\* No save is a save.
LEMMA NoSaveTyped == D!NoSave \in SaveRecord
<1>1. [l \in D!Lists |-> {}] \in [D!Lists -> SUBSET Nat]
  OBVIOUS
<1> QED
  BY <1>1 DEF D!NoSave, SaveRecord

\* The types hold at the start.
LEMMA DeviceInit == D!Init => Steadies /\ EditsTyped
<1> SUFFICES ASSUME D!Init PROVE Steadies /\ EditsTyped
  OBVIOUS
<1>1. Steadies
  BY FreshSteady DEF D!Init, Steadies
<1>2. PICK lists \in FirstLists :
        dLive = [f \in D!Files |-> D!Whole(lists[f])] /\ dWant = lists
  BY DEF D!Init
<1>3. lists \in [Device : Seq(Device), Protocol : Seq(Protocol)]
  BY DevicesAssumption DEF Device, Protocol
<1>4. /\ DOMAIN lists = {"Device", "Protocol"}
      /\ lists["Device"] \in Seq(Device) /\ lists["Protocol"] \in Seq(Protocol)
  BY <1>3
<1>5. /\ DOMAIN dLive = {"Device", "Protocol"} /\ DOMAIN dWant = {"Device", "Protocol"}
      /\ dLive["Device"] \in Content("Device") /\ dLive["Protocol"] \in Content("Protocol")
  BY <1>2, <1>4, Files
<1>6. DOMAIN dTmp = {"Device", "Protocol"} /\ \A f \in {"Device", "Protocol"} : dTmp[f] = D!NoFile
  BY Files DEF D!Init
<1>7. dRefs \in [D!Lists -> SUBSET Nat] /\ dDeleted \subseteq Nat /\ dMishaps \subseteq D!Mishaps
  BY DEF D!Init
<1>8. dSave \in SaveRecord
  BY NoSaveTyped DEF D!Init
<1> QED
  BY <1>1, <1>5, <1>6, <1>7, <1>8 DEF EditsTyped

\* A request that is forked keeps the types.
LEMMA BeginSteady ==
  ASSUME Steadies, EditsTyped, NEW c \in Child, D!Begin(c)
  PROVE  Steadies' /\ EditsTyped'
<1> DEFINE me == dCh[c]
<1>1. Steady(me)
  BY DEF Steadies
<1>2. PICK r \in DeviceRequests[c] :
        dCh' = [dCh EXCEPT ![c] = [me EXCEPT !.pc = D!FirstStep(r.kind), !.req = r,
                                             !.out = IF r.kind \in {"restore", "bundle"}
                                                     THEN Imported.Device ELSE <<>>]]
  BY DEF D!Begin, D!Become
<1> DEFINE out == IF r.kind \in {"restore", "bundle"} THEN Imported.Device ELSE <<>>
           next == [me EXCEPT !.pc = D!FirstStep(r.kind), !.req = r, !.out = out]
<1>3. r \in EditRequest /\ r.kind \in D!EditKinds
  BY DevicesAssumption DEF EditRequest
<1>4. out \in Seq(Device) /\ (r.kind \in {"restore", "bundle"} => out = Imported["Device"])
  BY DevicesAssumption, NoItems DEF Device
<1>5. me \in EditChild /\ me.pc = "idle" /\ me.file = "Device"
  BY <1>1 DEF D!Begin, Steady, InStep
<1> HIDE DEF me, out
<1>6. /\ D!FirstStep(r.kind) \in {"scan", "check", "open", "read", "replace"}
      /\ D!FirstStep(r.kind) = "scan" <=> r.kind = "create"
      /\ D!FirstStep(r.kind) = "check" <=> r.kind = "delete"
      /\ D!FirstStep(r.kind) = "open" <=> r.kind \in {"restore", "bundle"}
      /\ D!FirstStep(r.kind) = "replace" => r.kind \in D!Lists
      /\ D!FirstStep(r.kind) = "read" => r.kind \in Changes \cup {"repair"}
  BY <1>3 DEF D!FirstStep, D!EditKinds, D!Lists, Changes
<1>7. next \in EditChild
  BY <1>3, <1>4, <1>5, <1>6 DEF EditChild, Writing
<1>8. next.pc = D!FirstStep(r.kind) /\ next.req = r /\ next.out = out /\ next.file = "Device"
  BY <1>5 DEF EditChild
<1> HIDE DEF next
<1>9. InStep(next)
  BY <1>6, <1>8 DEF InStep, Writing
<1>10. next.pc \in Writing => Made(next)
  BY <1>4, <1>6, <1>8 DEF Made, Writing, Changes
<1>11. Looked(next)
  BY <1>6, <1>8 DEF Looked, Writing, Changes
<1>12. Steady(next)
  BY <1>4, <1>7, <1>8, <1>9, <1>10, <1>11, Files DEF Steady
<1>13. Steadies'
  BY <1>2, <1>12, Became DEF next, me, out
<1> QED
  BY <1>13 DEF D!Begin, D!OnlyThinks, EditsTyped

\* The scan for a new id keeps the types, and the id is none of the list.
LEMMA ScanSteady ==
  ASSUME Steadies, EditsTyped, NEW c \in Child, D!Scan(c)
  PROVE  Steadies' /\ EditsTyped'
<1> DEFINE me == dCh[c]
<1>1. Steady(me)
  BY DEF Steadies
<1>2. PICK id \in D!FreshIds(dLive.Device.val) :
        dCh' = [dCh EXCEPT ![c] = [me EXCEPT !.pc = "append", !.id = id, !.raw = dLive.Device]]
  BY DEF D!Scan, D!Become
<1> DEFINE next == [me EXCEPT !.pc = "append", !.id = id, !.raw = dLive.Device]
<1>3. dLive["Device"] \in Content("Device")
  BY DEF EditsTyped
<1>4. id \in Nat
  BY <1>3, Files, FreshIdsOf
<1>5. me \in EditChild /\ me.pc = "scan" /\ me.file = "Device" /\ me.req.kind = "create"
  BY <1>1 DEF D!Scan, Steady, InStep
<1> HIDE DEF me
<1>6. next \in EditChild
  BY <1>3, <1>4, <1>5 DEF EditChild
<1>7. /\ next.pc = "append" /\ next.req = me.req /\ next.file = "Device"
      /\ next.id = id /\ next.raw = dLive["Device"]
  BY <1>5 DEF EditChild
<1> HIDE DEF next
<1>8. InStep(next) /\ next.pc \notin Writing /\ Looked(next)
  BY <1>2, <1>5, <1>7 DEF InStep, Writing, Looked, Changes
<1>9. Steady(next)
  BY <1>6, <1>7, <1>8 DEF Steady
<1>10. Steadies'
  BY <1>2, <1>9, Became DEF next, me
<1> QED
  BY <1>10 DEF D!Scan, D!OnlyThinks, EditsTyped

\* So does a scan that could not read the list: it counts as empty.
LEMMA ScanFailsSteady ==
  ASSUME Steadies, EditsTyped, NEW c \in Child, D!ScanFails(c)
  PROVE  Steadies' /\ EditsTyped'
<1> DEFINE me == dCh[c]
<1>1. Steady(me)
  BY DEF Steadies
<1>2. PICK id \in D!FreshIds(<<>>) :
        dCh' = [dCh EXCEPT ![c] = [me EXCEPT !.pc = "append", !.id = id, !.raw = D!NoFile]]
  BY DEF D!ScanFails, D!Become
<1> DEFINE next == [me EXCEPT !.pc = "append", !.id = id, !.raw = D!NoFile]
<1>3. <<>> \in Seq(Device) /\ D!NoFile.val = <<>>
  BY NoItems DEF D!NoFile
<1>4. id \in Nat
  BY <1>3, FreshIdsOf
<1>5. me \in EditChild /\ me.pc = "scan" /\ me.file = "Device" /\ me.req.kind = "create"
  BY <1>1 DEF D!ScanFails, Steady, InStep
<1> HIDE DEF me
<1>6. next \in EditChild
  BY <1>4, <1>5 DEF EditChild
<1>7. /\ next.pc = "append" /\ next.req = me.req /\ next.file = "Device"
      /\ next.id = id /\ next.raw = D!NoFile
  BY <1>5 DEF EditChild
<1> HIDE DEF next
<1>8. InStep(next) /\ next.pc \notin Writing /\ Looked(next)
  BY <1>2, <1>3, <1>5, <1>7 DEF InStep, Writing, Looked, Changes
<1>9. Steady(next)
  BY <1>6, <1>7, <1>8 DEF Steady
<1>10. Steadies'
  BY <1>2, <1>9, Became DEF next, me
<1> QED
  BY <1>10 DEF D!ScanFails, EditsTyped

\* A child that answers keeps the types.
LEMMA AnswerSteady ==
  ASSUME Steadies, NEW c \in Child, NEW verdict \in {"ok", "failed", "in use"}, D!Answer(c, verdict)
  PROVE  Steadies'
<1>1. Steady(dCh[c])
  BY DEF Steadies
<1>2. Steady(D!Ended(c, verdict))
  BY <1>1, EndedSteady
<1> QED
  BY <1>2, Became DEF D!Answer, D!Become

\* The check of one reference keeps the types.
LEMMA CheckSteady ==
  ASSUME Steadies, EditsTyped, NEW c \in Child, D!Check(c)
  PROVE  Steadies' /\ EditsTyped'
<1> DEFINE me == dCh[c]
           more == [me EXCEPT !.n = @ + 1]
           last == [me EXCEPT !.pc = "read"]
<1>1. Steady(me)
  BY DEF Steadies
<1>2. \/ D!Answer(c, "in use")
      \/ me.n < 3 /\ dCh' = [dCh EXCEPT ![c] = more]
      \/ dCh' = [dCh EXCEPT ![c] = last]
  BY DEF D!Check, D!Become, D!Referencing
<1>3. me \in EditChild /\ me.pc = "check" /\ me.req.kind = "delete" /\ me.file = "Device"
  BY <1>1 DEF D!Check, Steady, InStep
<1>4. me.out \in Seq(Device)
  BY <1>1, <1>3, Files DEF Steady
<1> HIDE DEF me
<1>5. EditsTyped'
  BY DEF D!Check, D!OnlyThinks, EditsTyped
<1>6. CASE D!Answer(c, "in use")
  BY <1>6, <1>5, AnswerSteady
<1>7. CASE me.n < 3 /\ dCh' = [dCh EXCEPT ![c] = more]
  <2>1. more \in EditChild
    <3>1. me.n \in 1 .. 3
      BY <1>3 DEF EditChild
    <3>2. me.n + 1 \in 1 .. 3
      BY <1>7, <3>1
    <3> QED
      BY <1>3, <3>2 DEF EditChild
  <2>2. more.pc = "check" /\ more.req = me.req /\ more.file = "Device" /\ more.out = me.out
    BY <1>3 DEF EditChild
  <2> HIDE DEF more
  <2>3. InStep(more) /\ more.pc \notin Writing /\ Looked(more)
    BY <1>3, <2>2 DEF InStep, Writing, Looked
  <2>4. Steady(more)
    BY <1>4, <2>1, <2>2, <2>3, Files DEF Steady
  <2> QED
    BY <1>7, <1>5, <2>4, Became DEF me
<1>8. CASE dCh' = [dCh EXCEPT ![c] = last]
  <2>1. last \in EditChild
    BY <1>3 DEF EditChild
  <2>2. last.pc = "read" /\ last.req = me.req /\ last.file = "Device" /\ last.out = me.out
    BY <1>3 DEF EditChild
  <2> HIDE DEF last
  <2>3. InStep(last) /\ last.pc \notin Writing /\ Looked(last)
    BY <1>3, <2>2 DEF InStep, Writing, Looked, Changes
  <2>4. Steady(last)
    BY <1>4, <2>1, <2>2, <2>3, Files DEF Steady
  <2> QED
    BY <1>8, <1>5, <2>4, Became DEF me
<1> QED
  BY <1>2, <1>6, <1>7, <1>8

\* The read of the device list keeps the types: an edit that goes on passed the
\* checks of its request on the list it read.
LEMMA ReadSteady ==
  ASSUME Steadies, EditsTyped, NEW c \in Child, D!Read(c)
  PROVE  Steadies' /\ EditsTyped'
<1> DEFINE me == dCh[c]
           r == me.req
           list == dLive.Device.val
           first == IF D!NeedsProtocol(r, list) THEN "ensure" ELSE D!AfterProtocol(r.kind)
           look == [me EXCEPT !.pc = "look"]
           next == [me EXCEPT !.pc = first, !.raw = dLive.Device, !.seen = dLive.Device,
                              !.out = D!Edited(r, list)]
<1>1. Steady(me)
  BY DEF Steadies
<1>2. EditsTyped'
  BY DEF D!Read, D!OnlyThinks, EditsTyped
<1>3. /\ me \in EditChild /\ me.pc = "read" /\ me.req.kind \in Changes \cup {"repair"}
      /\ me.file = "Device" /\ r \in EditRequest
  BY <1>1 DEF D!Read, Steady, InStep, EditChild
<1>4. me.out \in Seq(Device)
  BY <1>1, <1>3, Files DEF Steady
<1>5. \/ D!Answer(c, "failed") \/ D!Answer(c, "ok")
      \/ r.kind = "repair" /\ dCh' = [dCh EXCEPT ![c] = look]
      \/ r.kind # "repair" /\ D!Accepts(r, list) /\ dCh' = [dCh EXCEPT ![c] = next]
  BY DEF D!Read, D!Become
<1>6. dLive["Device"] \in Content("Device") /\ list \in Seq(Device)
  <2>1. dLive["Device"] \in Content("Device")
    BY DEF EditsTyped
  <2> QED
    BY <2>1, Files
<1>7. D!Edited(r, list) \in Seq(Device)
  BY <1>3, <1>6, EditedTyped
<1>8. first \in {"ensure", "reread", "open"}
      /\ (first = "ensure" => r.kind \in {"add", "change", "import", "repair"})
      /\ (first = "reread" => r.kind = "add")
  BY DEF D!NeedsProtocol, D!AfterProtocol
<1> HIDE DEF me, list, first
<1>9. CASE D!Answer(c, "failed") \/ D!Answer(c, "ok")
  BY <1>2, <1>9, AnswerSteady
<1>10. CASE r.kind = "repair" /\ dCh' = [dCh EXCEPT ![c] = look]
  <2>1. look \in EditChild
    BY <1>3 DEF EditChild
  <2>2. look.pc = "look" /\ look.req = r /\ look.file = "Device" /\ look.out = me.out
    BY <1>3 DEF EditChild
  <2> HIDE DEF look
  <2>3. InStep(look) /\ look.pc \notin Writing /\ Looked(look)
    BY <1>10, <2>2 DEF InStep, Writing, Looked, Changes
  <2>4. Steady(look)
    BY <1>4, <2>1, <2>2, <2>3, Files DEF Steady
  <2> QED
    BY <1>2, <1>10, <2>4, Became DEF me
<1>11. CASE r.kind # "repair" /\ D!Accepts(r, list) /\ dCh' = [dCh EXCEPT ![c] = next]
  <2>1. next \in EditChild
    BY <1>3, <1>6, <1>7, <1>8 DEF EditChild, Writing, list
  <2>2. /\ next.pc = first /\ next.req = r /\ next.file = "Device" /\ next.out = D!Edited(r, list)
        /\ next.raw = dLive["Device"] /\ next.seen = dLive["Device"]
    BY <1>3 DEF EditChild
  <2> HIDE DEF next
  <2>3. r.kind \in Changes
    BY <1>3, <1>11
  <2>4. InStep(next)
    BY <1>8, <2>2, <2>3 DEF InStep, Writing
  <2>5. Made(next) /\ Looked(next)
    BY <1>8, <1>11, <2>2, <2>3 DEF Made, Looked, Changes, Writing, list
  <2>6. Steady(next)
    BY <1>7, <2>1, <2>2, <2>4, <2>5, Files DEF Steady
  <2> QED
    BY <1>2, <1>11, <2>6, Became DEF me
<1> QED
  BY <1>5, <1>9, <1>10, <1>11

\* The look of the repair at the protocol list keeps the types.
LEMMA LookSteady ==
  ASSUME Steadies, EditsTyped, NEW c \in Child, D!Look(c)
  PROVE  Steadies' /\ EditsTyped'
<1> DEFINE me == dCh[c]
           next == [me EXCEPT !.pc = "ensure"]
<1>1. Steady(me)
  BY DEF Steadies
<1>2. EditsTyped'
  BY DEF D!Look, D!OnlyThinks, EditsTyped
<1>3. me \in EditChild /\ me.pc = "look" /\ me.req.kind = "repair" /\ me.file = "Device"
  BY <1>1 DEF D!Look, Steady, InStep
<1>4. me.out \in Seq(Device)
  BY <1>1, <1>3, Files DEF Steady
<1>5. D!Answer(c, "ok") \/ dCh' = [dCh EXCEPT ![c] = next]
  BY DEF D!Look, D!Become
<1> HIDE DEF me
<1>6. next \in EditChild
  BY <1>3 DEF EditChild
<1>7. next.pc = "ensure" /\ next.req = me.req /\ next.file = "Device" /\ next.out = me.out
  BY <1>3 DEF EditChild
<1> HIDE DEF next
<1>8. InStep(next) /\ next.pc \notin Writing /\ Looked(next)
  BY <1>3, <1>7 DEF InStep, Writing, Looked, Changes
<1>9. Steady(next)
  BY <1>4, <1>6, <1>7, <1>8, Files DEF Steady
<1>10. CASE D!Answer(c, "ok")
  BY <1>2, <1>10, AnswerSteady
<1>11. CASE dCh' = [dCh EXCEPT ![c] = next]
  BY <1>2, <1>9, <1>11, Became
<1> QED
  BY <1>5, <1>10, <1>11

\* The check for the built-in protocol keeps the types.
LEMMA EnsureSteady ==
  ASSUME Steadies, EditsTyped, NEW c \in Child, D!Ensure(c)
  PROVE  Steadies' /\ EditsTyped'
<1> DEFINE me == dCh[c]
           miss == [me EXCEPT !.pc = "append", !.file = "Protocol"]
           next == [me EXCEPT !.pc = D!AfterProtocol(me.req.kind)]
<1>1. Steady(me)
  BY DEF Steadies
<1>2. EditsTyped'
  BY DEF D!Ensure, D!OnlyThinks, EditsTyped
<1>3. /\ me \in EditChild /\ me.pc = "ensure" /\ me.file = "Device"
      /\ me.req.kind \in {"add", "change", "import", "repair"}
  BY <1>1 DEF D!Ensure, Steady, InStep
<1>4. me.out \in Seq(Device)
  BY <1>1, <1>3, Files DEF Steady
<1>5. Looked(me)
  BY <1>1 DEF Steady
<1>6. \/ D!Answer(c, "ok")
      \/ dCh' = [dCh EXCEPT ![c] = miss]
      \/ me.req.kind # "repair" /\ dCh' = [dCh EXCEPT ![c] = next]
  BY DEF D!Ensure, D!Become, D!Answer
<1> HIDE DEF me
<1>7. CASE D!Answer(c, "ok")
  BY <1>2, <1>7, AnswerSteady
<1>8. CASE dCh' = [dCh EXCEPT ![c] = miss]
  <2>1. miss \in EditChild
    BY <1>3 DEF EditChild
  <2>2. miss.pc = "append" /\ miss.req = me.req /\ miss.file = "Protocol" /\ miss.raw = me.raw
    BY <1>3 DEF EditChild
  <2> HIDE DEF miss
  <2>3. InStep(miss) /\ miss.pc \notin Writing
    BY <1>3, <2>2 DEF InStep, Writing
  <2>4. Looked(miss)
    BY <1>3, <1>5, <2>2 DEF Writing, Looked, Changes
  <2>5. Steady(miss)
    BY <2>1, <2>2, <2>3, <2>4 DEF Steady
  <2> QED
    BY <1>2, <1>8, <2>5, Became DEF me
<1>9. CASE me.req.kind # "repair" /\ dCh' = [dCh EXCEPT ![c] = next]
  <2>1. /\ D!AfterProtocol(me.req.kind) \in {"reread", "open"}
        /\ D!AfterProtocol(me.req.kind) = "reread" <=> me.req.kind = "add"
    BY DEF D!AfterProtocol
  <2>2. next \in EditChild
    BY <1>3, <2>1 DEF EditChild, Writing
  <2>3. /\ next.pc = D!AfterProtocol(me.req.kind) /\ next.req = me.req /\ next.file = "Device"
        /\ next.raw = me.raw /\ next.seen = me.seen /\ next.out = me.out
    BY <1>3 DEF EditChild
  <2> HIDE DEF next
  <2>4. me.req.kind \in Changes
    BY <1>3, <1>9 DEF Changes
  <2>5. InStep(next)
    BY <2>1, <2>3, <2>4 DEF InStep, Writing
  <2>6. me.seen = me.raw /\ me.out = D!Edited(me.req, me.raw.val) /\ D!Accepts(me.req, me.raw.val)
    BY <1>3, <1>5, <1>9, <2>4 DEF Looked
  <2>7. Made(next) /\ Looked(next)
    BY <2>1, <2>3, <2>4, <2>6 DEF Made, Looked, Changes, Writing
  <2>8. Steady(next)
    BY <1>4, <2>2, <2>3, <2>5, <2>7, Files DEF Steady
  <2> QED
    BY <1>2, <1>9, <2>8, Became DEF me
<1> QED
  BY <1>6, <1>7, <1>8, <1>9

\* The entries that are appended are of their types.
LEMMA NewItems ==
  /\ D!Builtin \in Protocol
  /\ \A id \in Nat : D!NewDevice(id) \in Device
<1>1. D!Builtin = [name |-> D!Builtin.name] /\ D!Builtin.name \in Texts
  BY DevicesAssumption DEF D!Builtin
<1>2. D!Builtin \in Protocol
  BY <1>1 DEF Protocol
<1>3. "new" \in Texts /\ <<>> \in Seq(Texts)
  BY DevicesAssumption, NoItems
<1> QED
  BY <1>2, <1>3 DEF D!NewDevice, Device

\* The append of a new entry keeps the types.
LEMMA AppendItemSteady ==
  ASSUME Steadies, EditsTyped, NEW c \in Child, D!AppendItem(c)
  PROVE  Steadies' /\ EditsTyped'
<1> DEFINE me == dCh[c]
           list == dLive[me.file].val
           item == IF me.file = "Protocol" THEN D!Builtin ELSE D!NewDevice(me.id)
           next == [me EXCEPT !.pc = "open", !.seen = dLive[me.file], !.out = Append(list, item)]
<1>1. Steady(me)
  BY DEF Steadies
<1>2. EditsTyped'
  BY DEF D!AppendItem, EditsTyped, D!Mishaps
<1>3. /\ me \in EditChild /\ me.pc = "append" /\ me.file \in {"Device", "Protocol"} /\ me.id \in Nat
      /\ me.req.kind \in IF me.file = "Device" THEN {"create"} ELSE {"add", "change", "import", "repair"}
  BY <1>1 DEF D!AppendItem, Steady, InStep, EditChild
<1>4. Looked(me)
  BY <1>1 DEF Steady
<1>5. D!Answer(c, "failed") \/ dCh' = [dCh EXCEPT ![c] = next]
  BY DEF D!AppendItem, D!Become
<1> HIDE DEF me
<1>6. dLive[me.file] \in Content(me.file) /\ list \in Seq(Item(me.file))
  <2>1. dLive[me.file] \in Content(me.file)
    BY <1>3 DEF EditsTyped
  <2> QED
    BY <1>3, <2>1, Files
<1>7. item \in Item(me.file)
  BY <1>3, NewItems, Files
<1> HIDE DEF list, item
<1>8. Append(list, item) \in Seq(Item(me.file))
  BY <1>6, <1>7
<1>9. Append(list, item) \in Seq(Device) \cup Seq(Protocol)
  BY <1>3, <1>8, Files
<1>10. dLive[me.file] \in Content("Device") \cup Content("Protocol")
  BY <1>3, <1>6
<1>11. next \in EditChild
  <2> DEFINE out == Append(list, item)
             seen == dLive[me.file]
  <2>1. out \in Seq(Device) \cup Seq(Protocol) /\ seen \in Content("Device") \cup Content("Protocol")
    BY <1>9, <1>10
  <2> HIDE DEF out, seen
  <2>2. [me EXCEPT !.pc = "open", !.seen = seen, !.out = out] \in EditChild
    BY <1>3, <2>1 DEF EditChild, Writing
  <2> QED
    BY <2>2 DEF out, seen
<1>12. /\ next.pc = "open" /\ next.req = me.req /\ next.file = me.file /\ next.id = me.id
       /\ next.raw = me.raw /\ next.seen = dLive[me.file] /\ next.out = Append(list, item)
  BY <1>3 DEF EditChild
<1> HIDE DEF next
<1>13. InStep(next)
  BY <1>3, <1>12 DEF InStep, Writing, Changes
<1>14. Made(next)
  BY <1>3, <1>12 DEF Made, Changes, list, item
<1>15. Looked(next)
  BY <1>3, <1>4, <1>12 DEF Looked, Changes, Writing
<1>16. Steady(next)
  BY <1>8, <1>11, <1>12, <1>13, <1>14, <1>15 DEF Steady
<1>17. CASE D!Answer(c, "failed")
  BY <1>2, <1>17, AnswerSteady
<1>18. CASE dCh' = [dCh EXCEPT ![c] = next]
  BY <1>2, <1>16, <1>18, Became
<1> QED
  BY <1>5, <1>17, <1>18

\* The second read of the device list, after the protocol was written, keeps them.
LEMMA RereadSteady ==
  ASSUME Steadies, EditsTyped, NEW c \in Child, D!Reread(c)
  PROVE  Steadies' /\ EditsTyped'
<1> DEFINE me == dCh[c]
           list == dLive.Device.val
           next == [me EXCEPT !.pc = "open", !.seen = dLive.Device, !.out = D!Edited(me.req, list)]
<1>1. Steady(me)
  BY DEF Steadies
<1>2. EditsTyped'
  BY DEF D!Reread, D!OnlyThinks, EditsTyped
<1>3. /\ me \in EditChild /\ me.pc = "reread" /\ me.file = "Device" /\ me.req.kind = "add"
      /\ me.req \in EditRequest
  BY <1>1 DEF D!Reread, Steady, InStep, EditChild
<1>4. Looked(me)
  BY <1>1 DEF Steady
<1>5. D!Answer(c, "failed") \/ dCh' = [dCh EXCEPT ![c] = next]
  BY DEF D!Reread, D!Become
<1> HIDE DEF me
<1>6. dLive["Device"] \in Content("Device") /\ list \in Seq(Device)
  <2>1. dLive["Device"] \in Content("Device")
    BY DEF EditsTyped
  <2> QED
    BY <2>1, Files
<1>7. D!Edited(me.req, list) \in Seq(Device)
  BY <1>3, <1>6, EditedTyped
<1> HIDE DEF list
<1>8. next \in EditChild
  BY <1>3, <1>6, <1>7 DEF EditChild, Writing
<1>9. /\ next.pc = "open" /\ next.req = me.req /\ next.file = "Device"
      /\ next.raw = me.raw /\ next.seen = dLive["Device"] /\ next.out = D!Edited(me.req, list)
  BY <1>3 DEF EditChild
<1> HIDE DEF next
<1>10. InStep(next)
  BY <1>3, <1>9 DEF InStep, Writing, Changes
<1>11. Made(next) /\ Looked(next)
  BY <1>3, <1>4, <1>9 DEF Made, Looked, Changes, Writing, list
<1>12. Steady(next)
  BY <1>7, <1>8, <1>9, <1>10, <1>11, Files DEF Steady
<1>13. CASE D!Answer(c, "failed")
  BY <1>2, <1>13, AnswerSteady
<1>14. CASE dCh' = [dCh EXCEPT ![c] = next]
  BY <1>2, <1>12, <1>14, Became
<1> QED
  BY <1>5, <1>13, <1>14

\* The open of the temporary file keeps the types.
LEMMA OpenSteady ==
  ASSUME Steadies, EditsTyped, NEW c \in Child, D!Open(c)
  PROVE  Steadies' /\ EditsTyped'
<1> DEFINE me == dCh[c]
           next == [me EXCEPT !.pc = "write", !.on = "tmp"]
<1>1. Steady(me)
  BY DEF Steadies
<1>2. EditsTyped'
  <2>1. dTmp' = [dTmp EXCEPT ![me.file] = D!Broken] /\ me.file \in {"Device", "Protocol"}
    BY <1>1 DEF D!Open, Steady, EditChild
  <2>2. /\ DOMAIN dTmp' = {"Device", "Protocol"}
        /\ \A f \in {"Device", "Protocol"} : dTmp'[f] \in Content(f) \cup {D!NoFile}
    BY <2>1, Files DEF EditsTyped
  <2> QED
    BY <2>2 DEF D!Open, EditsTyped, D!Mishaps
<1>3. /\ me \in EditChild /\ me.pc = "open" /\ dCh' = [dCh EXCEPT ![c] = next]
  BY <1>1 DEF D!Open, D!Become, Steady
<1> HIDE DEF me
<1>4. next \in EditChild
  BY <1>3 DEF EditChild, Writing
<1>5. /\ next.pc = "write" /\ next.req = me.req /\ next.file = me.file /\ next.id = me.id
      /\ next.raw = me.raw /\ next.seen = me.seen /\ next.out = me.out
  BY <1>3 DEF EditChild
<1> HIDE DEF next
<1>6. InStep(next) /\ Looked(next) /\ Made(next) /\ next.out \in Seq(Item(next.file))
  <2>1. InStep(me) /\ Looked(me) /\ Made(me) /\ me.out \in Seq(Item(me.file))
    BY <1>1, <1>3 DEF Steady, Writing, me
  <2>2. InStep(next)
    BY <1>3, <1>5, <2>1 DEF InStep, Writing
  <2>3. Looked(next)
    BY <1>3, <1>5, <2>1 DEF Looked, Writing
  <2>4. Made(next)
    BY <1>3, <1>5, <2>1 DEF Made
  <2> QED
    BY <1>5, <2>1, <2>2, <2>3, <2>4
<1> QED
  BY <1>2, <1>3, <1>4, <1>6, Became DEF Steady

\* What EditsTyped says of the files.
FilesTyped ==
  /\ DOMAIN dLive = {"Device", "Protocol"} /\ \A f \in {"Device", "Protocol"} : dLive[f] \in Content(f)
  /\ DOMAIN dTmp = {"Device", "Protocol"}
  /\ \A f \in {"Device", "Protocol"} : dTmp[f] \in Content(f) \cup {D!NoFile}

\* A write into the temporary file a child has open keeps the files typed.
LEMMA IntoTyped ==
  ASSUME EditsTyped, NEW c \in Child, dCh[c].file \in {"Device", "Protocol"},
         NEW text \in Content(dCh[c].file), D!Into(c, text)
  PROVE  FilesTyped'
<1> DEFINE f == dCh[c].file
<1>1. D!Broken \in Content(f)
  BY Files
<1>2. \/ \E new \in {text, D!Broken} : dTmp' = [dTmp EXCEPT ![f] = new] /\ dLive' = dLive
      \/ \E new \in {text, D!Broken} : dLive' = [dLive EXCEPT ![f] = new] /\ dTmp' = dTmp
      \/ dLive' = dLive /\ dTmp' = dTmp
  BY DEF D!Into
<1> QED
  BY <1>1, <1>2 DEF EditsTyped, FilesTyped

\* A child that has written holds what it held.
LEMMA WrittenSteady ==
  ASSUME NEW me, Steady(me), me.pc = "write"
  PROVE  Steady([me EXCEPT !.pc = "publish"])
<1> DEFINE next == [me EXCEPT !.pc = "publish"]
<1>1. me \in EditChild /\ InStep(me) /\ Looked(me) /\ Made(me) /\ me.out \in Seq(Item(me.file))
  BY DEF Steady, Writing
<1>2. next \in EditChild
  BY <1>1 DEF EditChild, Writing
<1>3. /\ next.pc = "publish" /\ next.req = me.req /\ next.file = me.file /\ next.id = me.id
      /\ next.raw = me.raw /\ next.seen = me.seen /\ next.out = me.out
  BY <1>1 DEF EditChild
<1> HIDE DEF next
<1>4. InStep(next)
  BY <1>1, <1>3 DEF InStep, Writing
<1>5. Looked(next)
  BY <1>1, <1>3 DEF Looked, Writing
<1>6. Made(next)
  BY <1>1, <1>3 DEF Made
<1>7. Steady(next)
  BY <1>1, <1>2, <1>3, <1>4, <1>5, <1>6 DEF Steady
<1> QED
  BY <1>7 DEF next

\* The write of the temporary file, whole or cut short unseen, keeps the types.
LEMMA WriteSteady ==
  ASSUME Steadies, EditsTyped, NEW c \in Child, D!Write(c) \/ D!FlushFails(c)
  PROVE  Steadies' /\ EditsTyped'
<1>1. Steady(dCh[c]) /\ dCh[c].pc = "write"
  BY DEF Steadies, D!Write, D!FlushFails
<1>2. dCh' = [dCh EXCEPT ![c] = [dCh[c] EXCEPT !.pc = "publish"]]
  BY DEF D!Write, D!FlushFails, D!Become
<1>3. Steadies'
  BY <1>1, <1>2, WrittenSteady, Became
<1>4. dCh[c].file \in {"Device", "Protocol"} /\ dCh[c].out \in Seq(Item(dCh[c].file))
  BY <1>1 DEF Steady, EditChild
<1>5. D!Whole(dCh[c].out) \in Content(dCh[c].file) /\ D!Broken \in Content(dCh[c].file)
  BY <1>4, Files
<1>6. D!Into(c, D!Whole(dCh[c].out)) \/ D!Into(c, D!Broken)
  BY DEF D!Write, D!FlushFails
<1>7. FilesTyped'
  BY <1>4, <1>5, <1>6, IntoTyped
<1>8. dDeleted' \subseteq Nat /\ dMishaps' \subseteq D!Mishaps
  BY DEF D!Write, D!FlushFails, D!Deletes, EditsTyped, D!Mishaps
<1> QED
  BY <1>3, <1>7, <1>8 DEF FilesTyped, EditsTyped, D!Write, D!FlushFails

\* A write that fails keeps the types.
LEMMA WriteFailsSteady ==
  ASSUME Steadies, EditsTyped, NEW c \in Child, D!WriteFails(c)
  PROVE  Steadies' /\ EditsTyped'
<1>1. Steady(dCh[c]) /\ dCh[c].file \in {"Device", "Protocol"}
  BY DEF Steadies, Steady, EditChild
<1>2. Steady(D!Ended(c, "failed"))
  BY <1>1, EndedSteady
<1>3. Steadies'
  BY <1>2, MovedOn DEF D!WriteFails
<1>4. DOMAIN dLive' = {"Device", "Protocol"} /\ DOMAIN dTmp' = {"Device", "Protocol"}
  BY DEF D!WriteFails, EditsTyped
<1>5. \A f \in {"Device", "Protocol"} :
        dLive'[f] \in {dLive[f], D!Broken} /\ dTmp'[f] \in {dTmp[f], D!NoFile}
  BY DEF D!WriteFails, EditsTyped
<1>6. EditsTyped'
  BY <1>4, <1>5, Files DEF D!WriteFails, EditsTyped
<1> QED
  BY <1>3, <1>6

\* What a child goes on to when its file is renamed: the lists of references of a
\* bundle, the device list its protocol was for, or its answer.
AfterPublish(c, next) ==
  \/ /\ dCh[c].req.kind = "bundle"
     /\ next = [dCh[c] EXCEPT !.pc = "replace", !.on = "none",
                              !.n = IF dCh[c].file = "Device" THEN 1 ELSE 2]
  \/ /\ dCh[c].req.kind \notin {"bundle", "repair"} /\ dCh[c].file = "Protocol"
     /\ next = [[dCh[c] EXCEPT !.file = "Device", !.on = "none", !.seen = dCh[c].raw]
                  EXCEPT !.pc = D!AfterProtocol(dCh[c].req.kind),
                         !.out = D!Edited(dCh[c].req, dCh[c].raw.val)]
  \/ next = D!Ended(c, "ok")

\* A child whose file was renamed goes on with what it read.
LEMMA PublishedSteady ==
  ASSUME NEW c \in Child, Steady(dCh[c]), dCh[c].pc = "publish",
         NEW next, AfterPublish(c, next)
  PROVE  Steady(next)
<1> DEFINE me == dCh[c]
           both == [me EXCEPT !.pc = "replace", !.on = "none",
                              !.n = IF me.file = "Device" THEN 1 ELSE 2]
           again == [me EXCEPT !.file = "Device", !.on = "none", !.seen = me.raw]
           back == [again EXCEPT !.pc = D!AfterProtocol(me.req.kind),
                                 !.out = D!Edited(me.req, me.raw.val)]
<1>1. /\ me \in EditChild /\ InStep(me) /\ Looked(me) /\ Made(me) /\ me.pc \in Writing
      /\ me.out \in Seq(Item(me.file))
  BY DEF Steady, Writing
<1>2. CASE me.req.kind = "bundle" /\ next = both
  <2> HIDE DEF me
  <2>1. both \in EditChild
    <3> DEFINE n == IF me.file = "Device" THEN 1 ELSE 2
    <3>1. n \in 1 .. 3
      OBVIOUS
    <3> HIDE DEF n
    <3>2. [me EXCEPT !.pc = "replace", !.on = "none", !.n = n] \in EditChild
      BY <1>1, <3>1 DEF EditChild
    <3> QED
      BY <3>2 DEF n
  <2>2. both.pc = "replace" /\ both.req = me.req /\ both.file = me.file /\ both.out = me.out
    BY <1>1 DEF EditChild
  <2> HIDE DEF both
  <2>3. InStep(both) /\ Looked(both) /\ both.pc \notin Writing
    BY <1>2, <2>2 DEF InStep, Looked, Changes, Writing
  <2>4. Steady(both)
    BY <1>1, <2>1, <2>2, <2>3 DEF Steady
  <2> QED
    BY <1>2, <2>4
<1>3. CASE me.req.kind \notin {"bundle", "repair"} /\ me.file = "Protocol" /\ next = back
  <2>1. me.req.kind \in {"add", "change", "import"}
    BY <1>1, <1>3 DEF InStep
  <2>2. /\ D!AfterProtocol(me.req.kind) \in {"reread", "open"}
        /\ D!AfterProtocol(me.req.kind) = "reread" <=> me.req.kind = "add"
    BY DEF D!AfterProtocol
  <2>3. D!Accepts(me.req, me.raw.val)
    BY <1>1, <2>1 DEF Looked, Changes
  <2>4. me.req \in EditRequest /\ me.raw \in Content("Device") \cup {D!NoFile}
    BY <1>1 DEF EditChild
  <2>5. D!Edited(me.req, me.raw.val) \in Seq(Device)
    BY <2>4, Files, EditedTyped
  <2> HIDE DEF me
  <2>6. again \in EditChild
    BY <1>1, <2>4 DEF EditChild
  <2>7. /\ again.req = me.req /\ again.file = "Device" /\ again.raw = me.raw
        /\ again.seen = me.raw
    BY <1>1 DEF EditChild
  <2> HIDE DEF again
  <2>8. back \in EditChild
    BY <2>2, <2>5, <2>6 DEF EditChild, Writing
  <2>9. /\ back.pc = D!AfterProtocol(me.req.kind) /\ back.req = me.req /\ back.file = "Device"
        /\ back.raw = me.raw /\ back.seen = me.raw /\ back.out = D!Edited(me.req, me.raw.val)
    BY <2>6, <2>7 DEF EditChild
  <2> HIDE DEF back
  <2>10. InStep(back)
    BY <2>1, <2>2, <2>9 DEF InStep, Changes, Writing
  <2>11. Looked(back) /\ Made(back)
    BY <2>1, <2>2, <2>3, <2>9 DEF Looked, Made, Changes, Writing
  <2>12. Steady(back)
    BY <2>5, <2>8, <2>9, <2>10, <2>11, Files DEF Steady
  <2> QED
    BY <1>3, <2>12
<1>4. CASE next = D!Ended(c, "ok")
  BY <1>4, EndedSteady
<1> QED
  BY <1>2, <1>3, <1>4 DEF AfterPublish

\* The rename in the terms of AfterPublish.
LEMMA PublishOf ==
  ASSUME NEW c \in Child, D!Publish(c)
  PROVE  /\ dCh[c].pc = "publish" /\ dTmp[dCh[c].file] # D!NoFile
         /\ \E next : AfterPublish(c, next) /\ dCh' = D!Moved(c, next, "live", TRUE)
         /\ dLive' = [dLive EXCEPT ![dCh[c].file] = dTmp[dCh[c].file]]
         /\ dTmp' = [dTmp EXCEPT ![dCh[c].file] = D!NoFile]
         /\ dWant' = [dWant EXCEPT ![dCh[c].file] = D!Intended(c)]
         /\ D!Deletes(IF dCh[c].req.kind = "delete" THEN {dCh[c].req.id} ELSE {})
         /\ dMishaps' = dMishaps \cup D!Raced(c)
         /\ UNCHANGED <<dRefs, dSave, dUsed>>
<1> DEFINE me == dCh[c]
           kind == me.req.kind
           again == [me EXCEPT !.file = "Device", !.on = "none", !.seen = me.raw]
           next == IF kind = "bundle"
                   THEN [me EXCEPT !.pc = "replace", !.on = "none",
                                   !.n = IF me.file = "Device" THEN 1 ELSE 2]
                   ELSE IF me.file = "Protocol" /\ kind # "repair"
                   THEN [again EXCEPT !.pc = D!AfterProtocol(kind),
                                      !.out = D!Edited(me.req, me.raw.val)]
                   ELSE D!Ended(c, "ok")
<1>1. dCh' = D!Moved(c, next, "live", TRUE)
  BY DEF D!Publish
<1>2. AfterPublish(c, next)
  BY DEF AfterPublish
<1> HIDE DEF next
<1>3. \E n : AfterPublish(c, n) /\ dCh' = D!Moved(c, n, "live", TRUE)
  BY <1>1, <1>2
<1> QED
  BY <1>3 DEF D!Publish

\* The rename of the temporary file keeps the types.
LEMMA PublishSteady ==
  ASSUME Steadies, EditsTyped, NEW c \in Child, D!Publish(c)
  PROVE  Steadies' /\ EditsTyped'
<1> DEFINE f == dCh[c].file
<1>1. /\ Steady(dCh[c]) /\ f \in {"Device", "Protocol"} /\ dCh[c].req.id \in Nat
  BY DEF Steadies, Steady, EditChild, EditRequest
<1>2. PICK next : AfterPublish(c, next) /\ dCh' = D!Moved(c, next, "live", TRUE)
  BY PublishOf
<1>3. dCh[c].pc = "publish"
  BY PublishOf
<1>4. Steady(next)
  BY <1>1, <1>2, <1>3, PublishedSteady
<1>5. Steadies'
  BY <1>2, <1>4, MovedOn
<1>6. dTmp[f] \in Content(f)
  BY <1>1, PublishOf DEF EditsTyped
<1>7. FilesTyped'
  BY <1>1, <1>6, PublishOf DEF EditsTyped, FilesTyped
<1>8. DOMAIN dWant' = {"Device", "Protocol"}
  BY PublishOf DEF EditsTyped
<1>9. dDeleted' \subseteq Nat
  <2> DEFINE ids == IF dCh[c].req.kind = "delete" THEN {dCh[c].req.id} ELSE {}
  <2>1. D!Deletes(ids) /\ ids \subseteq Nat
    BY <1>1, PublishOf
  <2> HIDE DEF ids
  <2> QED
    BY <2>1 DEF EditsTyped, D!Deletes
<1>10. dMishaps' \subseteq D!Mishaps
  BY PublishOf DEF EditsTyped, D!Raced, D!Mishaps
<1> QED
  BY <1>5, <1>7, <1>8, <1>9, <1>10, PublishOf DEF EditsTyped, FilesTyped

\* The steps of a child that fail and leave everything but the child as it was.
Fails(c) == D!OpenFails(c) \/ D!PublishFails(c) \/ D!ReadFails(c) \/ D!ReplaceFails(c)

\* They keep the types.
LEMMA FailsSteady ==
  ASSUME Steadies, EditsTyped, NEW c \in Child, Fails(c)
  PROVE  Steadies' /\ EditsTyped'
<1>1. D!Answer(c, "failed")
  BY DEF Fails, D!OpenFails, D!PublishFails, D!ReadFails, D!ReplaceFails
<1>2. Steadies'
  BY <1>1, AnswerSteady
<1> QED
  BY <1>2 DEF Fails, D!OpenFails, D!PublishFails, D!ReadFails, D!ReplaceFails, EditsTyped

\* The list of references that an import puts in place, and where it goes on.
LEMMA ReplaceOf ==
  ASSUME Steadies, NEW c \in Child, D!ReplaceList(c)
  PROVE  /\ dCh[c].pc = "replace" /\ dCh[c].req.kind \in D!Lists \cup {"bundle"}
         /\ Steadies'
         /\ dCh'[c].pc \in {"open", "replace", "done"} /\ dCh'[c].req = dCh[c].req
         /\ dCh'[c].on \in {"none", dCh[c].on}
         /\ dCh'[c].pc = "open" => dCh'[c].file = "Protocol" /\ dCh[c].req.kind = "bundle"
         /\ \A d \in Child \ {c} : dCh'[d] = dCh[d]
         /\ \/ \E l \in D!Lists, ids \in NamedIds :
                 /\ dRefs' = [dRefs EXCEPT ![l] = ids]
                 /\ D!NamesGone(ids, l) => "import" \in dMishaps'
            \/ dRefs' = dRefs
         /\ dMishaps \subseteq dMishaps' /\ dMishaps' \subseteq dMishaps \cup {"import"}
<1> DEFINE me == dCh[c]
           both == [me EXCEPT !.pc = "open", !.file = "Protocol", !.out = Imported.Protocol]
           more == [me EXCEPT !.n = @ + 1]
           l == IF me.req.kind = "bundle" THEN D!Bundled[me.n] ELSE me.req.kind
<1>1. Steady(me) /\ DOMAIN dCh = Child
  BY DEF Steadies
<1>2. /\ me \in EditChild /\ InStep(me) /\ me.pc = "replace" /\ me.out \in Seq(Item(me.file))
      /\ me.n \in 1 .. 3
  BY <1>1 DEF D!ReplaceList, Steady, EditChild
<1>3. me.req.kind \in D!Lists \cup {"bundle"}
  BY <1>2 DEF InStep
<1>4. l \in D!Lists
  BY <1>2, <1>3 DEF D!Bundled, D!Lists
<1>5. Len(D!Bundled) = 3
  BY DEF D!Bundled
<1>6. \/ D!Answer(c, "ok")
      \/ me.req.kind = "bundle" /\ dCh' = [dCh EXCEPT ![c] = both]
      \/ me.req.kind = "bundle" /\ me.n # 3 /\ dCh' = [dCh EXCEPT ![c] = more]
  BY <1>5 DEF D!ReplaceList, D!Become, D!Answer
<1>7. \/ \E ids \in NamedIds :
           /\ dRefs' = [dRefs EXCEPT ![l] = ids]
           /\ dMishaps' = dMishaps \cup {m \in {"import"} : D!NamesGone(ids, l)}
      \/ dRefs' = dRefs /\ dMishaps' = dMishaps
  BY DEF D!ReplaceList
<1> HIDE DEF me, l
<1>8. /\ \/ \E k \in D!Lists, ids \in NamedIds :
                /\ dRefs' = [dRefs EXCEPT ![k] = ids]
                /\ D!NamesGone(ids, k) => "import" \in dMishaps'
         \/ dRefs' = dRefs
      /\ dMishaps \subseteq dMishaps' /\ dMishaps' \subseteq dMishaps \cup {"import"}
  BY <1>4, <1>7
<1>9. CASE D!Answer(c, "ok")
  <2>1. dCh' = [dCh EXCEPT ![c] = D!Ended(c, "ok")]
    BY <1>9 DEF D!Answer, D!Become
  <2>2. dCh'[c] = D!Ended(c, "ok") /\ \A d \in Child \ {c} : dCh'[d] = dCh[d]
    BY <1>1, <2>1
  <2> QED
    BY <1>1, <1>2, <1>3, <1>8, <1>9, <2>2, AnswerSteady, EndedSteady DEF me
<1>10. CASE me.req.kind = "bundle" /\ dCh' = [dCh EXCEPT ![c] = both]
  <2>1. Imported["Protocol"] \in Seq(Protocol)
    BY DevicesAssumption DEF Protocol
  <2>2. both \in EditChild
    BY <1>2, <2>1 DEF EditChild, Writing
  <2>3. /\ both.pc = "open" /\ both.req = me.req /\ both.file = "Protocol" /\ both.on = me.on
        /\ both.out = Imported["Protocol"]
    BY <1>2 DEF EditChild
  <2> HIDE DEF both
  <2>4. InStep(both) /\ Looked(both) /\ Made(both)
    BY <1>10, <2>3 DEF InStep, Looked, Made, Changes, Writing, D!Lists
  <2>5. Steady(both)
    BY <2>1, <2>2, <2>3, <2>4, Files DEF Steady
  <2>6. Steadies'
    BY <1>10, <2>5, Became
  <2>7. dCh'[c] = both /\ \A d \in Child \ {c} : dCh'[d] = dCh[d]
    BY <1>1, <1>10
  <2> QED
    BY <1>2, <1>3, <1>8, <1>10, <2>3, <2>6, <2>7 DEF me
<1>11. CASE me.req.kind = "bundle" /\ me.n # 3 /\ dCh' = [dCh EXCEPT ![c] = more]
  <2>1. me.n + 1 \in 1 .. 3
    BY <1>2, <1>11
  <2>2. more \in EditChild
    BY <1>2, <2>1 DEF EditChild
  <2>3. /\ more.pc = "replace" /\ more.req = me.req /\ more.file = me.file /\ more.on = me.on
        /\ more.out = me.out
    BY <1>2 DEF EditChild
  <2> HIDE DEF more
  <2>4. InStep(more) /\ Looked(more) /\ more.pc \notin Writing
    BY <1>11, <2>3 DEF InStep, Looked, Changes, Writing
  <2>5. Steady(more)
    BY <1>2, <2>2, <2>3, <2>4 DEF Steady
  <2>6. Steadies'
    BY <1>11, <2>5, Became
  <2>7. dCh'[c] = more /\ \A d \in Child \ {c} : dCh'[d] = dCh[d]
    BY <1>1, <1>11
  <2> QED
    BY <1>2, <1>3, <1>8, <2>3, <2>6, <2>7 DEF me
<1> QED
  BY <1>6, <1>9, <1>10, <1>11

\* An import that puts a list of references in place keeps the types.
LEMMA ReplaceSteady ==
  ASSUME Steadies, EditsTyped, NEW c \in Child, D!ReplaceList(c)
  PROVE  Steadies' /\ EditsTyped'
<1>1. dRefs' \in [D!Lists -> SUBSET Nat]
  <2>1. NamedIds \subseteq SUBSET Nat /\ dRefs \in [D!Lists -> SUBSET Nat]
    BY DevicesAssumption DEF EditsTyped
  <2>2. (\E l \in D!Lists, ids \in NamedIds : dRefs' = [dRefs EXCEPT ![l] = ids]) \/ dRefs' = dRefs
    BY ReplaceOf
  <2> QED
    BY <2>1, <2>2
<1>2. dMishaps' \subseteq D!Mishaps
  BY ReplaceOf DEF EditsTyped, D!Mishaps
<1> QED
  BY <1>1, <1>2, ReplaceOf DEF D!ReplaceList, EditsTyped

\* The hub rewriting a label leaves a list of devices.
LEMMA LabelledTyped ==
  ASSUME NEW list \in Seq(Device), NEW name \in Texts, dSave.id \in Nat
  PROVE  D!Labelled(list, name) \in Seq(Device)
<1> DEFINE r == [kind |-> "label", id |-> dSave.id, old |-> "none", name |-> name]
<1>1. "none" \in Texts /\ "label" \in D!EditKinds
  BY DevicesAssumption DEF D!EditKinds
<1>2. r \in EditRequest
  BY <1>1 DEF EditRequest
<1>3. D!Labelled(list, name) = D!Edited(r, list)
  BY DEF D!Labelled
<1> HIDE DEF r
<1> QED
  BY <1>2, <1>3, EditedTyped

\* The hub writing the list it read with one label changed keeps the types.
LEMMA PutsBackSteady ==
  ASSUME Steadies, EditsTyped, NEW list \in Seq(Device), NEW name, D!PutsBack(list, name),
         dSave' \in SaveRecord
  PROVE  Steadies' /\ EditsTyped'
<1>1. \A c \in Child : dCh'[c] = dCh[c] \/ dCh'[c] = [dCh[c] EXCEPT !.on = "gone"]
  BY DEF D!PutsBack
<1>2. DOMAIN dCh' = Child
  BY DEF D!PutsBack
<1>3. \A c \in Child : Steady(dCh[c]) /\ Steady([dCh[c] EXCEPT !.on = "gone"])
  BY OnlyPlaced DEF Steadies
<1>4. Steadies'
  BY <1>1, <1>2, <1>3 DEF Steadies
<1>5. dLive' = [dLive EXCEPT !["Device"] = D!Whole(list)] /\ DOMAIN dWant' = DOMAIN dWant
  BY DEF D!PutsBack
<1>6. FilesTyped'
  BY <1>5, Files DEF EditsTyped, FilesTyped, D!PutsBack
<1>7. dDeleted' \subseteq Nat /\ dMishaps' \subseteq D!Mishaps
  BY DEF D!PutsBack, D!Deletes, EditsTyped, D!Mishaps
<1> QED
  BY <1>4, <1>5, <1>6, <1>7 DEF EditsTyped, FilesTyped, D!PutsBack

\* The steps of the hub's own saves that leave both lists of devices alone.
Saves ==
  \/ D!SaveBegins \/ D!SaveWrites \/ D!SaveEnds \/ D!SaveUndone
  \/ D!SettingsBegin \/ D!SettingsEnd

\* They touch the lists of references at most.
LEMMA SavesLeave ==
  Saves => UNCHANGED <<dCh, dLive, dTmp, dWant, dDeleted>> /\ dMishaps \subseteq dMishaps'
BY DEF Saves, D!SaveBegins, D!SaveWrites, D!SaveEnds, D!SaveUndone, D!SettingsBegin, D!SettingsEnd

\* Those keep the types.
LEMMA SavesSteady ==
  ASSUME Steadies, EditsTyped, Saves
  PROVE  Steadies' /\ EditsTyped'
<1>1. /\ dSave \in SaveRecord /\ D!NoSave \in SaveRecord /\ dLive["Device"] \in Content("Device")
      /\ dRefs \in [D!Lists -> SUBSET Nat] /\ dMishaps \subseteq D!Mishaps
  BY NoSaveTyped DEF EditsTyped
<1>2. D!Ids(dLive["Device"].val) \subseteq Nat
  BY <1>1, Files, IdsOf
<1>3. \A ids, l : D!Late(ids, l) \subseteq D!Mishaps
  BY DEF D!Late, D!Mishaps
<1>4. /\ dSave' \in SaveRecord /\ dRefs' \in [D!Lists -> SUBSET Nat]
      /\ dMishaps' \subseteq D!Mishaps
  <2>1. CASE D!SaveBegins
    <3>1. dSave' = [D!NoSave EXCEPT !.kind = "activity", !.ids = D!Ids(dLive["Device"].val),
                                    !.was = dRefs]
      BY <2>1 DEF D!SaveBegins
    <3>2. dSave' \in SaveRecord
      BY <1>1, <1>2, <3>1 DEF SaveRecord
    <3> QED
      BY <1>1, <2>1, <3>2 DEF D!SaveBegins
  <2>2. CASE D!SaveWrites
    <3>1. dSave.n \in 1 .. 3 /\ dSave' = [dSave EXCEPT !.n = dSave.n + 1]
      BY <1>1, <2>2 DEF D!SaveWrites, D!Saved, SaveRecord
    <3>2. dSave.n + 1 \in 1 .. 4
      BY <3>1
    <3>3. dSave' \in SaveRecord
      BY <1>1, <3>1, <3>2 DEF SaveRecord
    <3>4. PICK ids \in NamedIds : /\ dRefs' = [dRefs EXCEPT ![D!Saved[dSave.n]] = ids]
                                  /\ dMishaps' = dMishaps \cup D!Late(ids, D!Saved[dSave.n])
      BY <2>2 DEF D!SaveWrites
    <3>5. ids \in SUBSET Nat
      BY DevicesAssumption
    <3> QED
      BY <1>1, <1>3, <3>3, <3>4, <3>5
  <2>3. CASE D!SaveUndone
    <3>1. PICK back \in SUBSET D!Lists :
            /\ dRefs' = [l \in D!Lists |-> IF l \in back THEN dSave.was[l] ELSE dRefs[l]]
            /\ dMishaps' = dMishaps \cup UNION {D!Late(dSave.was[l], l) : l \in back}
      BY <2>3 DEF D!SaveUndone
    <3>2. dSave.was \in [D!Lists -> SUBSET Nat]
      BY <1>1 DEF SaveRecord
    <3>3. dRefs' \in [D!Lists -> SUBSET Nat]
      BY <1>1, <3>1, <3>2
    <3>4. dMishaps' \subseteq D!Mishaps
      BY <1>1, <1>3, <3>1
    <3> QED
      BY <1>1, <2>3, <3>3, <3>4 DEF D!SaveUndone
  <2>4. CASE D!SettingsBegin
    <3>1. PICK id \in Nat :
            dSave' = [D!NoSave EXCEPT !.kind = "settings", !.id = id, !.list = dLive["Device"]]
      BY <1>2, <2>4 DEF D!SettingsBegin
    <3>2. dSave' \in SaveRecord
      BY <1>1, <3>1 DEF SaveRecord
    <3> QED
      BY <1>1, <2>4, <3>2 DEF D!SettingsBegin
  <2>5. CASE D!SaveEnds \/ D!SettingsEnd
    BY <1>1, <2>5 DEF D!SaveEnds, D!SettingsEnd
  <2> QED
    BY <2>1, <2>2, <2>3, <2>4, <2>5 DEF Saves
<1> QED
  BY <1>4, SavesLeave DEF EditsTyped, Steadies

\* The settings the hub saves, or takes back, keep the types.
LEMMA SettingsSteady ==
  ASSUME Steadies, EditsTyped, D!SettingsSaved \/ D!SettingsUndone
  PROVE  Steadies' /\ EditsTyped'
<1>1. dSave \in SaveRecord /\ D!NoSave \in SaveRecord
  BY NoSaveTyped DEF EditsTyped
<1>2. dSave.id \in Nat /\ dSave.list.val \in Seq(Device)
  BY <1>1, Files DEF SaveRecord
<1>3. CASE D!SettingsSaved
  <2>1. "set" \in Texts
    BY DevicesAssumption
  <2>2. D!Labelled(dSave.list.val, "set") \in Seq(Device)
    BY <1>2, <2>1, LabelledTyped
  <2>3. dSave' \in SaveRecord
    BY <1>1, <1>3 DEF D!SettingsSaved, SaveRecord
  <2> QED
    BY <1>3, <2>2, <2>3, PutsBackSteady DEF D!SettingsSaved
<1>4. CASE D!SettingsUndone
  <2>1. dSave' \in SaveRecord
    BY <1>1, <1>4 DEF D!SettingsUndone
  <2> QED
    BY <1>2, <1>4, <2>1, PutsBackSteady DEF D!SettingsUndone
<1> QED
  BY <1>3, <1>4

\* Every step keeps the types.
LEMMA DeviceNextTyped == Steadies /\ EditsTyped /\ [D!Next]_dVars => Steadies' /\ EditsTyped'
<1> SUFFICES ASSUME Steadies, EditsTyped, [D!Next]_dVars PROVE Steadies' /\ EditsTyped'
  OBVIOUS
<1>1. CASE UNCHANGED dVars
  BY <1>1 DEF dVars, Steadies, EditsTyped
<1>2. CASE \E c \in Child : D!Begin(c) \/ D!ChildStep(c)
  <2>1. PICK c \in Child : D!Begin(c) \/ D!ChildStep(c)
    BY <1>2
  <2> QED
    BY <2>1, BeginSteady, ScanSteady, CheckSteady, ReadSteady, LookSteady, EnsureSteady,
       AppendItemSteady, RereadSteady, OpenSteady, WriteSteady, WriteFailsSteady, PublishSteady,
       FailsSteady, ScanFailsSteady, ReplaceSteady DEF D!ChildStep, Fails
<1>3. CASE Saves
  BY <1>3, SavesSteady
<1>4. CASE D!SettingsSaved \/ D!SettingsUndone
  BY <1>4, SettingsSteady
<1> QED
  BY <1>1, <1>2, <1>3, <1>4 DEF D!Next, Saves

-----------------------------------------------------------------------------
(* Deleted devices. *)

\* A step of one child changes nothing of another but where its temporary file is.
LEMMA OthersWait ==
  ASSUME Steadies, NEW c \in Child, D!Begin(c) \/ D!ChildStep(c), NEW d \in Child, d # c
  PROVE  /\ dCh'[d] = dCh[d] \/ \E place \in {"live", "gone"} : dCh'[d] = [dCh[d] EXCEPT !.on = place]
         /\ dCh'[d].pc = dCh[d].pc /\ dCh'[d].req = dCh[d].req /\ dCh'[d].n = dCh[d].n
         /\ dCh'[d].file = dCh[d].file /\ dCh'[d].out = dCh[d].out /\ dCh'[d].raw = dCh[d].raw
         /\ dCh'[d].seen = dCh[d].seen /\ dCh'[d].id = dCh[d].id
<1>1. DOMAIN dCh = Child /\ dCh[d] \in EditChild
  BY DEF Steadies, Steady
<1>2. (\E next : dCh' = [dCh EXCEPT ![c] = next]) => dCh'[d] = dCh[d]
  BY <1>1
<1>3. (\E next : dCh' = D!Moved(c, next, "live", TRUE) \/ dCh' = D!Moved(c, next, "gone", FALSE))
        => dCh'[d] = dCh[d] \/ \E place \in {"live", "gone"} : dCh'[d] = [dCh[d] EXCEPT !.on = place]
  BY DEF D!Moved
<1>4. \/ \E next : dCh' = [dCh EXCEPT ![c] = next]
      \/ \E next : dCh' = D!Moved(c, next, "live", TRUE) \/ dCh' = D!Moved(c, next, "gone", FALSE)
  <2>1. CASE D!Begin(c)
    BY <2>1 DEF D!Begin, D!Become
  <2>2. CASE D!Scan(c)
    BY <2>2 DEF D!Scan, D!Become
  <2>3. CASE D!Check(c)
    BY <2>3 DEF D!Check, D!Become, D!Answer
  <2>4. CASE D!Read(c)
    BY <2>4 DEF D!Read, D!Become, D!Answer
  <2>5. CASE D!Look(c)
    BY <2>5 DEF D!Look, D!Become, D!Answer
  <2>6. CASE D!Ensure(c)
    BY <2>6 DEF D!Ensure, D!Become
  <2>7. CASE D!AppendItem(c)
    BY <2>7 DEF D!AppendItem, D!Become, D!Answer
  <2>8. CASE D!Reread(c)
    BY <2>8 DEF D!Reread, D!Become, D!Answer
  <2>9. CASE D!Open(c) \/ D!Write(c) \/ D!FlushFails(c)
    BY <2>9 DEF D!Open, D!Write, D!FlushFails, D!Become
  <2>10. CASE Fails(c)
    BY <2>10 DEF Fails, D!OpenFails, D!PublishFails, D!ReadFails, D!ReplaceFails, D!Become, D!Answer
  <2>11. CASE D!WriteFails(c)
    <3>1. dCh' = D!Moved(c, D!Ended(c, "failed"), "gone", FALSE)
      BY <2>11 DEF D!WriteFails
    <3> QED
      BY <3>1
  <2>12. CASE D!Publish(c)
    <3>1. PICK next : dCh' = D!Moved(c, next, "live", TRUE)
      BY <2>12, PublishOf
    <3> QED
      BY <3>1
  <2>13. CASE D!ScanFails(c)
    BY <2>13 DEF D!ScanFails, D!Become
  <2>14. CASE D!ReplaceList(c)
    BY <2>14 DEF D!ReplaceList, D!Become
  <2> QED
    BY <2>1, <2>2, <2>3, <2>4, <2>5, <2>6, <2>7, <2>8, <2>9, <2>10, <2>11, <2>12, <2>13, <2>14
       DEF D!ChildStep, Fails
<1>5. dCh'[d] = dCh[d] \/ \E place \in {"live", "gone"} : dCh'[d] = [dCh[d] EXCEPT !.on = place]
  BY <1>2, <1>3, <1>4
<1> QED
  BY <1>1, <1>5 DEF EditChild

\* How far one step takes a child: it reaches the read only past the third
\* reference checked, and the writing of a deletion only from the read.
Goes(c) ==
  LET me == dCh[c]
      you == dCh'[c]
  IN
  /\ you.req = me.req /\ you.pc # "idle"
  /\ you.pc = "check" =>
       /\ me.pc = "check" /\ you.n = me.n + 1
       /\ me.req.id \notin dRefs[D!Referencing[me.n]]
  /\ you.pc = "read" => me.pc = "check" /\ me.n = 3 /\ me.req.id \notin dRefs[D!Referencing[3]]
  /\ you.pc \in Writing /\ me.req.kind = "delete" => me.pc \in {"read"} \cup Writing
  /\ me.pc \notin Writing => you.on \in {"none", me.on} /\ you.pc \notin {"write", "publish"}

\* A child that answers goes no further.
LEMMA AnswerGoes ==
  ASSUME Steadies, NEW c \in Child, NEW verdict \in {"ok", "failed", "in use"}, D!Answer(c, verdict)
  PROVE  Goes(c)
<1>1. Steady(dCh[c]) /\ DOMAIN dCh = Child
  BY DEF Steadies
<1>2. /\ D!Ended(c, verdict).pc = "done" /\ D!Ended(c, verdict).req = dCh[c].req
      /\ D!Ended(c, verdict).on = "none"
  BY <1>1, EndedSteady
<1>3. dCh'[c] = D!Ended(c, verdict)
  BY <1>1 DEF D!Answer, D!Become
<1> QED
  BY <1>2, <1>3 DEF Goes, Writing

\* Every step of a child goes as Goes says.
LEMMA ChildGoes ==
  ASSUME Steadies, NEW c \in Child, D!ChildStep(c)
  PROVE  Goes(c)
<1> DEFINE me == dCh[c]
<1>1. DOMAIN dCh = Child /\ me \in EditChild /\ InStep(me)
  BY DEF Steadies, Steady
<1> HIDE DEF me
<1>2. CASE D!ReplaceList(c)
  <2>1. /\ me.pc = "replace" /\ me.req.kind # "delete"
        /\ dCh'[c].pc \in {"open", "replace", "done"} /\ dCh'[c].req = me.req
        /\ dCh'[c].on \in {"none", me.on}
    BY <1>2, ReplaceOf DEF me, D!Lists
  <2> QED
    BY <2>1 DEF Goes, Writing, me
<1>3. CASE D!Answer(c, "ok") \/ D!Answer(c, "failed") \/ D!Answer(c, "in use")
  BY <1>3, AnswerGoes
<1>4. CASE D!Scan(c) \/ D!ScanFails(c)
  <2>1. dCh'[c].pc = "append" /\ dCh'[c].req = me.req /\ dCh'[c].on = me.on
    BY <1>1, <1>4 DEF D!Scan, D!ScanFails, D!Become, EditChild, me
  <2> QED
    BY <2>1 DEF Goes, Writing, me
<1>5. CASE D!Check(c) /\ ~D!Answer(c, "in use")
  <2>1. /\ me.pc = "check" /\ me.n \in 1 .. 3 /\ me.req.id \notin dRefs[D!Referencing[me.n]]
        /\ \/ me.n < 3 /\ dCh'[c] = [me EXCEPT !.n = me.n + 1]
           \/ ~(me.n < 3) /\ dCh'[c] = [me EXCEPT !.pc = "read"]
    BY <1>1, <1>5 DEF D!Check, D!Become, D!Referencing, EditChild, me
  <2>2. CASE me.n < 3 /\ dCh'[c] = [me EXCEPT !.n = me.n + 1]
    <3>1. dCh'[c].pc = "check" /\ dCh'[c].req = me.req /\ dCh'[c].on = me.on /\ dCh'[c].n = me.n + 1
      BY <1>1, <2>1, <2>2 DEF EditChild
    <3> QED
      BY <2>1, <3>1 DEF Goes, Writing, me
  <2>3. CASE ~(me.n < 3) /\ dCh'[c] = [me EXCEPT !.pc = "read"]
    <3>1. dCh'[c].pc = "read" /\ dCh'[c].req = me.req /\ dCh'[c].on = me.on
      BY <1>1, <2>3 DEF EditChild
    <3>2. me.n = 3
      BY <2>1, <2>3
    <3> QED
      BY <2>1, <3>1, <3>2 DEF Goes, Writing, me
  <2> QED
    BY <2>1, <2>2, <2>3
<1>6. CASE D!Read(c) /\ ~D!Answer(c, "failed") /\ ~D!Answer(c, "ok")
  <2> DEFINE first == IF D!NeedsProtocol(me.req, dLive.Device.val) THEN "ensure"
                      ELSE D!AfterProtocol(me.req.kind)
             next == [me EXCEPT !.pc = first, !.raw = dLive.Device, !.seen = dLive.Device,
                                !.out = D!Edited(me.req, dLive.Device.val)]
  <2>1. first \in {"ensure", "reread", "open"}
    BY DEF D!AfterProtocol
  <2>2. me.pc = "read" /\ (dCh'[c] = [me EXCEPT !.pc = "look"] \/ dCh'[c] = next)
    BY <1>1, <1>6 DEF D!Read, D!Become, me
  <2> HIDE DEF first
  <2>3. /\ me.pc = "read" /\ dCh'[c].req = me.req /\ dCh'[c].on = me.on
        /\ dCh'[c].pc \in {"look", "ensure", "reread", "open"}
    BY <1>1, <2>1, <2>2 DEF EditChild
  <2> QED
    BY <2>3 DEF Goes, Writing, me
<1>7. CASE D!Look(c) /\ ~D!Answer(c, "ok")
  <2>1. dCh'[c].req = me.req /\ dCh'[c].on = me.on /\ dCh'[c].pc = "ensure"
    BY <1>1, <1>7 DEF D!Look, D!Become, EditChild, me
  <2> QED
    BY <2>1 DEF Goes, Writing, me
<1>8. CASE D!Ensure(c) /\ ~D!Answer(c, "ok")
  <2>1. me.req.kind # "delete"
    BY <1>1, <1>8 DEF D!Ensure, InStep, me
  <2>2. dCh'[c].req = me.req /\ dCh'[c].on = me.on /\ dCh'[c].pc \in {"append", "open", "reread"}
    BY <1>1, <1>8 DEF D!Ensure, D!Become, D!Answer, D!AfterProtocol, EditChild, me
  <2> QED
    BY <2>1, <2>2 DEF Goes, Writing, me
<1>9. CASE D!AppendItem(c) /\ ~D!Answer(c, "failed")
  <2>1. me.req.kind # "delete"
    BY <1>1, <1>9 DEF D!AppendItem, InStep, me
  <2>2. dCh'[c].req = me.req /\ dCh'[c].on = me.on /\ dCh'[c].pc = "open"
    BY <1>1, <1>9 DEF D!AppendItem, D!Become, EditChild, me
  <2> QED
    BY <2>1, <2>2 DEF Goes, Writing, me
<1>10. CASE D!Reread(c) /\ ~D!Answer(c, "failed")
  <2>1. me.req.kind # "delete"
    BY <1>1, <1>10 DEF D!Reread, InStep, me
  <2>2. dCh'[c].req = me.req /\ dCh'[c].on = me.on /\ dCh'[c].pc = "open"
    BY <1>1, <1>10 DEF D!Reread, D!Become, EditChild, me
  <2> QED
    BY <2>1, <2>2 DEF Goes, Writing, me
<1>11. CASE D!Open(c) \/ D!Write(c) \/ D!FlushFails(c)
  <2>1. me.pc \in Writing /\ dCh'[c].req = me.req /\ dCh'[c].pc \in Writing
    BY <1>1, <1>11 DEF D!Open, D!Write, D!FlushFails, D!Become, EditChild, me, Writing
  <2> QED
    BY <2>1 DEF Goes, Writing, me
<1>12. CASE D!WriteFails(c)
  <2>1. Steady(me)
    BY DEF Steadies, me
  <2>2. dCh'[c] = D!Ended(c, "failed")
    BY <1>12 DEF D!WriteFails, D!Moved
  <2>3. dCh'[c].req = me.req /\ dCh'[c].pc = "done" /\ me.pc = "write"
    BY <1>12, <2>1, <2>2, EndedSteady DEF me, D!WriteFails
  <2> QED
    BY <2>3 DEF Goes, Writing, me
<1>13. CASE D!Publish(c)
  <2>1. Steady(me)
    BY DEF Steadies, me
  <2>2. PICK next : AfterPublish(c, next) /\ dCh' = D!Moved(c, next, "live", TRUE)
    BY <1>13, PublishOf
  <2>3. dCh'[c] = next
    BY <2>2 DEF D!Moved
  <2>4. D!Ended(c, "ok").req = me.req /\ D!Ended(c, "ok").pc = "done"
    BY <2>1, EndedSteady DEF me
  <2>5. next.req = me.req /\ next.pc \in Writing \cup {"reread", "replace", "done"}
    BY <1>1, <2>2, <2>4 DEF AfterPublish, D!AfterProtocol, EditChild, Writing, me
  <2>6. me.pc = "publish"
    BY <1>13, PublishOf DEF me
  <2> QED
    BY <2>3, <2>5, <2>6 DEF Goes, Writing, me
<1>14. CASE Fails(c)
  <2>1. D!Answer(c, "failed")
    BY <1>14 DEF Fails, D!OpenFails, D!PublishFails, D!ReadFails, D!ReplaceFails
  <2> QED
    BY <2>1, AnswerGoes
<1> QED
  BY <1>2, <1>3, <1>4, <1>5, <1>6, <1>7, <1>8, <1>9, <1>10, <1>11, <1>12, <1>13, <1>14
     DEF D!ChildStep, Fails

\* Only an import changes the lists of references.
LEMMA RefsStay ==
  ASSUME NEW c \in Child, D!Begin(c) \/ D!ChildStep(c), ~D!ReplaceList(c)
  PROVE  dRefs' = dRefs
<1>1. CASE D!Publish(c)
  BY <1>1, PublishOf
<1>2. CASE ~D!Publish(c)
  BY <1>2 DEF D!ChildStep, D!Begin, D!Scan, D!ScanFails, D!ReadFails, D!Check, D!Read, D!Look,
     D!Ensure, D!AppendItem, D!Reread, D!Open, D!OpenFails, D!Write, D!FlushFails, D!WriteFails,
     D!PublishFails, D!ReplaceFails, D!OnlyThinks
<1> QED
  BY <1>1, <1>2

\* Nothing was deleted at the start.
LEMMA UnseenInit == D!Init => Unreferenced
<1> SUFFICES ASSUME D!Init PROVE Unreferenced
  OBVIOUS
<1>1. \A c \in Child : dCh[c] = D!Fresh /\ D!Fresh.n = 1 /\ D!Fresh.pc = "idle"
  BY FreshSteady DEF D!Init, D!Fresh
<1>2. dDeleted = {}
  BY DEF D!Init
<1> QED
  BY <1>1, <1>2 DEF Unreferenced, Unseen, DeletedIsUnreferenced, D!DeletedIsUnreferenced,
     Writing

\* No step of a child spoils what another has checked of the references.
LEMMA UnseenKept ==
  ASSUME Steadies, EditsTyped, NEW c \in Child, D!Begin(c) \/ D!ChildStep(c), ~D!ReplaceList(c),
         \A d \in Child : Unseen(d)
  PROVE  \A d \in Child : Unseen(d)'
<1> SUFFICES ASSUME NEW d \in Child PROVE Unseen(d)'
  OBVIOUS
<1>1. dRefs' = dRefs
  BY RefsStay
<1>2. Unseen(d) /\ Unseen(c)
  OBVIOUS
<1>3. CASE d # c
  <2>1. dCh'[d].pc = dCh[d].pc /\ dCh'[d].req = dCh[d].req /\ dCh'[d].n = dCh[d].n
    BY <1>3, OthersWait
  <2> QED
    BY <1>1, <1>2, <2>1 DEF Unseen
<1>4. CASE d = c /\ D!Begin(c)
  <2> DEFINE me == dCh[c]
  <2>1. DOMAIN dCh = Child /\ me \in EditChild
    BY DEF Steadies, Steady
  <2>2. me.pc = "idle" /\ me.n = 1
    BY <1>2, <1>4 DEF D!Begin, Unseen
  <2>3. PICK r \in DeviceRequests[c] :
          dCh' = [dCh EXCEPT ![c] = [me EXCEPT !.pc = D!FirstStep(r.kind), !.req = r,
                                               !.out = IF r.kind \in {"restore", "bundle"}
                                                       THEN Imported.Device ELSE <<>>]]
    BY <1>4 DEF D!Begin, D!Become
  <2>4. dCh'[c].pc = D!FirstStep(r.kind) /\ dCh'[c].req = r /\ dCh'[c].n = 1
    BY <2>1, <2>2, <2>3 DEF EditChild
  <2>5. /\ D!FirstStep(r.kind) # "idle"
        /\ r.kind = "delete" => D!FirstStep(r.kind) = "check"
    BY DEF D!FirstStep, D!Lists
  <2> QED
    BY <1>4, <2>4, <2>5 DEF Unseen, Writing
<1>5. CASE d = c /\ D!ChildStep(c)
  <2>1. Goes(c)
    BY <1>5, ChildGoes
  <2>2. dCh[c].n \in 1 .. 3 /\ InStep(dCh[c])
    BY DEF Steadies, Steady, EditChild
  <2>3. dCh'[c].pc = "check" =>
          \A i \in 1 .. dCh'[c].n - 1 : dCh'[c].req.id \notin dRefs'[D!Referencing[i]]
    <3> SUFFICES ASSUME dCh'[c].pc = "check", NEW i \in 1 .. dCh'[c].n - 1
                 PROVE  dCh'[c].req.id \notin dRefs'[D!Referencing[i]]
      OBVIOUS
    <3>1. /\ dCh[c].pc = "check" /\ dCh'[c].n = dCh[c].n + 1 /\ dCh'[c].req = dCh[c].req
          /\ dCh[c].req.id \notin dRefs[D!Referencing[dCh[c].n]]
      BY <2>1 DEF Goes
    <3>2. i = dCh[c].n \/ i \in 1 .. dCh[c].n - 1
      BY <2>2, <3>1
    <3> QED
      BY <1>1, <1>2, <3>1, <3>2 DEF Unseen
  <2>4. dCh'[c].req.kind = "delete" /\ dCh'[c].pc \in {"read"} \cup Writing =>
          \A l \in D!Lists : dCh'[c].req.id \notin dRefs'[l]
    <3> SUFFICES ASSUME dCh'[c].req.kind = "delete", dCh'[c].pc \in {"read"} \cup Writing,
                        NEW l \in D!Lists
                 PROVE  dCh'[c].req.id \notin dRefs'[l]
      OBVIOUS
    <3>1. dCh'[c].req = dCh[c].req
      BY <2>1 DEF Goes
    <3>2. CASE dCh'[c].pc = "read"
      <4>1. dCh[c].pc = "check" /\ dCh[c].n = 3 /\ dCh[c].req.id \notin dRefs[D!Referencing[3]]
        BY <2>1, <3>2 DEF Goes
      <4>2. l \in {D!Referencing[1], D!Referencing[2], D!Referencing[3]}
        BY DEF D!Lists, D!Referencing
      <4>3. dCh[c].req.id \notin dRefs[D!Referencing[1]] /\ dCh[c].req.id \notin dRefs[D!Referencing[2]]
        BY <1>2, <4>1 DEF Unseen
      <4> QED
        BY <1>1, <3>1, <4>1, <4>2, <4>3
    <3>3. CASE dCh'[c].pc \in Writing
      <4>1. dCh[c].pc \in {"read"} \cup Writing
        BY <2>1, <3>1, <3>3 DEF Goes
      <4> QED
        BY <1>1, <1>2, <3>1, <4>1 DEF Unseen
    <3> QED
      BY <3>2, <3>3
  <2>5. dCh'[c].pc # "idle"
    BY <2>1 DEF Goes
  <2> QED
    BY <1>5, <2>3, <2>4, <2>5 DEF Unseen
<1> QED
  BY <1>3, <1>4, <1>5

\* The history of races only grows.
LEMMA MishapsStay == D!Next => dMishaps \subseteq dMishaps'
<1> SUFFICES ASSUME D!Next PROVE dMishaps \subseteq dMishaps'
  OBVIOUS
<1>1. CASE Saves \/ D!SettingsSaved \/ D!SettingsUndone
  BY <1>1, SavesLeave DEF D!SettingsSaved, D!SettingsUndone, D!PutsBack
<1>2. CASE \E c \in Child : D!Begin(c) \/ D!ChildStep(c)
  BY <1>2, PublishOf DEF D!ChildStep, D!Begin, D!Scan, D!ScanFails, D!ReadFails, D!Check, D!Read,
     D!Look, D!Ensure, D!AppendItem, D!Reread, D!Open, D!OpenFails, D!Write, D!FlushFails,
     D!WriteFails, D!PublishFails, D!ReplaceList, D!ReplaceFails, D!OnlyThinks
<1> QED
  BY <1>1, <1>2 DEF D!Next, Saves

\* A save that writes references in time names no device that is gone.
LEMMA OnTime ==
  ASSUME NEW ids, NEW l, "reference" \notin D!Late(ids, l)
  PROVE  ~D!NamesGone(ids, l)
BY DEF D!Late

\* What is written into a list of references and names no device that is gone, or
\* whose deletion has looked there, spoils nothing.
LEMMA NamesWhatIsThere ==
  ASSUME Steadies,
         \A id \in dDeleted, l \in D!Lists : id \notin dRefs[l],
         \A c \in Child : Unseen(c),
         \A l \in D!Lists : dRefs'[l] = dRefs[l] \/ ~D!NamesGone(dRefs'[l], l),
         dDeleted' = dDeleted,
         \A c \in Child : \/ dCh'[c] = dCh[c]
                          \/ dCh'[c].pc \notin {"idle", "check"} /\ dCh'[c].req.kind # "delete"
  PROVE  /\ \A id \in dDeleted', l \in D!Lists : id \notin dRefs'[l]
         /\ \A c \in Child : Unseen(c)'
<1>1. \A id \in dDeleted', l \in D!Lists : id \notin dRefs'[l]
  BY DEF D!NamesGone
<1>2. ASSUME NEW c \in Child PROVE Unseen(c)'
  <2>1. CASE dCh'[c].pc \notin {"idle", "check"} /\ dCh'[c].req.kind # "delete"
    BY <2>1 DEF Unseen
  <2>2. CASE dCh'[c] = dCh[c]
    <3> DEFINE me == dCh[c]
    <3>1. me.n \in 1 .. 3 /\ InStep(me) /\ Unseen(c)
      BY DEF Steadies, Steady, EditChild
    <3>2. ASSUME me.pc = "check", NEW i \in 1 .. me.n - 1
          PROVE  me.req.id \notin dRefs'[D!Referencing[i]]
      <4>1. D!Referencing[i] \in D!Lists
        BY <3>1 DEF D!Referencing, D!Lists
      <4>2. me.req.id \notin dRefs[D!Referencing[i]]
        BY <3>1, <3>2 DEF Unseen
      <4>3. D!HasPassed(c, me.req.id, D!Referencing[i])
        BY <3>1, <3>2 DEF D!HasPassed, InStep
      <4> QED
        BY <4>1, <4>2, <4>3 DEF D!NamesGone
    <3>3. ASSUME me.req.kind = "delete", me.pc \in {"read"} \cup Writing, NEW l \in D!Lists
          PROVE  me.req.id \notin dRefs'[l]
      <4>1. me.req.id \notin dRefs[l]
        BY <3>1, <3>3 DEF Unseen
      <4>2. D!HasPassed(c, me.req.id, l)
        BY <3>3 DEF D!HasPassed, Writing
      <4> QED
        BY <4>1, <4>2 DEF D!NamesGone
    <3> QED
      BY <2>2, <3>1, <3>2, <3>3 DEF Unseen
  <2> QED
    BY <2>1, <2>2
<1> QED
  BY <1>1, <1>2

\* Every step keeps deleted devices unreferenced.
LEMMA UnreferencedNext ==
  Steadies /\ EditsTyped /\ Unreferenced /\ [D!Next]_dVars => Unreferenced'
<1> SUFFICES ASSUME Steadies, EditsTyped, Unreferenced, [D!Next]_dVars PROVE Unreferenced'
  OBVIOUS
<1>1. CASE UNCHANGED dVars
  BY <1>1 DEF dVars, Unreferenced, Unseen, DeletedIsUnreferenced, D!DeletedIsUnreferenced,
     D!Free
<1>2. CASE D!Next
  <2>2. SUFFICES ASSUME D!Free({"reference", "import"})'
                 PROVE  /\ \A id \in dDeleted', l \in D!Lists : id \notin dRefs'[l]
                        /\ \A c \in Child : Unseen(c)'
    BY DEF Unreferenced, DeletedIsUnreferenced, D!DeletedIsUnreferenced
  <2>3. D!Free({"reference", "import"})
    BY <1>2, <2>2, MishapsStay DEF D!Free
  <2>4. /\ \A id \in dDeleted, l \in D!Lists : id \notin dRefs[l]
        /\ \A c \in Child : Unseen(c)
    BY <2>3 DEF Unreferenced, DeletedIsUnreferenced, D!DeletedIsUnreferenced
  <2>5. CASE \E c \in Child : D!Begin(c) \/ D!ChildStep(c)
    <3>1. PICK c \in Child : D!Begin(c) \/ D!ChildStep(c)
      BY <2>5
    <3>2. CASE D!ReplaceList(c)
      <4>1. dCh[c].req.kind # "delete" /\ dDeleted' = dDeleted
        BY <3>2, ReplaceOf DEF D!Lists, D!ReplaceList
      <4>2. \A l \in D!Lists : dRefs'[l] = dRefs[l] \/ ~D!NamesGone(dRefs'[l], l)
        <5>1. \A l \in D!Lists : \A ids :
                dRefs' = [dRefs EXCEPT ![l] = ids] =>
                  \A k \in D!Lists : dRefs'[k] = IF k = l THEN ids ELSE dRefs[k]
          BY DEF EditsTyped
        <5> QED
          BY <2>2, <3>2, <5>1, ReplaceOf DEF D!Free
      <4>3. \A d \in Child : \/ dCh'[d] = dCh[d]
                             \/ dCh'[d].pc \notin {"idle", "check"} /\ dCh'[d].req.kind # "delete"
        BY <3>2, <4>1, ReplaceOf
      <4> QED
        BY <2>4, <4>1, <4>2, <4>3, NamesWhatIsThere
    <3>3. CASE D!Publish(c)
      <4> DEFINE ids == IF dCh[c].req.kind = "delete" THEN {dCh[c].req.id} ELSE {}
      <4>1. D!Deletes(ids) /\ dCh[c].pc = "publish" /\ dRefs' = dRefs
        BY <3>3, PublishOf
      <4>2. ~D!ReplaceList(c)
        BY <4>1 DEF D!ReplaceList
      <4>3. \A id \in ids, l \in D!Lists : id \notin dRefs[l]
        BY <2>4, <4>1 DEF Unseen, Writing
      <4> HIDE DEF ids
      <4>4. dDeleted' \subseteq dDeleted \cup ids
        BY <4>1 DEF D!Deletes
      <4> QED
        BY <2>4, <3>1, <4>1, <4>2, <4>3, <4>4, UnseenKept
    <3>4. CASE ~D!Publish(c) /\ ~D!ReplaceList(c)
      <4>1. dDeleted' \subseteq dDeleted
        BY <3>1, <3>4 DEF D!ChildStep, D!Begin, D!Scan, D!ScanFails, D!ReadFails, D!Check, D!Read,
           D!Look, D!Ensure, D!AppendItem, D!Reread, D!Open, D!OpenFails, D!Write, D!FlushFails,
           D!WriteFails, D!PublishFails, D!ReplaceFails, D!OnlyThinks, D!Deletes
      <4>2. dRefs' = dRefs
        BY <3>1, <3>4, RefsStay
      <4> QED
        BY <2>4, <3>1, <3>4, <4>1, <4>2, UnseenKept
    <3> QED
      BY <3>2, <3>3, <3>4
  <2>6. CASE D!SaveWrites \/ D!SaveUndone
    <3>1. dCh' = dCh /\ dDeleted' = dDeleted
      BY <2>6 DEF D!SaveWrites, D!SaveUndone
    <3>2. "reference" \notin dMishaps'
      BY <2>2 DEF D!Free
    <3>3. \A l \in D!Lists : dRefs'[l] = dRefs[l] \/ ~D!NamesGone(dRefs'[l], l)
      <4>1. CASE D!SaveWrites
        <5>1. PICK l, ids : /\ dRefs' = [dRefs EXCEPT ![l] = ids]
                            /\ dMishaps' = dMishaps \cup D!Late(ids, l)
          BY <4>1 DEF D!SaveWrites
        <5>2. ~D!NamesGone(ids, l)
          BY <3>2, <5>1, OnTime
        <5>3. \A k \in D!Lists : dRefs'[k] = IF k = l THEN ids ELSE dRefs[k]
          BY <5>1 DEF EditsTyped
        <5> QED
          BY <5>2, <5>3
      <4>2. CASE D!SaveUndone
        <5>1. PICK back \in SUBSET D!Lists :
                /\ dRefs' = [l \in D!Lists |-> IF l \in back THEN dSave.was[l] ELSE dRefs[l]]
                /\ dMishaps' = dMishaps \cup UNION {D!Late(dSave.was[l], l) : l \in back}
          BY <4>2 DEF D!SaveUndone
        <5>2. \A l \in back : "reference" \notin D!Late(dSave.was[l], l)
          BY <3>2, <5>1
        <5>3. \A l \in back : ~D!NamesGone(dSave.was[l], l)
          BY <3>2, <5>2, OnTime
        <5> QED
          BY <5>1, <5>3
      <4> QED
        BY <2>6, <4>1, <4>2
    <3> QED
      BY <2>4, <3>1, <3>3, NamesWhatIsThere
  <2>7. CASE D!SaveBegins \/ D!SaveEnds \/ D!SettingsBegin \/ D!SettingsEnd
    BY <2>4, <2>7 DEF D!SaveBegins, D!SaveEnds, D!SettingsBegin, D!SettingsEnd, Unseen
  <2>8. CASE D!SettingsSaved \/ D!SettingsUndone
    <3>1. dRefs' = dRefs /\ dDeleted' \subseteq dDeleted
      BY <2>8 DEF D!SettingsSaved, D!SettingsUndone, D!PutsBack, D!Deletes
    <3>2. \A c \in Child : dCh'[c].pc = dCh[c].pc /\ dCh'[c].req = dCh[c].req /\ dCh'[c].n = dCh[c].n
      <4>1. \A c \in Child : dCh'[c] = dCh[c] \/ dCh'[c] = [dCh[c] EXCEPT !.on = "gone"]
        BY <2>8 DEF D!SettingsSaved, D!SettingsUndone, D!PutsBack
      <4>2. \A c \in Child : dCh[c] \in EditChild
        BY DEF Steadies, Steady
      <4> QED
        BY <4>1, <4>2 DEF EditChild
    <3> QED
      BY <2>4, <3>1, <3>2 DEF Unseen
  <2> QED
    BY <1>2, <2>5, <2>6, <2>7, <2>8 DEF D!Next
<1> QED
  BY <1>1, <1>2

\* A step of the whole is a step of the edits or leaves them alone.
LEMMA DeviceSteps == [Next]_vars => [D!Next]_dVars
BY DEF Next, vars, dVars, DeviceStep, ReloadStep, BatchStep, RadioStep, GuardStep, PairingStep,
   ControlStep, UpdateStep

\* What the DELETE handler answers ok for is out of the device list and no list
\* refers to it, whatever else is edited, imported, saved, put back or fails,
\* unless a reference to it was written when the handler had already looked at that
\* list: by a save that had found the device before, by one that put its old lists
\* back, or by an import (delete_ir_device checks, then reads, then writes;
\* handle_import_bundle writes what it was sent).
THEOREM DeletedStaysUnreferenced == Spec => []DeletedIsUnreferenced
<1>1. Init => Steadies /\ EditsTyped /\ Unreferenced
  BY DeviceInit, UnseenInit DEF Init
<1>2. Steadies /\ EditsTyped /\ Unreferenced /\ [Next]_vars
        => (Steadies /\ EditsTyped /\ Unreferenced)'
  BY DeviceSteps, DeviceNextTyped, UnreferencedNext
<1>3. Unreferenced => DeletedIsUnreferenced
  BY DEF Unreferenced, DeletedIsUnreferenced, D!DeletedIsUnreferenced
<1> QED
  BY <1>1, <1>2, <1>3, PTL DEF Spec

-----------------------------------------------------------------------------
(* The temporary files. *)

\* A child that holds no temporary file leaves the others theirs.
LEMMA LeavesAlone ==
  ASSUME Steadies, NEW c \in Child, \A d \in Child : WritesAlone(d),
         dCh'[c].on = "none", dCh'[c].pc \notin {"write", "publish"},
         \A d \in Child \ {c} : dCh'[d] = dCh[d],
         \A f \in {"Device", "Protocol"} :
           dTmp'[f] = dTmp[f] \/ (dCh[c].on = "tmp" /\ f = dCh[c].file)
  PROVE  \A d \in Child : WritesAlone(d)'
<1>1. WritesAlone(c)'
  BY DEF WritesAlone
<1>2. ASSUME NEW d \in Child \ {c} PROVE WritesAlone(d)'
  <2>1. WritesAlone(d) /\ dCh'[d] = dCh[d] /\ dCh[d].file \in {"Device", "Protocol"}
    BY DEF Steadies, Steady, EditChild
  <2>2. dCh[d].pc \in {"write", "publish"} => dTmp'[dCh[d].file] = dTmp[dCh[d].file]
    BY <2>1 DEF WritesAlone
  <2> QED
    BY <2>1, <2>2 DEF WritesAlone
<1> QED
  BY <1>1, <1>2

\* A child alone with its file takes it from no other.
LEMMA AloneMoved ==
  ASSUME NEW c \in Child, \A d \in Child : WritesAlone(d), dCh[c].on = "tmp",
         NEW next, NEW place, NEW gone, dCh' = D!Moved(c, next, place, gone)
  PROVE  dCh'[c] = next /\ \A d \in Child \ {c} : dCh'[d] = dCh[d]
<1>1. dCh'[c] = next
  BY DEF D!Moved
<1>2. ASSUME NEW d \in Child \ {c} PROVE dCh'[d] = dCh[d]
  <2>1. dCh[d].on \in {"none", "tmp"}
    BY DEF WritesAlone
  <2>2. dCh[d].on = "none" \/ dCh[d].file # dCh[c].file
    BY <2>1 DEF WritesAlone
  <2> QED
    BY <2>2 DEF D!Moved
<1> QED
  BY <1>1, <1>2

\* The steps that write neither file.
Reads(c) ==
  \/ D!Begin(c) \/ D!Scan(c) \/ D!Check(c) \/ D!Read(c) \/ D!Look(c) \/ D!Ensure(c)
  \/ D!AppendItem(c) \/ D!Reread(c) \/ D!OpenFails(c)
  \/ D!ScanFails(c) \/ D!ReadFails(c) \/ D!ReplaceList(c) \/ D!ReplaceFails(c)

\* They leave every temporary file with its writer and the lists as they are.
LEMMA ReadsAlone ==
  ASSUME Steadies, NEW c \in Child, Reads(c), \A d \in Child : WritesAlone(d)
  PROVE  /\ \A d \in Child : WritesAlone(d)'
         /\ dLive' = dLive /\ dWant' = dWant
<1>1. dLive' = dLive /\ dTmp' = dTmp /\ dWant' = dWant
  BY DEF Reads, D!Begin, D!Scan, D!Check, D!Read, D!Look, D!Ensure, D!AppendItem, D!Reread,
         D!ScanFails, D!ReadFails, D!ReplaceList, D!ReplaceFails, D!OpenFails, D!OnlyThinks
<1>2. /\ dCh[c].pc \notin {"write", "publish"} /\ dCh[c].on = "none"
      /\ dCh[c].pc = "open" => D!OpenFails(c)
  <2>1. dCh[c].pc \notin {"write", "publish"} /\ (dCh[c].pc = "open" => D!OpenFails(c))
    BY DEF Reads, D!Begin, D!Scan, D!Check, D!Read, D!Look, D!Ensure, D!AppendItem, D!Reread,
           D!ScanFails, D!ReadFails, D!ReplaceList, D!ReplaceFails, D!OpenFails
  <2> QED
    BY <2>1 DEF WritesAlone
<1>3. dCh'[c].on = "none" /\ dCh'[c].pc \notin {"write", "publish"}
  <2>1. CASE D!Begin(c)
    <3>1. DOMAIN dCh = Child /\ dCh[c] \in EditChild
      BY DEF Steadies, Steady
    <3>2. PICK r : dCh' = [dCh EXCEPT ![c] = [dCh[c] EXCEPT !.pc = D!FirstStep(r.kind), !.req = r,
                                               !.out = IF r.kind \in {"restore", "bundle"}
                                                       THEN Imported.Device ELSE <<>>]]
      BY <2>1 DEF D!Begin, D!Become
    <3>3. dCh'[c].on = dCh[c].on /\ dCh'[c].pc = D!FirstStep(r.kind)
      BY <3>1, <3>2 DEF EditChild
    <3> QED
      BY <1>2, <3>3 DEF D!FirstStep
  <2>2. CASE D!OpenFails(c)
    <3>1. Steady(dCh[c]) /\ DOMAIN dCh = Child
      BY DEF Steadies
    <3>2. dCh'[c] = D!Ended(c, "failed")
      BY <2>2, <3>1 DEF D!OpenFails, D!Answer, D!Become
    <3> QED
      BY <3>1, <3>2, EndedSteady
  <2>3. CASE ~D!Begin(c) /\ ~D!OpenFails(c)
    <3>1. D!ChildStep(c) /\ dCh[c].pc \notin Writing
      BY <1>2, <2>3 DEF Reads, D!ChildStep, Writing
    <3> QED
      BY <1>2, <3>1, ChildGoes DEF Goes
  <2> QED
    BY <2>1, <2>2, <2>3
<1>4. \A d \in Child \ {c} : dCh'[d] = dCh[d]
  BY DEF Reads, D!Begin, D!Scan, D!Check, D!Read, D!Look, D!Ensure, D!AppendItem, D!Reread,
         D!ScanFails, D!ReadFails, D!ReplaceList, D!ReplaceFails, D!OpenFails, D!Become, D!Answer, Steadies
<1>5. \A d \in Child : WritesAlone(d)'
  BY <1>1, <1>3, <1>4, LeavesAlone
<1> QED
  BY <1>1, <1>5

\* So does an open that finds no other child with the file open.
LEMMA OpensAlone ==
  ASSUME Steadies, EditsTyped, NEW c \in Child, D!Open(c), \A d \in Child : WritesAlone(d),
         "overlap" \notin dMishaps'
  PROVE  /\ \A d \in Child : WritesAlone(d)'
         /\ dLive' = dLive /\ dWant' = dWant
<1>1. /\ DOMAIN dCh = Child /\ dCh[c] \in EditChild /\ dCh[c].file \in DOMAIN dTmp
      /\ \A d \in Child : dCh[d].file \in DOMAIN dTmp
  BY DEF Steadies, Steady, EditChild, EditsTyped
<1>2. \A d \in Child \ {c} : dCh[d].on = "tmp" => dCh[d].file # dCh[c].file
  BY DEF D!Open
<1>3. /\ dCh'[c] = [dCh[c] EXCEPT !.pc = "write", !.on = "tmp"]
      /\ \A d \in Child \ {c} : dCh'[d] = dCh[d]
  BY <1>1 DEF D!Open, D!Become
<1>4. dCh'[c].pc = "write" /\ dCh'[c].on = "tmp" /\ dCh'[c].file = dCh[c].file
  BY <1>1, <1>3 DEF EditChild
<1>5. /\ dTmp'[dCh[c].file] = D!Broken
      /\ \A f : f # dCh[c].file => dTmp'[f] = dTmp[f]
  BY <1>1 DEF D!Open
<1>6. WritesAlone(c)'
  BY <1>2, <1>3, <1>4, <1>5 DEF WritesAlone
<1>7. ASSUME NEW d \in Child \ {c} PROVE WritesAlone(d)'
  <2>1. WritesAlone(d) /\ dCh'[d] = dCh[d]
    BY <1>3
  <2>2. dCh[d].pc \in {"write", "publish"} => dTmp'[dCh[d].file] = dTmp[dCh[d].file]
    BY <1>2, <1>5, <2>1 DEF WritesAlone
  <2>3. \A e \in Child \ {d} :
          dCh'[d].on = "tmp" /\ dCh'[e].on = "tmp" => dCh'[d].file # dCh'[e].file
    <3> SUFFICES ASSUME NEW e \in Child \ {d}
                 PROVE  dCh'[d].on = "tmp" /\ dCh'[e].on = "tmp" => dCh'[d].file # dCh'[e].file
      OBVIOUS
    <3>1. CASE e = c
      BY <1>2, <1>4, <2>1, <3>1
    <3>2. CASE e # c
      BY <1>3, <2>1, <3>2 DEF WritesAlone
    <3> QED
      BY <3>1, <3>2
  <2> QED
    BY <2>1, <2>2, <2>3 DEF WritesAlone
<1> QED
  BY <1>6, <1>7 DEF D!Open

\* So does the write of a child alone with its file.
LEMMA WritesOnlyOwn ==
  ASSUME Steadies, EditsTyped, NEW c \in Child, D!Write(c), \A d \in Child : WritesAlone(d)
  PROVE  /\ \A d \in Child : WritesAlone(d)'
         /\ dLive' = dLive /\ dWant' = dWant
<1> DEFINE f == dCh[c].file
<1>1. /\ DOMAIN dCh = Child /\ dCh[c] \in EditChild /\ dCh[c].file \in DOMAIN dTmp
  BY DEF Steadies, Steady, EditChild, EditsTyped
<1>2. dCh[c].on = "tmp" /\ dTmp[f] = D!Broken /\ ~D!Readable(D!Broken)
  BY DEF D!Write, WritesAlone, D!Readable, D!Broken
<1>3. dTmp' = [dTmp EXCEPT ![f] = D!Whole(dCh[c].out)] /\ dLive' = dLive
  BY <1>2 DEF D!Write, D!Into
<1>4. /\ dCh'[c] = [dCh[c] EXCEPT !.pc = "publish"]
      /\ \A d \in Child \ {c} : dCh'[d] = dCh[d]
  BY <1>1 DEF D!Write, D!Become
<1>5. dCh'[c].pc = "publish" /\ dCh'[c].on = "tmp" /\ dCh'[c].file = f /\ dCh'[c].out = dCh[c].out
  BY <1>1, <1>2, <1>4 DEF EditChild
<1>6. dTmp'[f] = D!Whole(dCh[c].out) /\ \A g : g # f => dTmp'[g] = dTmp[g]
  BY <1>1, <1>3
<1>7. \A d \in Child \ {c} : dCh[d].on = "tmp" => dCh[d].file # f
  BY <1>2 DEF WritesAlone
<1>8. WritesAlone(c)'
  BY <1>4, <1>5, <1>6, <1>7 DEF WritesAlone
<1>9. ASSUME NEW d \in Child \ {c} PROVE WritesAlone(d)'
  <2>1. WritesAlone(d) /\ dCh'[d] = dCh[d]
    BY <1>4
  <2>2. dCh[d].pc \in {"write", "publish"} => dTmp'[dCh[d].file] = dTmp[dCh[d].file]
    BY <1>6, <1>7, <2>1 DEF WritesAlone
  <2>3. \A e \in Child \ {d} :
          dCh'[d].on = "tmp" /\ dCh'[e].on = "tmp" => dCh'[d].file # dCh'[e].file
    <3> SUFFICES ASSUME NEW e \in Child \ {d}
                 PROVE  dCh'[d].on = "tmp" /\ dCh'[e].on = "tmp" => dCh'[d].file # dCh'[e].file
      OBVIOUS
    <3>1. CASE e = c
      BY <1>5, <1>7, <2>1, <3>1
    <3>2. CASE e # c
      BY <1>4, <2>1, <3>2 DEF WritesAlone
    <3> QED
      BY <3>1, <3>2
  <2> QED
    BY <2>1, <2>2, <2>3 DEF WritesAlone
<1> QED
  BY <1>3, <1>8, <1>9 DEF D!Write

\* So does a write or a rename that fails.
LEMMA FailsAlone ==
  ASSUME Steadies, EditsTyped, NEW c \in Child, D!WriteFails(c) \/ D!PublishFails(c),
         \A d \in Child : WritesAlone(d)
  PROVE  /\ \A d \in Child : WritesAlone(d)'
         /\ dLive' = dLive /\ dWant' = dWant
<1>1. Steady(dCh[c]) /\ dCh[c].on = "tmp" /\ DOMAIN dCh = Child
  BY DEF Steadies, D!WriteFails, D!PublishFails, WritesAlone
<1>2. D!Ended(c, "failed").on = "none" /\ D!Ended(c, "failed").pc = "done"
  BY <1>1, EndedSteady
<1>3. dCh'[c] = D!Ended(c, "failed") /\ \A d \in Child \ {c} : dCh'[d] = dCh[d]
  <2>1. CASE D!WriteFails(c)
    BY <1>1, <2>1, AloneMoved DEF D!WriteFails
  <2>2. CASE D!PublishFails(c)
    BY <1>1, <2>2 DEF D!PublishFails, D!Answer, D!Become
  <2> QED
    BY <2>1, <2>2
<1>4. \A f \in {"Device", "Protocol"} : dTmp'[f] = dTmp[f] \/ f = dCh[c].file
  <2>1. CASE D!WriteFails(c)
    BY <2>1 DEF D!WriteFails, EditsTyped
  <2>2. CASE D!PublishFails(c)
    BY <2>2 DEF D!PublishFails
  <2> QED
    BY <2>1, <2>2
<1>5. \A d \in Child : WritesAlone(d)'
  BY <1>1, <1>2, <1>3, <1>4, LeavesAlone
<1> QED
  BY <1>1, <1>5 DEF D!WriteFails, D!PublishFails

\* The rename of a child alone with its file publishes what that child made.
LEMMA PublishesAlone ==
  ASSUME Steadies, EditsTyped, NEW c \in Child, D!Publish(c), \A d \in Child : WritesAlone(d)
  PROVE  /\ \A d \in Child : WritesAlone(d)'
         /\ dLive' = [dLive EXCEPT ![dCh[c].file] = D!Whole(dCh[c].out)]
         /\ AfterPublish(c, dCh'[c]) /\ \A d \in Child \ {c} : dCh'[d] = dCh[d]
<1>1. Steady(dCh[c]) /\ DOMAIN dCh = Child /\ dCh[c].pc = "publish" /\ dCh[c] \in EditChild
  BY PublishOf DEF Steadies, Steady
<1>2. dCh[c].on = "tmp" /\ dTmp[dCh[c].file] = D!Whole(dCh[c].out)
  BY <1>1 DEF WritesAlone
<1>3. PICK next : AfterPublish(c, next) /\ dCh' = D!Moved(c, next, "live", TRUE)
  BY PublishOf
<1>4. dCh'[c] = next /\ \A d \in Child \ {c} : dCh'[d] = dCh[d]
  BY <1>2, <1>3, AloneMoved
<1>5. D!Ended(c, "ok").on = "none" /\ D!Ended(c, "ok").pc = "done"
  BY <1>1, EndedSteady
<1>6. next.on = "none" /\ next.pc \notin {"write", "publish"}
  BY <1>1, <1>3, <1>5 DEF AfterPublish, D!AfterProtocol, EditChild
<1>7. \A f \in {"Device", "Protocol"} : dTmp'[f] = dTmp[f] \/ f = dCh[c].file
  BY PublishOf DEF EditsTyped
<1>8. \A d \in Child : WritesAlone(d)'
  BY <1>2, <1>4, <1>6, <1>7, LeavesAlone
<1> QED
  BY <1>2, <1>3, <1>4, <1>8, PublishOf

\* The hub writes the device list and no temporary file.
LEMMA PutsBackAlone ==
  ASSUME Steadies, \A d \in Child : WritesAlone(d), NEW list, NEW name, D!PutsBack(list, name)
  PROVE  /\ \A d \in Child : WritesAlone(d)' /\ dCh'[d] = dCh[d]
<1>1. \A d \in Child : dCh'[d] = dCh[d]
  BY DEF WritesAlone, D!PutsBack
<1> QED
  BY <1>1 DEF WritesAlone, D!PutsBack

\* No child writes at the start.
LEMMA OneWriterInit == D!Init => OneWriter
<1> SUFFICES ASSUME D!Init PROVE OneWriter
  OBVIOUS
<1>1. \A c \in Child : dCh[c].pc = "idle" /\ dCh[c].on = "none"
  BY FreshSteady DEF D!Init
<1>2. \A f \in {"Device", "Protocol"} : D!Readable(dLive[f])
  BY Files DEF D!Init, D!Readable, D!Whole
<1> QED
  BY <1>1, <1>2 DEF OneWriter, WritesAlone

\* Every step keeps writers alone while none overlap.
LEMMA OneWriterNext ==
  Steadies /\ EditsTyped /\ OneWriter /\ [D!Next]_dVars => OneWriter'
<1> SUFFICES ASSUME Steadies, EditsTyped, OneWriter, [D!Next]_dVars, D!Free({"overlap", "flush"})'
             PROVE  /\ \A c \in Child : WritesAlone(c)'
                    /\ \A f \in {"Device", "Protocol"} : D!Readable(dLive'[f])
  BY DEF OneWriter
<1>1. D!Free({"overlap", "flush"}) /\ {"overlap", "flush"} \cap dMishaps' = {}
  BY MishapsStay DEF D!Free, dVars
<1>2. /\ \A c \in Child : WritesAlone(c)
      /\ \A f \in {"Device", "Protocol"} : D!Readable(dLive[f])
  BY <1>1 DEF OneWriter
<1>3. \A list : D!Readable(D!Whole(list))
  BY DEF D!Readable, D!Whole
<1>4. CASE UNCHANGED dVars
  BY <1>2, <1>4 DEF dVars, WritesAlone
<1>5. CASE \E c \in Child : Reads(c)
  BY <1>2, <1>5, ReadsAlone
<1>6. CASE \E c \in Child : D!Open(c)
  BY <1>1, <1>2, <1>6, OpensAlone
<1>7. CASE \E c \in Child : D!Write(c)
  BY <1>2, <1>7, WritesOnlyOwn
<1>8. CASE \E c \in Child : D!FlushFails(c)
  BY <1>1, <1>8 DEF D!FlushFails
<1>9. CASE \E c \in Child : D!WriteFails(c) \/ D!PublishFails(c)
  BY <1>2, <1>9, FailsAlone
<1>10. CASE \E c \in Child : D!Publish(c)
  BY <1>2, <1>3, <1>10, PublishesAlone DEF EditsTyped
<1>11. CASE D!SettingsSaved \/ D!SettingsUndone
  <2>1. PICK list, name : D!PutsBack(list, name)
    BY <1>11 DEF D!SettingsSaved, D!SettingsUndone
  <2>2. dLive' = [dLive EXCEPT !["Device"] = D!Whole(list)]
    BY <2>1 DEF D!PutsBack
  <2> QED
    BY <1>2, <1>3, <2>1, <2>2, PutsBackAlone DEF EditsTyped
<1>12. CASE Saves
  <2>1. UNCHANGED <<dCh, dLive, dTmp>>
    BY <1>12, SavesLeave
  <2> QED
    BY <1>2, <2>1 DEF WritesAlone
<1> QED
  BY <1>4, <1>5, <1>6, <1>7, <1>8, <1>9, <1>10, <1>11, <1>12 DEF D!Next, D!ChildStep, Reads,
     Saves

-----------------------------------------------------------------------------
(* The edits. *)

\* Two lists of the same ids have an id at the same place.
LEMMA SamePosition ==
  ASSUME NEW a \in Seq(Device), NEW b \in Seq(Device), Len(a) = Len(b),
         \A j \in 1 .. Len(a) : a[j].id = b[j].id, NEW id
  PROVE  D!Position(a, id) = D!Position(b, id) /\ D!Ids(a) = D!Ids(b)
<1>1. {i \in 1 .. Len(a) : a[i].id = id} = {i \in 1 .. Len(b) : b[i].id = id}
  OBVIOUS
<1>2. D!Position(a, id) = D!Position(b, id)
  BY <1>1 DEF D!Position, D!SelectInSeq
<1>3. D!Ids(a) = D!Ids(b)
  BY DEF D!Ids
<1> QED
  BY <1>2, <1>3

\* The fields of an entry.
LEMMA Fields ==
  \A a, b, c : /\ [id |-> a, label |-> b, cmds |-> c].id = a
               /\ [id |-> a, label |-> b, cmds |-> c].label = b
               /\ [id |-> a, label |-> b, cmds |-> c].cmds = c
OBVIOUS

\* The hub rewrites one label and nothing else of the list.
LEMMA LabelledOf ==
  ASSUME NEW list \in Seq(Device), NEW name \in Texts, dSave.id \in Nat
  PROVE  LET new == D!Labelled(list, name)
             i == D!Position(list, dSave.id)
         IN /\ new \in Seq(Device) /\ Len(new) = Len(list)
            /\ D!Position(new, dSave.id) = i /\ D!Ids(new) = D!Ids(list)
            /\ \A j \in 1 .. Len(list) :
                 new[j] = [id |-> list[j].id,
                           label |-> IF j = i /\ dSave.id \in D!Ids(list) THEN name ELSE list[j].label,
                           cmds |-> list[j].cmds]
<1> DEFINE r == [kind |-> "label", id |-> dSave.id, old |-> "none", name |-> name]
           new == D!Labelled(list, name)
           i == D!Position(list, dSave.id)
<1>1. "none" \in Texts /\ "label" \in D!EditKinds
  BY DevicesAssumption DEF D!EditKinds
<1>2. r \in EditRequest
  BY <1>1 DEF EditRequest
<1>3. r.kind = "label" /\ r.id = dSave.id /\ r.name = name
  OBVIOUS
<1>4. new = D!Edited(r, list)
  BY DEF D!Labelled
<1> HIDE DEF r, new, i
<1>5. \A cmds : D!Rewritten(r, cmds) = cmds
  BY <1>3 DEF D!Rewritten
<1>6. \A j \in 1 .. Len(list) :
        list[j] = [id |-> list[j].id, label |-> list[j].label, cmds |-> list[j].cmds]
  <2>1. \A j \in 1 .. Len(list) : list[j] \in Device
    OBVIOUS
  <2>2. \A e \in Device : e = [id |-> e.id, label |-> e.label, cmds |-> e.cmds]
    BY DEF Device
  <2> QED
    BY <2>1, <2>2
<1>7. /\ new \in Seq(Device) /\ Len(new) = Len(list)
      /\ \A j \in 1 .. Len(list) :
           new[j] = [id |-> list[j].id,
                     label |-> IF j = i /\ dSave.id \in D!Ids(list) THEN name ELSE list[j].label,
                     cmds |-> list[j].cmds]
  <2>1. CASE dSave.id \in D!Ids(list)
    BY <1>2, <1>3, <1>4, <1>5, <2>1, EditedOf DEF i
  <2>2. CASE dSave.id \notin D!Ids(list)
    <3>1. new = list
      BY <1>3, <1>4, <2>2 DEF D!Edited
    <3> QED
      BY <1>6, <2>2, <3>1
  <2> QED
    BY <2>1, <2>2
<1>8. \A j \in 1 .. Len(new) : new[j].id = list[j].id
  <2> SUFFICES ASSUME NEW j \in 1 .. Len(list) PROVE new[j].id = list[j].id
    BY <1>7
  <2> DEFINE label == IF j = i /\ dSave.id \in D!Ids(list) THEN name ELSE list[j].label
  <2>1. new[j] = [id |-> list[j].id, label |-> label, cmds |-> list[j].cmds]
    BY <1>7
  <2> HIDE DEF label
  <2> QED
    BY <2>1, Fields
<1>9. D!Position(new, dSave.id) = i /\ D!Ids(new) = D!Ids(list)
  BY <1>7, <1>8, SamePosition DEF i
<1> QED
  BY <1>7, <1>9 DEF new, i

\* Lists of the same entries are the same list.
LEMMA SameList ==
  ASSUME NEW a \in Seq(Device), NEW b \in Seq(Device), Len(a) = Len(b),
         \A j \in 1 .. Len(a) : a[j] = b[j]
  PROVE  a = b
OBVIOUS

\* Putting the old label back gives the old list.
LEMMA Unlabelled ==
  ASSUME NEW list \in Seq(Device), dSave.id \in Nat
  PROVE  LET label == list[D!Position(list, dSave.id)].label
         IN /\ D!Labelled(list, label) = list
            /\ D!Labelled(D!Labelled(list, "set"), label) = list
            /\ D!Labelled(list, "set") \in Seq(Device)
<1> DEFINE label == list[D!Position(list, dSave.id)].label
           i == D!Position(list, dSave.id)
           set == D!Labelled(list, "set")
<1>1. "set" \in Texts
  BY DevicesAssumption
<1>2. /\ set \in Seq(Device) /\ Len(set) = Len(list)
      /\ D!Position(set, dSave.id) = i /\ D!Ids(set) = D!Ids(list)
      /\ \A j \in 1 .. Len(list) :
           set[j] = [id |-> list[j].id,
                     label |-> IF j = i /\ dSave.id \in D!Ids(list) THEN "set" ELSE list[j].label,
                     cmds |-> list[j].cmds]
  BY <1>1, LabelledOf
<1>3. CASE dSave.id \notin D!Ids(list)
  <2>1. \A l, name : dSave.id \notin D!Ids(l) => D!Labelled(l, name) = l
    BY DEF D!Labelled, D!Edited
  <2>2. D!Labelled(list, label) = list
    BY <1>3, <2>1
  <2>3. set = list
    BY <1>3, <2>1
  <2> QED
    BY <1>2, <2>2, <2>3
<1>4. CASE dSave.id \in D!Ids(list)
  <2>1. i \in 1 .. Len(list)
    BY <1>4, PositionOf
  <2>2. \A j \in 1 .. Len(list) :
          /\ list[j].label \in Texts
          /\ list[j] = [id |-> list[j].id, label |-> list[j].label, cmds |-> list[j].cmds]
    <3>1. \A j \in 1 .. Len(list) : list[j] \in Device
      OBVIOUS
    <3>2. \A e \in Device :
            e.label \in Texts /\ e = [id |-> e.id, label |-> e.label, cmds |-> e.cmds]
      BY DEF Device
    <3> QED
      BY <3>1, <3>2
  <2>3. label \in Texts
    BY <2>1, <2>2
  <2> DEFINE one == D!Labelled(list, label)
             two == D!Labelled(set, label)
  <2>4. /\ one \in Seq(Device) /\ Len(one) = Len(list)
        /\ \A j \in 1 .. Len(list) :
             one[j] = [id |-> list[j].id,
                       label |-> IF j = i /\ dSave.id \in D!Ids(list) THEN label ELSE list[j].label,
                       cmds |-> list[j].cmds]
    BY <2>3, LabelledOf
  <2>5. /\ two \in Seq(Device) /\ Len(two) = Len(set)
        /\ \A j \in 1 .. Len(set) :
             two[j] = [id |-> set[j].id,
                       label |-> IF j = D!Position(set, dSave.id) /\ dSave.id \in D!Ids(set)
                                 THEN label ELSE set[j].label,
                       cmds |-> set[j].cmds]
    <3> HIDE DEF set, label
    <3> QED
      BY <1>2, <2>3, LabelledOf
  <2> HIDE DEF one, two, set
  <2>6. \A j \in 1 .. Len(list) : one[j] = list[j]
    BY <1>4, <2>1, <2>2, <2>4
  <2>7. \A j \in 1 .. Len(list) : two[j] = list[j]
    <3> SUFFICES ASSUME NEW j \in 1 .. Len(list) PROVE two[j] = list[j]
      OBVIOUS
    <3> DEFINE mine == IF j = i /\ dSave.id \in D!Ids(list) THEN "set" ELSE list[j].label
    <3>4. set[j] = [id |-> list[j].id, label |-> mine, cmds |-> list[j].cmds]
      BY <1>2
    <3>5. j # i => mine = list[j].label
      OBVIOUS
    <3> HIDE DEF mine
    <3>1. /\ set[j].id = list[j].id /\ set[j].cmds = list[j].cmds
          /\ j # i => set[j].label = list[j].label
      BY <3>4, <3>5, Fields
    <3>2. two[j] = [id |-> list[j].id, label |-> IF j = i THEN label ELSE list[j].label,
                    cmds |-> list[j].cmds]
      BY <1>2, <1>4, <2>5, <3>1
    <3>3. (IF j = i THEN label ELSE list[j].label) = list[j].label
      OBVIOUS
    <3> QED
      BY <2>2, <3>2, <3>3
  <2>8. one = list
    BY <2>4, <2>6, SameList
  <2>9. two = list
    BY <1>2, <2>5, <2>7, SameList
  <2> QED
    BY <1>2, <2>8, <2>9 DEF one, two, set
<1> QED
  BY <1>3, <1>4

\* Nothing was edited at the start.
LEMMA KeptInit == D!Init => NoEditLost
<1> SUFFICES ASSUME D!Init PROVE \A f \in D!Files : dLive[f].val = dWant[f]
  BY DEF NoEditLost, D!NoEditLost
<1>1. PICK lists \in FirstLists : dLive = [f \in D!Files |-> D!Whole(lists[f])] /\ dWant = lists
  BY DEF D!Init
<1>2. \A list : D!Whole(list).val = list
  BY DEF D!Whole
<1> QED
  BY <1>1, <1>2

\* A publication of a child that read what the file should hold is what the
\* answer promised, and so is that of an import, which replaces the list.
LEMMA IntendedOf ==
  ASSUME NEW c \in Child, Steady(dCh[c]), dCh[c].pc = "publish",
         dCh[c].req.kind \in {"restore", "bundle"} \/ dCh[c].seen.val = dWant[dCh[c].file]
  PROVE  D!Intended(c) = dCh[c].out
<1> DEFINE me == dCh[c]
<1>1. Made(me) /\ InStep(me) /\ me.pc \in Writing /\ me.file \in {"Device", "Protocol"}
  BY DEF Steady, Writing, EditChild
<1>2. CASE me.req.kind \in {"restore", "bundle"}
  BY <1>2 DEF D!Intended
<1>3. CASE me.req.kind \notin {"restore", "bundle"} /\ me.file = "Protocol"
  BY <1>1, <1>3 DEF D!Intended, Made, InStep, Changes
<1>4. CASE me.req.kind \notin {"restore", "bundle"} /\ me.file = "Device"
  <2>1. me.req.kind \in Changes \cup {"create"}
    BY <1>1, <1>4 DEF InStep
  <2>2. CASE me.req.kind = "create"
    BY <1>1, <1>4, <2>2 DEF D!Intended, Made
  <2>3. CASE me.req.kind \in Changes
    BY <1>1, <1>4, <2>3 DEF D!Intended, Made, Changes
  <2> QED
    BY <2>1, <2>2, <2>3
<1> QED
  BY <1>1, <1>2, <1>3, <1>4

\* Every step keeps the edits that were answered for.
LEMMA KeptNext == Steadies /\ EditsTyped /\ OneWriter /\ NoEditLost /\ [D!Next]_dVars => NoEditLost'
<1> SUFFICES ASSUME Steadies, EditsTyped, OneWriter, NoEditLost, [D!Next]_dVars,
                    D!Free({"overlap", "flush", "lost"})'
             PROVE  \A f \in {"Device", "Protocol"} : dLive'[f].val = dWant'[f]
  BY Files DEF NoEditLost, D!NoEditLost
<1>1. D!Free({"overlap", "flush", "lost"}) /\ {"overlap", "flush", "lost"} \cap dMishaps' = {}
  BY MishapsStay DEF D!Free, dVars
<1>2. /\ \A c \in Child : WritesAlone(c)
      /\ \A f \in {"Device", "Protocol"} : dLive[f].val = dWant[f]
  <2>1. D!Free({"overlap", "flush"})
    BY <1>1 DEF D!Free
  <2> QED
    BY <1>1, <2>1, Files DEF OneWriter, NoEditLost, D!NoEditLost
<1>3. \A list : D!Whole(list).val = list
  BY DEF D!Whole
<1>4. CASE UNCHANGED dVars
  BY <1>2, <1>4 DEF dVars
<1>5. CASE \E c \in Child : Reads(c)
  BY <1>2, <1>5, ReadsAlone
<1>6. CASE \E c \in Child : D!Open(c)
  BY <1>1, <1>2, <1>6, OpensAlone
<1>7. CASE \E c \in Child : D!Write(c)
  BY <1>2, <1>7, WritesOnlyOwn
<1>8. CASE \E c \in Child : D!FlushFails(c)
  BY <1>1, <1>8 DEF D!FlushFails
<1>9. CASE \E c \in Child : D!WriteFails(c) \/ D!PublishFails(c)
  BY <1>2, <1>9, FailsAlone
<1>10. CASE \E c \in Child : D!Publish(c)
  <2>1. PICK c \in Child : D!Publish(c)
    BY <1>10
  <2>2. Steady(dCh[c]) /\ dCh[c].pc = "publish" /\ dCh[c].file \in {"Device", "Protocol"}
    BY <2>1 DEF Steadies, Steady, EditChild, D!Publish
  <2>3. dCh[c].req.kind \in {"restore", "bundle"} \/ dCh[c].seen = dLive[dCh[c].file]
    BY <1>1, <2>1, PublishOf DEF D!Raced
  <2>4. D!Intended(c) = dCh[c].out
    BY <1>2, <2>2, <2>3, IntendedOf
  <2>5. dLive' = [dLive EXCEPT ![dCh[c].file] = D!Whole(dCh[c].out)]
    BY <1>2, <2>1, PublishesAlone
  <2>6. dWant' = [dWant EXCEPT ![dCh[c].file] = dCh[c].out]
    BY <2>1, <2>4, PublishOf
  <2> QED
    BY <1>2, <1>3, <2>2, <2>5, <2>6 DEF EditsTyped
<1>11. CASE D!SettingsSaved \/ D!SettingsUndone
  <2> DEFINE old == dSave.list.val
             label == old[D!Position(old, dSave.id)].label
  <2>1. old \in Seq(Device) /\ dSave.id \in Nat
    BY Files DEF EditsTyped, SaveRecord
  <2>2. /\ D!Labelled(old, label) = old
        /\ D!Labelled(D!Labelled(old, "set"), label) = old
    BY <2>1, Unlabelled
  <2>3. \A list, name : D!PutsBack(list, name) =>
          /\ dLive' = [dLive EXCEPT !["Device"] = D!Whole(list)]
          /\ dWant' = [dWant EXCEPT !["Device"] = D!Labelled(dWant["Device"], name)]
          /\ dSave.kind = "settings" => dSave.list = dLive["Device"]
          /\ dSave.kind # "settings" => D!Whole(D!Labelled(old, "set")) = dLive["Device"]
    BY <1>1 DEF D!PutsBack
  <2>4. \A list, name : D!PutsBack(list, name) /\ D!Labelled(dWant["Device"], name) = list
          => \A f \in {"Device", "Protocol"} : dLive'[f].val = dWant'[f]
    BY <1>2, <1>3, <2>3 DEF EditsTyped
  <2>5. CASE D!SettingsSaved
    <3>1. dSave.kind = "settings" /\ D!PutsBack(D!Labelled(old, "set"), "set")
      BY <2>5 DEF D!SettingsSaved
    <3>2. dWant["Device"] = old
      BY <1>2, <2>3, <3>1
    <3> QED
      BY <2>4, <3>1, <3>2
  <2>6. CASE D!SettingsUndone
    <3>1. D!PutsBack(old, label)
      BY <2>6 DEF D!SettingsUndone
    <3>2. dWant["Device"] = old \/ dWant["Device"] = D!Labelled(old, "set")
      BY <1>2, <1>3, <2>3, <3>1
    <3> HIDE DEF old, label
    <3> QED
      BY <2>2, <2>4, <3>1, <3>2
  <2> QED
    BY <1>11, <2>5, <2>6
<1>12. CASE Saves
  <2>1. UNCHANGED <<dLive, dWant>>
    BY <1>12, SavesLeave
  <2> QED
    BY <1>2, <2>1
<1> QED
  BY <1>4, <1>5, <1>6, <1>7, <1>8, <1>9, <1>10, <1>11, <1>12 DEF D!Next, D!ChildStep, Reads,
     Saves

\* While no two children wrote the same temporary file, no list was written from
\* one that had been replaced since it was read, and no flush failed unseen, both
\* files hold what the published edits make of them, in the order of the renames
\* of write_file_atomic: append_command_to_device reads the list once more.
THEOREM EditsAreKept == Spec => []NoEditLost
<1>1. Init => Steadies /\ EditsTyped /\ OneWriter /\ NoEditLost
  BY DeviceInit, OneWriterInit, KeptInit DEF Init
<1>2. Steadies /\ EditsTyped /\ OneWriter /\ NoEditLost /\ [Next]_vars
        => (Steadies /\ EditsTyped /\ OneWriter /\ NoEditLost)'
  BY DeviceSteps, DeviceNextTyped, OneWriterNext, KeptNext
<1> QED
  BY <1>1, <1>2, PTL DEF Spec
=============================================================================
