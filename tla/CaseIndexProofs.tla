--------------------------- MODULE CaseIndexProofs ---------------------------
(***************************************************************************)
(* Theorems about CaseIndex, for every set of examiners, files, names and  *)
(* contacts, any number of tag actions, damages and restarts.              *)
(***************************************************************************)
EXTENDS CaseIndex, FiniteSetTheorems, WellFoundedInduction, TLAPS

Labels == Names \cup {"Bookmark", "Report Export"}
Tag    == [id : Nat \ {0}, name : Labels, dflt : BOOLEAN]
Item   == [id : Nat, tag : Nat, file : Files \cup Reports]
Merge  == [primary : Contacts, merged : Contacts]
Tables == [tags : SUBSET Tag, items : SUBSET Item, merges : SUBSET Merge]

Numbered(S) ==
    /\ \A x, y \in S : x.id = y.id => x = y
    /\ \E n \in Nat : \A x \in S : x.id <= n

First  == [id |-> 1, name |-> "Bookmark", dflt |-> TRUE]
Second == [id |-> 2, name |-> "Report Export", dflt |-> TRUE]

(* Well-kept tables: ids and names belong to one row each, the tags the    *)
(* software comes with have kept their ids and names, and every item has   *)
(* its tag.                                                                *)
Whole(d) ==
    /\ d \in Tables
    /\ Numbered(d.tags) /\ Numbered(d.items)
    /\ \A t, u \in d.tags : t.name = u.name => t = u
    /\ \A i \in d.items : \E t \in d.tags : t.id = i.tag
    /\ First \in d.tags /\ Second \in d.tags

Fresh == [tags |-> {First, Second}, items |-> {}, merges |-> {}]

----------------------------------------------------------------------------
(* Numbers that are bounded have a largest one, so that the id of a new    *)
(* row is above all there are.                                             *)

LEMMA LeastBound ==
  ASSUME NEW T, T \subseteq Nat, T # {}
  PROVE  \E x \in T : \A y \in T : x <= y
  <1>1. \E x \in T : \A y \in T : ~ (<<y, x>> \in OpToRel(<, Nat))
    BY NatLessThanWellFounded, WFMin
  <1>2. PICK x \in T : \A y \in T : ~ (<<y, x>> \in OpToRel(<, Nat))
    BY <1>1
  <1>3. ASSUME NEW y \in T PROVE x <= y
    <2>1. y \in Nat /\ x \in Nat
      OBVIOUS
    <2>2. <<y, x>> \in Nat \X Nat
      BY <2>1
    <2>3. ~(y < x)
      BY <1>2, <2>1, <2>2 DEF OpToRel
    <2>4. QED BY <2>1, <2>3
  <1>4. QED BY <1>3

LEMMA LastIsThere ==
  ASSUME NEW S, \A x \in S : x.id \in Nat, Numbered(S)
  PROVE  /\ LastId(S) \in {0} \cup {x.id : x \in S}
         /\ \A x \in S : x.id <= LastId(S)
  <1> DEFINE Ns == {0} \cup {x.id : x \in S}
             T == {n \in Nat : \A x \in S : x.id <= n}
  <1>1. T \subseteq Nat /\ T # {}
    BY DEF Numbered
  <1>2. PICK n \in T : \A m \in T : n <= m
    BY <1>1, LeastBound
  <1>3. n \in Nat /\ \A x \in S : x.id <= n
    OBVIOUS
  <1>4. n \in Ns
    <2> SUFFICES ASSUME n \notin Ns PROVE FALSE
      OBVIOUS
    <2>1. n # 0 /\ \A x \in S : x.id # n
      OBVIOUS
    <2>2. n - 1 \in Nat /\ \A x \in S : x.id <= n - 1
      BY <1>3, <2>1
    <2>3. n - 1 \in T
      BY <2>2
    <2>4. QED BY <1>2, <1>3, <2>3
  <1>5. \E m \in Ns : \A x \in S : x.id <= m
    BY <1>3, <1>4
  <1>6. LastId(S) \in Ns /\ \A x \in S : x.id <= LastId(S)
    BY <1>5 DEF LastId
  <1>7. QED BY <1>6

LEMMA NextIsAbove ==
  ASSUME NEW S, \A x \in S : x.id \in Nat, Numbered(S)
  PROVE  /\ NextId(S) \in Nat \ {0}
         /\ \A x \in S : x.id < NextId(S)
  <1>1. LastId(S) \in Nat /\ \A x \in S : x.id <= LastId(S)
    BY LastIsThere
  <1>2. QED BY <1>1 DEF NextId

LEMMA AddNumbered ==
  ASSUME NEW S, \A x \in S : x.id \in Nat, Numbered(S),
         NEW e, e.id = NextId(S)
  PROVE  Numbered(S \cup {e})
  <1>1. e.id \in Nat /\ \A x \in S : x.id < e.id
    BY NextIsAbove
  <1>2. \A x \in S \cup {e} : x.id <= e.id
    BY <1>1
  <1>3. QED BY <1>1, <1>2 DEF Numbered

LEMMA FewerNumbered ==
  ASSUME NEW S, NEW R, R \subseteq S, Numbered(S)
  PROVE  Numbered(R)
  BY DEF Numbered

----------------------------------------------------------------------------
(* Opening the index.                                                      *)

LEMMA WholeTables ==
  ASSUME NEW d, Whole(d)
  PROVE  /\ d.tags \subseteq Tag /\ d.items \subseteq Item /\ d.merges \subseteq Merge
         /\ d = [tags |-> d.tags, items |-> d.items, merges |-> d.merges]
         /\ \A t \in d.tags : t.id \in Nat \ {0} /\ t.name \in Labels
         /\ \A i \in d.items : i.id \in Nat /\ i.tag \in Nat
         /\ Numbered(d.tags) /\ Numbered(d.items)
         /\ \A t, u \in d.tags : t.name = u.name \/ t.id = u.id => t = u
  <1>1. /\ d.tags \subseteq Tag /\ d.items \subseteq Item /\ d.merges \subseteq Merge
        /\ d = [tags |-> d.tags, items |-> d.items, merges |-> d.merges]
    BY DEF Whole, Tables
  <1>2. /\ \A t \in d.tags : t.id \in Nat \ {0} /\ t.name \in Labels
        /\ \A i \in d.items : i.id \in Nat /\ i.tag \in Nat
    BY <1>1 DEF Tag, Item
  <1>3. QED BY <1>1, <1>2 DEF Whole, Numbered

LEMMA EmptyNumbered == Numbered({}) /\ NextId({}) = 1
  <1>1. LastId({}) = 0
    <2>1. \E m \in {0} \cup {x.id : x \in {}} : \A x \in {} : x.id <= m
      OBVIOUS
    <2>2. LastId({}) \in {0} \cup {x.id : x \in {}}
      BY <2>1 DEF LastId
    <2>3. QED BY <2>2
  <1>2. 0 \in Nat /\ \A x \in {} : x.id <= 0
    OBVIOUS
  <1>3. QED BY <1>1, <1>2 DEF NextId, Numbered

LEMMA TheDefaults ==
  /\ First.id = 1 /\ First.name = "Bookmark"
  /\ Second.id = 2 /\ Second.name = "Report Export"
  /\ First.name # Second.name /\ First.id # Second.id
  BY DEF First, Second

LEMMA FreshFields == Fresh.tags = {First, Second} /\ Fresh.items = {} /\ Fresh.merges = {}
  BY DEF Fresh

LEMMA FreshIsWhole == Whole(Fresh)
  <1>1. First \in Tag /\ Second \in Tag
    BY DEF First, Second, Tag, Labels
  <1>2. Fresh \in Tables
    BY <1>1 DEF Fresh, Tables
  <1>3. Numbered({First, Second})
    <2>1. \A x \in {First, Second} : x.id = 1 \/ x.id = 2
      BY TheDefaults
    <2>2. ASSUME NEW x \in {First, Second} PROVE x.id <= 2
      <3>1. CASE x.id = 1
        BY <3>1
      <3>2. CASE x.id = 2
        BY <3>2
      <3>3. QED BY <2>1, <3>1, <3>2
    <2>3. \E n \in Nat : \A x \in {First, Second} : x.id <= n
      BY <2>2
    <2>4. \A x, y \in {First, Second} : x.id = y.id => x = y
      BY TheDefaults
    <2>5. QED BY <2>3, <2>4 DEF Numbered
  <1>4. \A t, u \in {First, Second} : t.name = u.name => t = u
    BY TheDefaults
  <1>5. QED BY <1>2, <1>3, <1>4, FreshFields, EmptyNumbered DEF Whole

LEMMA SeedingANewFile ==
  ASSUME seeds = 2
  PROVE  Seeded(Empty) = Fresh
  <1>1. WithTag({}, "Bookmark", TRUE) = {First}
    BY EmptyNumbered DEF WithTag, Named, First
  <1>2. NextId({First}) = 2
    <2>1. {x.id : x \in {First}} = {1}
      BY TheDefaults
    <2>2. ASSUME NEW m \in {0, 1} PROVE (\A x \in {First} : x.id <= m) <=> m = 1
      <3>1. (\A x \in {First} : x.id <= m) <=> 1 <= m
        BY TheDefaults
      <3>2. QED BY <3>1
    <2>3. {0} \cup {x.id : x \in {First}} = {0, 1}
      BY <2>1
    <2>4. LastId({First}) \in {0, 1} /\ \A x \in {First} : x.id <= LastId({First})
      <3>1. \E m \in {0} \cup {x.id : x \in {First}} : \A x \in {First} : x.id <= m
        BY <2>2, <2>3
      <3>2. QED BY <2>3, <3>1 DEF LastId
    <2>5. LastId({First}) = 1
      BY <2>2, <2>4
    <2>6. QED BY <2>5 DEF NextId
  <1>3. WithTag({First}, "Report Export", TRUE) = {First, Second}
    <2>1. Named({First}, "Report Export") = {}
      BY TheDefaults DEF Named
    <2>2. QED BY <1>2, <2>1 DEF WithTag, Second
  <1>4. Defaults[1] = "Bookmark" /\ Defaults[2] = "Report Export"
    BY DEF Defaults
  <1>5. Empty.tags = {}
    BY DEF Empty
  <1>6. Seeded(Empty) = [Empty EXCEPT !.tags = {First, Second}]
    BY <1>1, <1>3, <1>4, <1>5 DEF Seeded
  <1>7. QED BY <1>6 DEF Empty, Fresh

LEMMA SeedingAWholeOne ==
  ASSUME NEW d, Whole(d), seeds = 2
  PROVE  Seeded(d) = d
  <1>1. Named(d.tags, "Bookmark") # {} /\ Named(d.tags, "Report Export") # {}
    BY TheDefaults DEF Whole, Named
  <1>2. WithTag(d.tags, "Bookmark", TRUE) = d.tags /\ WithTag(d.tags, "Report Export", TRUE) = d.tags
    BY <1>1 DEF WithTag
  <1>3. Defaults[1] = "Bookmark" /\ Defaults[2] = "Report Export"
    BY DEF Defaults
  <1>4. Seeded(d) = [d EXCEPT !.tags = d.tags]
    BY <1>2, <1>3 DEF Seeded
  <1>5. QED BY <1>4, WholeTables

----------------------------------------------------------------------------
(* What the tables say, row by row.                                        *)

ShownBy(d, x) ==
    \/ \E i \in d.items : \E t \in d.tags : i.tag = t.id /\ x = <<i.file, t.name>>
    \/ \E m \in d.merges : x = <<m.primary, m.merged>>

LEMMA DecisionsAre ==
  ASSUME NEW d, NEW x
  PROVE  x \in Decisions(d) <=> ShownBy(d, x)
  <1>1. ASSUME NEW i \in d.items, NEW t \in d.tags, i.tag = t.id
        PROVE  <<i.file, t.name>> \in Decisions(d)
    <2>1. <<i, t>> \in {q \in d.items \X d.tags : q[1].tag = q[2].id}
      BY <1>1
    <2>2. QED BY <2>1 DEF Decisions
  <1>2. ASSUME NEW m \in d.merges PROVE <<m.primary, m.merged>> \in Decisions(d)
    BY DEF Decisions
  <1>3. ASSUME x \in Decisions(d) PROVE ShownBy(d, x)
    BY <1>3 DEF Decisions, ShownBy
  <1>4. QED BY <1>1, <1>2, <1>3 DEF ShownBy

LEMMA NewTags ==
  ASSUME NEW d, Whole(d), NEW T
  PROVE  [d EXCEPT !.tags = T] = [tags |-> T, items |-> d.items, merges |-> d.merges]
  BY WholeTables

LEMMA NewItems ==
  ASSUME NEW d, Whole(d), NEW I
  PROVE  [d EXCEPT !.items = I] = [tags |-> d.tags, items |-> I, merges |-> d.merges]
  BY WholeTables

LEMMA NewTagsAndItems ==
  ASSUME NEW d, Whole(d), NEW T, NEW I
  PROVE  [d EXCEPT !.tags = T, !.items = I] = [tags |-> T, items |-> I, merges |-> d.merges]
  <1>1. [d EXCEPT !.tags = T, !.items = I] = [[d EXCEPT !.tags = T] EXCEPT !.items = I]
    OBVIOUS
  <1>2. [d EXCEPT !.tags = T] = [tags |-> T, items |-> d.items, merges |-> d.merges]
    BY NewTags
  <1>3. [[tags |-> T, items |-> d.items, merges |-> d.merges] EXCEPT !.items = I]
        = [tags |-> T, items |-> I, merges |-> d.merges]
    OBVIOUS
  <1>4. QED BY <1>1, <1>2, <1>3

LEMMA NewMerges ==
  ASSUME NEW d, Whole(d), NEW M
  PROVE  [d EXCEPT !.merges = M] = [tags |-> d.tags, items |-> d.items, merges |-> M]
  BY WholeTables

(* A new tag takes over nobody's items.                                    *)
LEMMA AddTag ==
  ASSUME NEW d, Whole(d), NEW n \in Labels, NEW b \in BOOLEAN
  PROVE  /\ Whole([d EXCEPT !.tags = WithTag(@, n, b)])
         /\ Decisions([d EXCEPT !.tags = WithTag(@, n, b)]) = Decisions(d)
         /\ \E t \in WithTag(d.tags, n, b) : t.name = n
         /\ d.tags \subseteq WithTag(d.tags, n, b)
  <1> DEFINE T == WithTag(d.tags, n, b)
             e == [tags |-> T, items |-> d.items, merges |-> d.merges]
             new == [id |-> NextId(d.tags), name |-> n, dflt |-> b]
  <1>0. [d EXCEPT !.tags = WithTag(@, n, b)] = e
    BY NewTags
  <1>1. CASE Named(d.tags, n) # {}
    <2>1. T = d.tags
      BY <1>1 DEF WithTag
    <2>2. e = d
      BY <2>1, WholeTables
    <2>3. \E t \in T : t.name = n
      BY <1>1, <2>1 DEF Named
    <2>4. QED BY <1>0, <2>1, <2>2, <2>3
  <1>2. CASE Named(d.tags, n) = {}
    <2>1. T = d.tags \cup {new}
      BY <1>2 DEF WithTag
    <2>2. /\ new.id = NextId(d.tags) /\ new.name = n
          /\ NextId(d.tags) \in Nat \ {0} /\ \A t \in d.tags : t.id \in Nat /\ t.id < NextId(d.tags)
      BY WholeTables, NextIsAbove
    <2>3. new \in Tag
      BY <2>2 DEF Tag
    <2> HIDE DEF new
    <2>4. Numbered(T)
      <3>1. Numbered(d.tags) /\ \A t \in d.tags : t.id \in Nat
        BY WholeTables
      <3>2. Numbered(d.tags \cup {new})
        BY <2>2, <3>1, AddNumbered
      <3>3. QED BY <2>1, <3>2
    <2>5. \A t \in d.tags : t.name # n
      BY <1>2 DEF Named
    <2>6. e \in Tables
      BY <2>1, <2>3, WholeTables DEF Tables
    <2>7. \A i \in d.items : i.tag # new.id
      <3> SUFFICES ASSUME NEW i \in d.items, i.tag = new.id PROVE FALSE
        OBVIOUS
      <3>1. PICK t \in d.tags : t.id = i.tag
        BY DEF Whole
      <3>2. t.id \in Nat /\ t.id < NextId(d.tags) /\ t.id = NextId(d.tags)
        BY <2>2, <3>1
      <3>3. QED BY <3>2, <2>2
    <2>8. Whole(e)
      <3>1. \A t, u \in T : t.name = u.name => t = u
        BY <2>1, <2>2, <2>5, WholeTables
      <3>2. /\ First \in T /\ Second \in T
            /\ \A i \in d.items : \E t \in T : t.id = i.tag
        BY <2>1 DEF Whole
      <3>3. QED BY <2>4, <2>6, <3>1, <3>2, WholeTables DEF Whole
    <2>9. \A x : ShownBy(e, x) <=> ShownBy(d, x)
      BY <2>1, <2>7 DEF ShownBy
    <2>10. Decisions(e) = Decisions(d)
      <3>1. \A x : x \in Decisions(e) <=> x \in Decisions(d)
        BY <2>9, DecisionsAre
      <3>2. QED BY <3>1
    <2>11. QED BY <1>0, <2>1, <2>2, <2>8, <2>10
  <1>3. QED BY <1>1, <1>2

----------------------------------------------------------------------------
(* What each change does to the tables, and to what they say.              *)

Without(S, N) == {x \in S : x[2] \notin N}
Relabelled(S, N, n) == {IF x[2] \in N THEN <<x[1], n>> ELSE x : x \in S}
Separated(S, c) == {x \in S : x[2] # c}

LEMMA Sorts == ASSUME NEW c \in Contacts PROVE c \notin Labels
  BY IndexAssumption DEF Labels

LEMMA NamesAre ==
  ASSUME NEW d, Whole(d), NEW t \in d.tags
  PROVE  NameOf(d, t.id) = {t.name}
  BY WholeTables DEF NameOf

LEMMA TagItem ==
  ASSUME NEW d, Whole(d), NEW f \in Files \cup Reports, NEW t \in d.tags
  PROVE  /\ Whole(Tagged(d, f, t.id))
         /\ Tagged(d, f, t.id).tags = d.tags /\ Tagged(d, f, t.id).merges = d.merges
         /\ Decisions(Tagged(d, f, t.id)) = Decisions(d) \cup {<<f, t.name>>}
  <1> DEFINE new == [id |-> NextId(d.items), tag |-> t.id, file |-> f]
             e == [tags |-> d.tags, items |-> d.items \cup {new}, merges |-> d.merges]
  <1>1. CASE \E i \in d.items : i.tag = t.id /\ i.file = f
    <2>1. Tagged(d, f, t.id) = d
      BY <1>1 DEF Tagged
    <2>2. <<f, t.name>> \in Decisions(d)
      BY <1>1, DecisionsAre DEF ShownBy
    <2>3. QED BY <2>1, <2>2
  <1>2. CASE ~ \E i \in d.items : i.tag = t.id /\ i.file = f
    <2>1. Tagged(d, f, t.id) = e
      BY <1>2, NewItems DEF Tagged
    <2>2. /\ NextId(d.items) \in Nat
          /\ new.id = NextId(d.items) /\ new.tag = t.id /\ new.file = f
      BY WholeTables, NextIsAbove
    <2>3. new \in Item
      BY <2>2, WholeTables DEF Item
    <2> HIDE DEF new
    <2>4. Numbered(d.items \cup {new})
      <3>1. Numbered(d.items) /\ \A i \in d.items : i.id \in Nat
        BY WholeTables
      <3>2. QED BY <2>2, <3>1, AddNumbered
    <2>5. e \in Tables
      BY <2>3, WholeTables DEF Tables
    <2>6. Whole(e)
      BY <2>2, <2>4, <2>5, WholeTables DEF Whole
    <2>7. \A x : ShownBy(e, x) <=> ShownBy(d, x) \/ x = <<f, t.name>>
      BY <2>2, WholeTables DEF ShownBy
    <2>8. Decisions(e) = Decisions(d) \cup {<<f, t.name>>}
      <3>1. \A x : x \in Decisions(e) <=> x \in Decisions(d) \/ x = <<f, t.name>>
        BY <2>7, DecisionsAre
      <3>2. QED BY <3>1
    <2>9. e.tags = d.tags /\ e.merges = d.merges
      OBVIOUS
    <2> HIDE DEF e
    <2>10. QED BY <2>1, <2>6, <2>8, <2>9
  <1>3. QED BY <1>1, <1>2

LEMMA UntagItem ==
  ASSUME NEW d, Whole(d), NEW f, NEW id
  PROVE  LET e == Untagged(d, f, id)
         IN  /\ Whole(e) /\ e.merges = d.merges
             /\ Decisions(e) = Decisions(d) \ ({f} \X NameOf(d, id))
  <1> DEFINE I == {i \in d.items : i.tag # id \/ i.file # f}
             e == [tags |-> d.tags, items |-> I, merges |-> d.merges]
  <1>0. Untagged(d, f, id) = e
    BY NewItems DEF Untagged
  <1>1. e = [tags |-> d.tags, items |-> I, merges |-> d.merges]
    OBVIOUS
  <1>2. e.tags = d.tags /\ e.items = I /\ e.merges = d.merges
    OBVIOUS
  <1> HIDE DEF e
  <1>3. I \subseteq d.items
    OBVIOUS
  <1>4. Numbered(I)
    BY <1>3, WholeTables, FewerNumbered
  <1>5. e \in Tables
    BY <1>1, <1>3, WholeTables DEF Tables
  <1>6. Whole(e)
    BY <1>2, <1>3, <1>4, <1>5, WholeTables DEF Whole
  <1>7. ASSUME NEW x, ShownBy(d, x), x \notin {f} \X NameOf(d, id) PROVE ShownBy(e, x)
    BY <1>2, <1>7 DEF ShownBy, NameOf
  <1>8. ASSUME NEW x, ShownBy(e, x) PROVE ShownBy(d, x) /\ x \notin {f} \X NameOf(d, id)
    <2>1. CASE \E m \in d.merges : x = <<m.primary, m.merged>>
      <3>1. PICK m \in d.merges : x = <<m.primary, m.merged>>
        BY <2>1
      <3>2. m.merged \notin Labels
        BY WholeTables, Sorts DEF Merge
      <3>3. NameOf(d, id) \subseteq Labels
        BY WholeTables DEF NameOf
      <3>4. QED BY <3>1, <3>2, <3>3 DEF ShownBy
    <2>2. CASE \E i \in I : \E t \in d.tags : i.tag = t.id /\ x = <<i.file, t.name>>
      <3>1. PICK i \in I, t \in d.tags : i.tag = t.id /\ x = <<i.file, t.name>>
        BY <2>2
      <3>2. ASSUME i.file = f, t.name \in NameOf(d, id) PROVE FALSE
        <4>1. PICK u \in d.tags : u.id = id /\ u.name = t.name
          BY <3>2 DEF NameOf
        <4>2. u = t
          BY <4>1, WholeTables
        <4>3. QED BY <3>1, <3>2, <4>1, <4>2
      <3>3. QED BY <3>1, <3>2 DEF ShownBy
    <2>3. QED BY <1>2, <1>8, <2>1, <2>2 DEF ShownBy
  <1>9. \A x : x \in Decisions(e) <=> x \in Decisions(d) /\ x \notin {f} \X NameOf(d, id)
    BY <1>7, <1>8, DecisionsAre
  <1>10. QED BY <1>0, <1>2, <1>6, <1>9

LEMMA DeleteTag ==
  ASSUME NEW d, Whole(d), NEW id, \A t \in d.tags : t.id = id => ~t.dflt
  PROVE  LET e == Deleted(d, id)
         IN  /\ Whole(e) /\ e.merges = d.merges
             /\ Decisions(e) = Without(Decisions(d), NameOf(d, id))
  <1> DEFINE T == {t \in d.tags : t.id # id}
             I == {i \in d.items : i.tag # id}
             e == [tags |-> T, items |-> I, merges |-> d.merges]
  <1>0. Deleted(d, id) = e
    BY NewTagsAndItems DEF Deleted
  <1>1. e = [tags |-> T, items |-> I, merges |-> d.merges]
    OBVIOUS
  <1>2. e.tags = T /\ e.items = I /\ e.merges = d.merges
    OBVIOUS
  <1> HIDE DEF e
  <1>3. T \subseteq d.tags /\ I \subseteq d.items
    OBVIOUS
  <1>4. Numbered(T) /\ Numbered(I)
    BY <1>3, WholeTables, FewerNumbered
  <1>5. e \in Tables
    BY <1>1, <1>3, WholeTables DEF Tables
  <1>6. First \in T /\ Second \in T
    <2>1. First \in d.tags /\ Second \in d.tags
      BY DEF Whole
    <2>2. First.dflt = TRUE /\ Second.dflt = TRUE
      BY DEF First, Second
    <2>3. QED BY <2>1, <2>2
  <1>7. \A i \in I : \E t \in T : t.id = i.tag
    BY DEF Whole
  <1>8. Whole(e)
    BY <1>2, <1>3, <1>4, <1>5, <1>6, <1>7, WholeTables DEF Whole
  <1>9. ASSUME NEW x, ShownBy(d, x), x[2] \notin NameOf(d, id) PROVE ShownBy(e, x)
    BY <1>2, <1>9 DEF ShownBy, NameOf
  <1>10. ASSUME NEW x, ShownBy(e, x) PROVE ShownBy(d, x) /\ x[2] \notin NameOf(d, id)
    <2>1. CASE \E m \in d.merges : x = <<m.primary, m.merged>>
      <3>1. PICK m \in d.merges : x = <<m.primary, m.merged>>
        BY <2>1
      <3>2. m.merged \notin Labels
        BY WholeTables, Sorts DEF Merge
      <3>3. NameOf(d, id) \subseteq Labels
        BY WholeTables DEF NameOf
      <3>4. QED BY <3>1, <3>2, <3>3 DEF ShownBy
    <2>2. CASE \E i \in I : \E t \in T : i.tag = t.id /\ x = <<i.file, t.name>>
      <3>1. PICK i \in I, t \in T : i.tag = t.id /\ x = <<i.file, t.name>>
        BY <2>2
      <3>2. t.name \notin NameOf(d, id)
        BY <3>1, WholeTables DEF NameOf
      <3>3. QED BY <3>1, <3>2 DEF ShownBy
    <2>3. QED BY <1>2, <1>10, <2>1, <2>2 DEF ShownBy
  <1>11. \A x : x \in Decisions(e) <=> x \in Decisions(d) /\ x[2] \notin NameOf(d, id)
    BY <1>9, <1>10, DecisionsAre
  <1>12. QED BY <1>0, <1>2, <1>8, <1>11 DEF Without

LEMMA RenameTag ==
  ASSUME NEW d, Whole(d), NEW id, NEW n \in Names,
         \A t \in d.tags : IF t.id = id THEN ~t.dflt ELSE t.name # n
  PROVE  LET e == Renamed(d, id, n)
         IN  /\ Whole(e) /\ e.merges = d.merges
             /\ Decisions(e) = Relabelled(Decisions(d), NameOf(d, id), n)
             /\ "Report Export" \notin NameOf(d, id)
  <1> DEFINE R(t) == IF t.id = id THEN [t EXCEPT !.name = n] ELSE t
             T == {R(t) : t \in d.tags}
             e == [tags |-> T, items |-> d.items, merges |-> d.merges]
  <1>0. Renamed(d, id, n) = e
    BY NewTags DEF Renamed
  <1>1. e = [tags |-> T, items |-> d.items, merges |-> d.merges]
    OBVIOUS
  <1>2. e.tags = T /\ e.items = d.items /\ e.merges = d.merges
    OBVIOUS
  <1> HIDE DEF e
  <1>3. ASSUME NEW t \in d.tags
        PROVE  /\ R(t) \in Tag /\ R(t).id = t.id
               /\ R(t).name = IF t.id = id THEN n ELSE t.name
               /\ t.id # id => R(t) = t
    <2>1. t \in Tag /\ n \in Labels
      BY WholeTables DEF Labels
    <2>2. [t EXCEPT !.name = n] \in Tag
      BY <2>1 DEF Tag
    <2>3. [t EXCEPT !.name = n].id = t.id /\ [t EXCEPT !.name = n].name = n
      BY <2>1 DEF Tag
    <2>4. QED BY <2>1, <2>2, <2>3
  <1>4. First \in d.tags /\ Second \in d.tags /\ First.id # id /\ Second.id # id
    <2>1. First \in d.tags /\ Second \in d.tags
      BY DEF Whole
    <2>2. First.dflt = TRUE /\ Second.dflt = TRUE
      BY DEF First, Second
    <2>3. QED BY <2>1, <2>2
  <1>5. First \in T /\ Second \in T
    BY <1>3, <1>4
  <1> HIDE DEF R
  <1>6. Numbered(T)
    <2>1. PICK k \in Nat : \A t \in d.tags : t.id <= k
      BY WholeTables DEF Numbered
    <2>2. \A t \in T : t.id <= k
      BY <1>3, <2>1
    <2>3. \A t, u \in T : t.id = u.id => t = u
      BY <1>3, WholeTables
    <2>4. QED BY <2>2, <2>3 DEF Numbered
  <1>7. T \subseteq Tag
    BY <1>3
  <1>8. e \in Tables
    BY <1>1, <1>7, WholeTables DEF Tables
  <1>9. \A t, u \in d.tags : R(t).name = R(u).name => t = u
    BY <1>3, WholeTables
  <1>10. \A i \in d.items : \E t \in T : t.id = i.tag
    BY <1>3 DEF Whole
  <1>11. Whole(e)
    <2>1. \A t, u \in T : t.name = u.name => t = u
      BY <1>9
    <2>2. Numbered(d.items)
      BY WholeTables
    <2> HIDE DEF T
    <2>3. QED BY <1>2, <1>5, <1>6, <1>8, <1>10, <2>1, <2>2 DEF Whole
  <1>12. ASSUME NEW t \in d.tags
         PROVE  t.name \in NameOf(d, id) <=> t.id = id
    BY WholeTables DEF NameOf
  <1>13. "Report Export" \notin NameOf(d, id)
    BY <1>4, <1>12, TheDefaults
  <1>14. ASSUME NEW m \in d.merges PROVE m.merged \notin NameOf(d, id)
    <2>1. m.merged \notin Labels
      BY WholeTables, Sorts DEF Merge
    <2>2. NameOf(d, id) \subseteq Labels
      BY WholeTables DEF NameOf
    <2>3. QED BY <2>1, <2>2
  <1> DEFINE F(x) == IF x[2] \in NameOf(d, id) THEN <<x[1], n>> ELSE x
  <1>15. ASSUME NEW i \in d.items, NEW t \in d.tags, i.tag = t.id
         PROVE  F(<<i.file, t.name>>) = <<i.file, R(t).name>>
    BY <1>3, <1>12
  <1>16. ASSUME NEW m \in d.merges PROVE F(<<m.primary, m.merged>>) = <<m.primary, m.merged>>
    BY <1>14
  <1> HIDE DEF F
  <1>17. ASSUME NEW y, ShownBy(e, y) PROVE \E x : ShownBy(d, x) /\ y = F(x)
    <2>1. CASE \E m \in d.merges : y = <<m.primary, m.merged>>
      BY <2>1, <1>16 DEF ShownBy
    <2>2. CASE \E i \in d.items : \E t \in T : i.tag = t.id /\ y = <<i.file, t.name>>
      <3>1. PICK i \in d.items, u \in T : i.tag = u.id /\ y = <<i.file, u.name>>
        BY <2>2
      <3>2. PICK t \in d.tags : u = R(t)
        OBVIOUS
      <3>3. i.tag = t.id
        BY <1>3, <3>1, <3>2
      <3>4. y = F(<<i.file, t.name>>)
        BY <1>15, <3>1, <3>2, <3>3
      <3>5. QED BY <3>3, <3>4 DEF ShownBy
    <2>3. QED BY <1>2, <1>17, <2>1, <2>2 DEF ShownBy
  <1>18. ASSUME NEW x, ShownBy(d, x) PROVE ShownBy(e, F(x))
    <2>1. CASE \E m \in d.merges : x = <<m.primary, m.merged>>
      BY <2>1, <1>2, <1>16 DEF ShownBy
    <2>2. CASE \E i \in d.items : \E t \in d.tags : i.tag = t.id /\ x = <<i.file, t.name>>
      <3>1. PICK i \in d.items, t \in d.tags : i.tag = t.id /\ x = <<i.file, t.name>>
        BY <2>2
      <3>2. F(x) = <<i.file, R(t).name>> /\ R(t) \in T /\ i.tag = R(t).id
        BY <1>3, <1>15, <3>1
      <3>3. QED BY <1>2, <3>2 DEF ShownBy
    <2>3. QED BY <1>18, <2>1, <2>2 DEF ShownBy
  <1>19. Decisions(e) = {F(x) : x \in Decisions(d)}
    BY <1>17, <1>18, DecisionsAre
  <1>20. QED BY <1>0, <1>2, <1>11, <1>13, <1>19 DEF F, Relabelled

LEMMA MergeContacts ==
  ASSUME NEW d, Whole(d), NEW m \in Merge
  PROVE  LET e == [d EXCEPT !.merges = @ \cup {m}]
         IN  /\ Whole(e) /\ e.merges = d.merges \cup {m}
             /\ Decisions(e) = Decisions(d) \cup {<<m.primary, m.merged>>}
  <1> DEFINE e == [tags |-> d.tags, items |-> d.items, merges |-> d.merges \cup {m}]
  <1>1. [d EXCEPT !.merges = @ \cup {m}] = e
    BY NewMerges
  <1>2. e.tags = d.tags /\ e.items = d.items /\ e.merges = d.merges \cup {m}
    OBVIOUS
  <1>3. e \in Tables
    BY WholeTables DEF Tables
  <1> HIDE DEF e
  <1>4. Whole(e)
    BY <1>2, <1>3 DEF Whole
  <1>5. \A x : ShownBy(e, x) <=> ShownBy(d, x) \/ x = <<m.primary, m.merged>>
    BY <1>2 DEF ShownBy
  <1>6. \A x : x \in Decisions(e) <=> x \in Decisions(d) \/ x = <<m.primary, m.merged>>
    BY <1>5, DecisionsAre
  <1>7. QED BY <1>1, <1>2, <1>4, <1>6

LEMMA UnmergeContacts ==
  ASSUME NEW d, Whole(d), NEW c \in Contacts
  PROVE  LET e == [d EXCEPT !.merges = {m \in @ : m.merged # c}]
         IN  /\ Whole(e) /\ e.merges = {m \in d.merges : m.merged # c}
             /\ Decisions(e) = Separated(Decisions(d), c)
  <1> DEFINE M == {m \in d.merges : m.merged # c}
             e == [tags |-> d.tags, items |-> d.items, merges |-> M]
  <1>1. [d EXCEPT !.merges = {m \in @ : m.merged # c}] = e
    BY NewMerges
  <1>2. e.tags = d.tags /\ e.items = d.items /\ e.merges = M
    OBVIOUS
  <1>3. e \in Tables
    BY WholeTables DEF Tables
  <1> HIDE DEF e
  <1>4. Whole(e)
    BY <1>2, <1>3 DEF Whole
  <1>5. \A t \in d.tags : t.name # c
    BY WholeTables, Sorts
  <1>6. \A x : ShownBy(e, x) <=> ShownBy(d, x) /\ x[2] # c
    BY <1>2, <1>5 DEF ShownBy
  <1>7. \A x : x \in Decisions(e) <=> x \in Decisions(d) /\ x[2] # c
    BY <1>6, DecisionsAre
  <1>8. QED BY <1>1, <1>2, <1>4, <1>7 DEF Separated

LEMMA RestoringAFreshOne ==
  ASSUME NEW b, Whole(b)
  PROVE  Restored(Fresh, b) = b
  <1>1. Ids({First, Second}) = {1, 2} /\ Ids({}) = {}
    BY TheDefaults DEF Ids
  <1>2. First \in b.tags /\ Second \in b.tags
    BY DEF Whole
  <1>3. \A t \in b.tags : t.id = 1 => t = First
    BY <1>2, WholeTables, TheDefaults
  <1>4. \A t \in b.tags : t.id = 2 => t = Second
    BY <1>2, WholeTables, TheDefaults
  <1>5. {First, Second} \cup {t \in b.tags : t.id \notin {1, 2}} = b.tags
    BY <1>2, <1>3, <1>4
  <1>6. /\ Fresh.tags \cup {t \in b.tags : t.id \notin Ids(Fresh.tags)} = b.tags
        /\ Fresh.items \cup {i \in b.items : i.id \notin Ids(Fresh.items)} = b.items
        /\ Fresh.merges \cup {m \in b.merges : \A n \in Fresh.merges : n.merged # m.merged} = b.merges
    BY <1>1, <1>5, FreshFields
  <1>7. Restored(Fresh, b) = [tags |-> b.tags, items |-> b.items, merges |-> b.merges]
    BY <1>6 DEF Restored
  <1>8. QED BY <1>7, WholeTables

(* The requests that reach the commit, and what one does to a set of       *)
(* decisions.                                                              *)
Doable == [op : {"tag", "untag"}, file : Files, id : Nat] \cup TagChange \cup Merging

Updated(D, d, w) ==
    CASE w.op = "tag"     -> D \cup ({w.file} \X NameOf(d, w.id))
      [] w.op = "untag"   -> D \ ({w.file} \X NameOf(d, w.id))
      [] w.op = "delete"  -> Without(D, NameOf(d, w.id))
      [] w.op = "rename"  -> Relabelled(D, NameOf(d, w.id), w.name)
      [] w.op = "merge"   -> D \cup {<<w.primary, w.merged>>}
      [] w.op = "unmerge" -> Separated(D, w.merged)
      [] OTHER -> D

LEMMA WantedIsUpdated ==
  ASSUME NEW d, NEW w
  PROVE  Wanted(d, w) = Updated(wanted, d, w)
  BY DEF Wanted, Updated, Without, Relabelled, Separated

LEMMA Requests ==
  ASSUME NEW w \in Doable
  PROVE  \/ w.op = "tag" /\ w.file \in Files /\ w.id \in Nat
         \/ w.op = "untag" /\ w.file \in Files /\ w.id \in Nat
         \/ w.op = "create" /\ w.name \in Names
         \/ w.op = "delete"
         \/ w.op = "rename" /\ w.name \in Names
         \/ w.op = "merge" /\ w.primary \in Contacts /\ w.merged \in Contacts /\ w.primary # w.merged
         \/ w.op = "unmerge" /\ w.merged \in Contacts
  BY DEF Doable, TagChange, Merging

LEMMA Changes ==
  ASSUME NEW d, Whole(d), NEW w \in Doable, Unique(d, w), Allowed(d, w), "rename" \notin Faults
  PROVE  /\ Whole(Changed(d, w))
         /\ Decisions(Changed(d, w)) = Updated(Decisions(d), d, w)
         /\ w.op = "rename" => "Report Export" \notin NameOf(d, w.id)
  <1>1. CASE w.op = "tag" /\ w.file \in Files
    <2>1. PICK t \in d.tags : t.id = w.id
      BY <1>1 DEF Allowed
    <2>2. NameOf(d, w.id) = {t.name}
      BY <2>1, NamesAre
    <2>3. Changed(d, w) = Tagged(d, w.file, t.id)
      BY <1>1, <2>1 DEF Changed
    <2>4. Updated(Decisions(d), d, w) = Decisions(d) \cup {<<w.file, t.name>>}
      BY <1>1, <2>2 DEF Updated
    <2>5. QED BY <1>1, <2>3, <2>4, TagItem
  <1>2. CASE w.op = "untag"
    <2>1. Changed(d, w) = Untagged(d, w.file, w.id)
      BY <1>2 DEF Changed
    <2>2. Updated(Decisions(d), d, w) = Decisions(d) \ ({w.file} \X NameOf(d, w.id))
      BY <1>2 DEF Updated
    <2>3. /\ Whole(Changed(d, w))
          /\ Decisions(Changed(d, w)) = Decisions(d) \ ({w.file} \X NameOf(d, w.id))
      BY <2>1, UntagItem
    <2>4. QED BY <1>2, <2>2, <2>3
  <1>3. CASE w.op = "create" /\ w.name \in Names
    <2>1. Changed(d, w) = [d EXCEPT !.tags = WithTag(@, w.name, FALSE)]
      BY <1>3 DEF Changed
    <2>2. Updated(Decisions(d), d, w) = Decisions(d)
      BY <1>3 DEF Updated
    <2>3. w.name \in Labels
      BY <1>3 DEF Labels
    <2>4. QED BY <1>3, <2>1, <2>2, <2>3, AddTag
  <1>4. CASE w.op = "delete"
    <2>1. Changed(d, w) = Deleted(d, w.id)
      BY <1>4 DEF Changed
    <2>2. Updated(Decisions(d), d, w) = Without(Decisions(d), NameOf(d, w.id))
      BY <1>4 DEF Updated
    <2>3. \A t \in d.tags : t.id = w.id => ~t.dflt
      <3>1. PICK u \in d.tags : u.id = w.id /\ ~u.dflt
        BY <1>4 DEF Allowed
      <3>2. \A t \in d.tags : t.id = w.id => t = u
        BY <3>1, WholeTables
      <3>3. QED BY <3>1, <3>2
    <2>4. /\ Whole(Changed(d, w))
          /\ Decisions(Changed(d, w)) = Without(Decisions(d), NameOf(d, w.id))
      BY <2>1, <2>3, DeleteTag
    <2>5. QED BY <1>4, <2>2, <2>4
  <1>5. CASE w.op = "rename" /\ w.name \in Names
    <2>1. Changed(d, w) = Renamed(d, w.id, w.name)
      BY <1>5 DEF Changed
    <2>2. Updated(Decisions(d), d, w) = Relabelled(Decisions(d), NameOf(d, w.id), w.name)
      BY <1>5 DEF Updated
    <2>3. \A t \in d.tags : IF t.id = w.id THEN ~t.dflt ELSE t.name # w.name
      BY <1>5 DEF Unique
    <2>4. /\ Whole(Changed(d, w))
          /\ Decisions(Changed(d, w)) = Relabelled(Decisions(d), NameOf(d, w.id), w.name)
          /\ "Report Export" \notin NameOf(d, w.id)
      BY <1>5, <2>1, <2>3, RenameTag
    <2>5. QED BY <2>2, <2>4
  <1>6. CASE w.op = "merge" /\ w.primary \in Contacts /\ w.merged \in Contacts
    <2> DEFINE m == [primary |-> w.primary, merged |-> w.merged]
    <2>1. m \in Merge /\ m.primary = w.primary /\ m.merged = w.merged
      BY <1>6 DEF Merge
    <2>2. Changed(d, w) = [d EXCEPT !.merges = @ \cup {m}]
      BY <1>6 DEF Changed
    <2>3. Updated(Decisions(d), d, w) = Decisions(d) \cup {<<m.primary, m.merged>>}
      BY <1>6, <2>1 DEF Updated
    <2> HIDE DEF m
    <2>4. QED BY <1>6, <2>1, <2>2, <2>3, MergeContacts
  <1>7. CASE w.op = "unmerge" /\ w.merged \in Contacts
    <2>1. Changed(d, w) = [d EXCEPT !.merges = {m \in @ : m.merged # w.merged}]
      BY <1>7 DEF Changed
    <2>2. Updated(Decisions(d), d, w) = Separated(Decisions(d), w.merged)
      BY <1>7 DEF Updated
    <2>3. QED BY <1>7, <2>1, <2>2, UnmergeContacts
  <1>8. QED BY <1>1, <1>2, <1>3, <1>4, <1>5, <1>6, <1>7, Requests

(* Decisions nobody asked for are those of the system itself.              *)
Told(D, W) == \A x \in D : x \in W \/ x[2] = "Report Export"

LEMMA Updates ==
  ASSUME NEW D, NEW W, W \subseteq D, Told(D, W), NEW d, NEW w \in Doable,
         w.op = "rename" => "Report Export" \notin NameOf(d, w.id)
  PROVE  /\ Updated(W, d, w) \subseteq Updated(D, d, w)
         /\ Told(Updated(D, d, w), Updated(W, d, w))
         /\ Updated(D, d, w) \subseteq D \cup Updated(W, d, w)
  <1> DEFINE N == NameOf(d, w.id)
  <1>1. CASE w.op = "tag"
    <2>1. \A S : Updated(S, d, w) = S \cup ({w.file} \X N)
      BY <1>1 DEF Updated
    <2> HIDE DEF N
    <2>2. QED BY <2>1 DEF Told
  <1>2. CASE w.op = "untag"
    <2>1. \A S : Updated(S, d, w) = S \ ({w.file} \X N)
      BY <1>2 DEF Updated
    <2> HIDE DEF N
    <2>2. QED BY <2>1 DEF Told
  <1>3. CASE w.op = "delete"
    <2>1. \A S : Updated(S, d, w) = Without(S, N)
      BY <1>3 DEF Updated
    <2> HIDE DEF N
    <2>2. QED BY <2>1 DEF Told, Without
  <1>4. CASE w.op = "rename"
    <2> DEFINE F(x) == IF x[2] \in N THEN <<x[1], w.name>> ELSE x
    <2>1. Updated(W, d, w) = {F(x) : x \in W} /\ Updated(D, d, w) = {F(x) : x \in D}
      BY <1>4 DEF Updated, Relabelled
    <2>2. "Report Export" \notin N
      BY <1>4
    <2>3. ASSUME NEW x \in D
          PROVE  F(x) \in Updated(W, d, w) \/ (F(x) = x /\ x[2] = "Report Export")
      <3>1. CASE x \in W
        BY <2>1, <3>1
      <3>2. CASE x[2] = "Report Export"
        BY <2>2, <3>2
      <3>3. QED BY <3>1, <3>2 DEF Told
    <2>4. \A y \in Updated(W, d, w) : y \in Updated(D, d, w)
      BY <2>1
    <2>5. \A y \in Updated(D, d, w) : \E x \in D : y = F(x)
      BY <2>1
    <2> HIDE DEF N, F
    <2>6. \A y \in Updated(D, d, w) : y \in Updated(W, d, w) \/ (y \in D /\ y[2] = "Report Export")
      BY <2>3, <2>5
    <2>7. QED BY <2>4, <2>6 DEF Told
  <1>5. CASE w.op = "merge"
    <2>1. \A S : Updated(S, d, w) = S \cup {<<w.primary, w.merged>>}
      BY <1>5 DEF Updated
    <2>2. QED BY <2>1 DEF Told
  <1>6. CASE w.op = "unmerge"
    <2>1. \A S : Updated(S, d, w) = Separated(S, w.merged)
      BY <1>6 DEF Updated
    <2>2. QED BY <2>1 DEF Told, Separated
  <1>7. CASE w.op = "create"
    <2>1. \A S : Updated(S, d, w) = S
      BY <1>7 DEF Updated
    <2>2. QED BY <2>1 DEF Told
  <1>8. QED BY <1>1, <1>2, <1>3, <1>4, <1>5, <1>6, <1>7, Requests

----------------------------------------------------------------------------
(* The invariant.  One at a time: a request, or a repair, and no one else. *)

Orderly == Faults = {}
Places == {"idle", "open", "commit", "read", "write", "replace"}
Busy(r) == pc[r] # "idle"

PlaceInv ==
    /\ pc \in [Examiners -> Places]
    /\ work = [r \in Examiners |-> work[r]] /\ snapshot = [r \in Examiners |-> snapshot[r]]
    /\ file \in {"none", "good", "damaged"} /\ ready \in BOOLEAN /\ missed \in BOOLEAN /\ seeds = 2
    /\ repair \in {"none", "aside", "rebuild", "restore"}
    /\ aside \in Nat /\ damages \in Nat /\ aside <= damages /\ damages <= MaxDamages
    /\ file = "damaged" => aside < damages

OneAtATime ==
    /\ \A r, q \in Examiners : Busy(r) /\ Busy(q) => r = q
    /\ repair # "none" => Quiet

(* Where a request stands: what it is about to commit is still allowed,    *)
(* what it has read is what the index says.                                *)
RequestInv(r) ==
    /\ pc[r] \in {"commit", "read", "write", "replace"} => file # "none"
    /\ pc[r] = "open" => work[r] \in Work
    /\ pc[r] = "commit" /\ file = "good" => work[r] \in Doable /\ Allowed(db, work[r])
    /\ pc[r] = "write" => /\ Whole(snapshot[r]) /\ Decisions(snapshot[r]) \subseteq given
                          /\ file = "good" => snapshot[r] = db
    /\ pc[r] = "replace" /\ file = "good" => tmp = db

Copy(b) == b = None \/ (Whole(b) /\ Decisions(b) \subseteq given)

TablesInv ==
    /\ IF file = "good" THEN Whole(db) ELSE db = Empty
    /\ file = "none" => ~ready
    /\ file = "none" /\ repair = "none" => wanted = {}
    /\ repair = "aside" => file = "damaged"
    /\ repair = "rebuild" => file = "none"
    /\ repair = "restore" => file # "none" /\ (file = "good" => db = Fresh)
    /\ Copy(backup) /\ Copy(tmp)

(* What is in force is in the index or, there being nothing the copy does  *)
(* not have, in the copy; what nobody gave is in neither.                  *)
HeldBy(d) == wanted \subseteq Decisions(d) /\ Told(Decisions(d), wanted)

KeptInv ==
    /\ wanted \subseteq given
    /\ file = "good" => Decisions(db) \subseteq given
    /\ file = "good" /\ repair = "none" => HeldBy(db)
    /\ file # "good" \/ repair # "none" => ~missed
    /\ ~missed => IF backup = None THEN wanted = {} ELSE HeldBy(backup)

IndexInv == PlaceInv /\ OneAtATime /\ (\A r \in Examiners : RequestInv(r)) /\ TablesInv /\ KeptInv

LEMMA NothingFresh == Decisions(Fresh) = {}
  <1>1. \A x : ~ShownBy(Fresh, x)
    BY FreshFields DEF ShownBy
  <1>2. QED BY <1>1, DecisionsAre

LEMMA WhatIsOpened ==
  ASSUME IndexInv
  PROVE  /\ file = "good" => Opened = db
         /\ file = "none" => Opened = Fresh
         /\ file # "damaged" /\ repair = "none" =>
              /\ Whole(Opened) /\ Decisions(Opened) \subseteq given /\ HeldBy(Opened)
  <1>1. seeds = 2
    BY DEF IndexInv, PlaceInv
  <1>2. file = "good" => Opened = db
    BY <1>1, SeedingAWholeOne DEF Opened, IndexInv, TablesInv
  <1>3. file = "none" => Opened = Fresh
    BY <1>1, SeedingANewFile DEF Opened, IndexInv, TablesInv
  <1>4. CASE file = "good"
    BY <1>2, <1>4 DEF IndexInv, TablesInv, KeptInv
  <1>5. CASE file = "none"
    BY <1>3, <1>5, NothingFresh, FreshIsWhole DEF IndexInv, TablesInv, HeldBy, Told
  <1>6. QED BY <1>2, <1>3, <1>4, <1>5 DEF IndexInv, PlaceInv

(* When a request is under way, nothing else is.                           *)
LEMMA OthersIdle ==
  ASSUME IndexInv, NEW r \in Examiners, Busy(r)
  PROVE  (\A q \in Examiners : q # r => pc[q] = "idle") /\ repair = "none"
  BY DEF IndexInv, OneAtATime, Quiet, Busy

LEMMA RequestMoves ==
  ASSUME IndexInv, NEW r \in Examiners, Busy(r),
         NEW p \in Places, pc' = [pc EXCEPT ![r] = p], repair' = repair
  PROVE  /\ pc' \in [Examiners -> Places] /\ pc'[r] = p
         /\ \A q \in Examiners : q # r => pc'[q] = "idle"
         /\ OneAtATime'
         /\ RequestInv(r)' => \A q \in Examiners : RequestInv(q)'
  <1>1. pc \in [Examiners -> Places]
    BY DEF IndexInv, PlaceInv
  <1>2. /\ pc' \in [Examiners -> Places] /\ pc'[r] = p
        /\ \A q \in Examiners : q # r => pc'[q] = "idle"
    BY <1>1, OthersIdle
  <1>3. OneAtATime'
    BY <1>2, OthersIdle DEF OneAtATime, Busy, Quiet
  <1>4. ASSUME NEW q \in Examiners, q # r PROVE RequestInv(q)'
    BY <1>2, <1>4 DEF RequestInv
  <1>5. QED BY <1>2, <1>3, <1>4

LEMMA RequestEnds ==
  ASSUME IndexInv, NEW r \in Examiners, Busy(r), End(r), repair' = repair
  PROVE  /\ pc' \in [Examiners -> Places]
         /\ work' = [q \in Examiners |-> work'[q]] /\ snapshot' = [q \in Examiners |-> snapshot'[q]]
         /\ OneAtATime'
         /\ \A q \in Examiners : RequestInv(q)'
  <1>1. pc' = [pc EXCEPT ![r] = "idle"] /\ "idle" \in Places
    BY DEF End, Places
  <1>2. pc'[r] = "idle"
    BY <1>1, RequestMoves
  <1>3. RequestInv(r)'
    BY <1>2 DEF RequestInv
  <1>4. work' = [q \in Examiners |-> work'[q]] /\ snapshot' = [q \in Examiners |-> snapshot'[q]]
    BY DEF End, IndexInv, PlaceInv
  <1>5. QED BY <1>1, <1>3, <1>4, RequestMoves

----------------------------------------------------------------------------
(* The steps of a request.                                                 *)

LEMMA BeginKeeps ==
  ASSUME IndexInv, Orderly, NEW r \in Examiners, Begin(r)
  PROVE  IndexInv'
  <1>1. Quiet /\ repair = "none"
    BY DEF Begin, Alone, Orderly
  <1>2. /\ pc' = [pc EXCEPT ![r] = "open"] /\ repair' = repair
        /\ UNCHANGED <<file, db, ready, seeds, backup, tmp, snapshot, aside, damages, wanted, given, missed>>
    BY DEF Begin, tables, histories
  <1>3. PICK w \in Work : work' = [work EXCEPT ![r] = w]
    BY DEF Begin
  <1>4. PlaceInv'
    BY <1>2, <1>3 DEF IndexInv, PlaceInv, Places
  <1>5. pc'[r] = "open" /\ work'[r] = w /\ \A q \in Examiners : q # r => pc'[q] = "idle"
    BY <1>1, <1>2, <1>3 DEF IndexInv, PlaceInv, Quiet
  <1>6. OneAtATime'
    BY <1>1, <1>2, <1>5 DEF OneAtATime, Busy
  <1>7. \A q \in Examiners : RequestInv(q)'
    BY <1>5 DEF RequestInv
  <1>8. TablesInv' /\ KeptInv'
    BY <1>2 DEF IndexInv, TablesInv, KeptInv, Copy, HeldBy
  <1>9. QED BY <1>4, <1>6, <1>7, <1>8 DEF IndexInv

LEMMA WhatIsFound ==
  ASSUME NEW d, Whole(d), NEW w \in Work
  PROVE  /\ w.op # "new" => Found(d, w) = w /\ w \in Doable
         /\ w.op = "new" /\ (\E t \in d.tags : t.name = w.name)
              => Found(d, w) \in Doable /\ Allowed(d, Found(d, w))
         /\ w.op = "new" => w.name \in Labels
  <1>1. ASSUME w.op # "new" PROVE Found(d, w) = w /\ w \in Doable
    BY <1>1 DEF Found, Work, Tagging, NewTag, Doable, TagIds
  <1>2. ASSUME w.op = "new" PROVE w \in NewTag
    BY <1>2 DEF Work, Tagging, NewTag, TagChange, Merging
  <1>3. ASSUME w.op = "new", \E t \in d.tags : t.name = w.name
        PROVE  Found(d, w) \in Doable /\ Allowed(d, Found(d, w))
    <2> DEFINE t == CHOOSE t \in d.tags : t.name = w.name
               v == [op |-> "tag", file |-> w.file, id |-> t.id]
    <2>1. t \in d.tags
      BY <1>3
    <2>2. Found(d, w) = v
      BY <1>3 DEF Found
    <2>3. t.id \in Nat
      BY <2>1, WholeTables
    <2> HIDE DEF t
    <2>4. v \in Doable /\ v.op = "tag" /\ v.id = t.id
      BY <1>2, <1>3, <2>3 DEF NewTag, Doable
    <2> HIDE DEF v
    <2>5. Allowed(d, v)
      BY <2>1, <2>4 DEF Allowed
    <2>6. QED BY <2>2, <2>4, <2>5
  <1>4. QED BY <1>1, <1>2, <1>3 DEF NewTag, Labels

LEMMA OpenKeeps ==
  ASSUME IndexInv, Orderly, NEW r \in Examiners, Open(r)
  PROVE  IndexInv'
  <1> DEFINE w == work[r]
             d == IF w.op = "new" THEN [Opened EXCEPT !.tags = WithTag(@, w.name, FALSE)] ELSE Opened
  <1>0. /\ pc[r] = "open" /\ Busy(r) /\ w \in Work
        /\ UNCHANGED <<seeds, backup, tmp, repair, aside, damages, wanted, given, missed>>
    BY DEF Open, Busy, counts, histories, IndexInv, RequestInv
  <1>1. CASE file = "damaged" \/ (file = "none" /\ ~Makes(w))
    <2>1. End(r) /\ UNCHANGED <<file, db, ready>>
      BY <1>1 DEF Open, tables
    <2>2. PlaceInv'
      BY <1>0, <2>1, RequestEnds DEF IndexInv, PlaceInv
    <2>3. TablesInv' /\ KeptInv'
      BY <1>0, <2>1 DEF IndexInv, TablesInv, KeptInv, Copy, HeldBy
    <2>4. QED BY <1>0, <2>1, <2>2, <2>3, RequestEnds DEF IndexInv
  <1>2. CASE ~(file = "damaged" \/ (file = "none" /\ ~Makes(w)))
    <2>1. /\ file' = "good" /\ db' = d /\ ready' = TRUE
          /\ IF Allowed(Opened, w)
             THEN /\ pc' = [pc EXCEPT ![r] = "commit"] /\ UNCHANGED snapshot
                  /\ work' = [work EXCEPT ![r] = Found(d, w)]
             ELSE End(r)
      BY <1>2 DEF Open
    <2>2. repair = "none"
      BY <1>0, OthersIdle
    <2>3. Whole(Opened) /\ Decisions(Opened) \subseteq given /\ HeldBy(Opened)
      BY <1>2, <2>2, WhatIsOpened
    <2>4. /\ Whole(d) /\ Decisions(d) = Decisions(Opened)
          /\ w.op = "new" => \E t \in d.tags : t.name = w.name
          /\ w.op # "new" => d = Opened
      <3>1. CASE w.op # "new"
        BY <2>3, <3>1
      <3>2. CASE w.op = "new"
        <4>1. w.name \in Labels /\ FALSE \in BOOLEAN
          BY <1>0, <2>3, <3>2, WhatIsFound
        <4>2. d = [Opened EXCEPT !.tags = WithTag(@, w.name, FALSE)]
          BY <3>2
        <4> HIDE DEF d
        <4>3. d = [tags |-> WithTag(Opened.tags, w.name, FALSE), items |-> Opened.items,
                   merges |-> Opened.merges]
          BY <2>3, <4>2, NewTags
        <4>4. d.tags = WithTag(Opened.tags, w.name, FALSE)
          BY <4>3
        <4>5. Whole(d) /\ Decisions(d) = Decisions(Opened)
          BY <2>3, <4>1, <4>2, AddTag
        <4>6. \E t \in d.tags : t.name = w.name
          <5>1. \E t \in WithTag(Opened.tags, w.name, FALSE) : t.name = w.name
            BY <2>3, <4>1, AddTag
          <5>2. QED BY <4>4, <5>1
        <4>7. QED BY <3>2, <4>5, <4>6
      <3>3. QED BY <3>1, <3>2
    <2> HIDE DEF d
    <2>5. TablesInv'
      BY <1>0, <2>1, <2>2, <2>4 DEF IndexInv, TablesInv, Copy
    <2>6. KeptInv'
      <3>1. Decisions(db') \subseteq given' /\ HeldBy(db)'
        BY <1>0, <2>1, <2>3, <2>4 DEF HeldBy
      <3>2. wanted' \subseteq given'
        BY <1>0 DEF IndexInv, KeptInv
      <3>3. ~missed' => IF backup' = None THEN wanted' = {} ELSE HeldBy(backup)'
        BY <1>0 DEF IndexInv, KeptInv, HeldBy
      <3>4. QED BY <1>0, <2>1, <2>2, <3>1, <3>2, <3>3 DEF KeptInv
    <2>7. CASE Allowed(Opened, w)
      <3>1. /\ pc' = [pc EXCEPT ![r] = "commit"] /\ "commit" \in Places /\ snapshot' = snapshot
            /\ work' = [work EXCEPT ![r] = Found(d, w)]
        BY <2>1, <2>7 DEF Places
      <3>2. work'[r] = Found(d, w) /\ work' = [q \in Examiners |-> work'[q]] /\ pc'[r] = "commit"
        BY <3>1 DEF IndexInv, PlaceInv
      <3>3. Found(d, w) \in Doable /\ Allowed(d, Found(d, w))
        BY <1>0, <2>4, <2>7, WhatIsFound
      <3>4. RequestInv(r)'
        BY <2>1, <3>2, <3>3 DEF RequestInv
      <3>5. PlaceInv'
        BY <1>0, <2>1, <3>1, <3>2, RequestMoves DEF IndexInv, PlaceInv
      <3>6. QED BY <1>0, <2>5, <2>6, <3>1, <3>4, <3>5, RequestMoves DEF IndexInv
    <2>8. CASE ~Allowed(Opened, w)
      <3>1. End(r)
        BY <2>1, <2>8
      <3>2. PlaceInv'
        BY <1>0, <2>1, <3>1, RequestEnds DEF IndexInv, PlaceInv
      <3>3. QED BY <1>0, <2>5, <2>6, <3>1, <3>2, RequestEnds DEF IndexInv
    <2>9. QED BY <2>7, <2>8
  <1>3. QED BY <1>1, <1>2

LEMMA CommitKeeps ==
  ASSUME IndexInv, Orderly, NEW r \in Examiners, Commit(r)
  PROVE  IndexInv'
  <1> DEFINE w == work[r]
  <1>0. /\ pc[r] = "commit" /\ Busy(r)
        /\ UNCHANGED <<file, ready, seeds, backup, tmp, repair, aside, damages>>
    BY DEF Commit, Busy, counts
  <1>a. repair = "none"
    BY <1>0, OthersIdle
  <1>1. CASE ~(file = "good" /\ Unique(db, w))
    <2>1. End(r) /\ UNCHANGED <<db, wanted, given, missed>>
      BY <1>1 DEF Commit, histories
    <2>2. PlaceInv'
      BY <1>0, <2>1, RequestEnds DEF IndexInv, PlaceInv
    <2>3. TablesInv' /\ KeptInv'
      BY <1>0, <2>1 DEF IndexInv, TablesInv, KeptInv, Copy, HeldBy
    <2>4. QED BY <1>0, <2>1, <2>2, <2>3, RequestEnds DEF IndexInv
  <1>2. CASE file = "good" /\ Unique(db, w)
    <2>1. /\ db' = Changed(db, w)
          /\ wanted' = Wanted(db, w) /\ given' = given \cup wanted' /\ missed' = TRUE
          /\ pc' = [pc EXCEPT ![r] = "read"] /\ "read" \in Places /\ work' = [work EXCEPT ![r] = None]
          /\ snapshot' = snapshot
      BY <1>2 DEF Commit, Places
    <2>2. w \in Doable /\ Allowed(db, w) /\ Whole(db) /\ "rename" \notin Faults
      BY <1>0, <1>2 DEF IndexInv, RequestInv, TablesInv, Orderly
    <2>3. HeldBy(db) /\ Decisions(db) \subseteq given /\ wanted \subseteq given
      BY <1>2, <1>a DEF IndexInv, KeptInv
    <2>4. /\ Whole(db')
          /\ Decisions(db') = Updated(Decisions(db), db, w)
          /\ w.op = "rename" => "Report Export" \notin NameOf(db, w.id)
      BY <1>2, <2>1, <2>2, Changes
    <2>5. wanted' = Updated(wanted, db, w)
      BY <2>1, WantedIsUpdated
    <2>6. /\ wanted' \subseteq Decisions(db')
          /\ Told(Decisions(db'), wanted')
          /\ Decisions(db') \subseteq Decisions(db) \cup wanted'
      <3>1. wanted \subseteq Decisions(db) /\ Told(Decisions(db), wanted)
        BY <2>3 DEF HeldBy
      <3> DEFINE D == Decisions(db)
                 U == Updated(wanted, db, w)
                 V == Updated(D, db, w)
      <3> HIDE DEF D
      <3>2. U \subseteq V /\ Told(V, U) /\ V \subseteq D \cup U
        BY <2>2, <2>4, <3>1, Updates DEF D
      <3>3. wanted' = U /\ Decisions(db') = V
        BY <2>4, <2>5 DEF D
      <3> HIDE DEF U, V
      <3>4. QED BY <3>2, <3>3 DEF D
    <2>7. TablesInv'
      BY <1>0, <1>2, <1>a, <2>1, <2>4 DEF IndexInv, TablesInv, Copy
    <2>8. KeptInv'
      BY <1>0, <1>2, <1>a, <2>1, <2>3, <2>6 DEF KeptInv, HeldBy
    <2>9. RequestInv(r)'
      BY <1>0, <1>2, <2>1 DEF RequestInv, IndexInv, PlaceInv
    <2>10. PlaceInv'
      BY <1>0, <1>2, <2>1, RequestMoves DEF IndexInv, PlaceInv
    <2>11. QED BY <1>0, <2>1, <2>7, <2>8, <2>9, <2>10, RequestMoves DEF IndexInv
  <1>3. QED BY <1>1, <1>2

LEMMA ReadKeeps ==
  ASSUME IndexInv, Orderly, NEW r \in Examiners, Read(r)
  PROVE  IndexInv'
  <1>0. /\ pc[r] = "read" /\ Busy(r)
        /\ UNCHANGED <<file, db, ready, seeds, backup, tmp, repair, aside, damages, wanted, given, missed>>
    BY DEF Read, Busy, tables, counts, histories
  <1>1. TablesInv' /\ KeptInv'
    BY <1>0 DEF IndexInv, TablesInv, KeptInv, Copy, HeldBy
  <1>2. CASE file # "good"
    <2>1. End(r)
      BY <1>2 DEF Read
    <2>2. PlaceInv'
      BY <1>0, <2>1, RequestEnds DEF IndexInv, PlaceInv
    <2>3. QED BY <1>0, <1>1, <2>1, <2>2, RequestEnds DEF IndexInv
  <1>3. CASE file = "good"
    <2>1. /\ snapshot' = [snapshot EXCEPT ![r] = db] /\ work' = work
          /\ pc' = [pc EXCEPT ![r] = "write"] /\ "write" \in Places
      BY <1>3 DEF Read, Places
    <2>2. snapshot'[r] = db /\ snapshot' = [q \in Examiners |-> snapshot'[q]] /\ pc'[r] = "write"
      BY <2>1 DEF IndexInv, PlaceInv
    <2>3. PlaceInv'
      BY <1>0, <2>1, <2>2, RequestMoves DEF IndexInv, PlaceInv
    <2>4. Whole(db) /\ Decisions(db) \subseteq given
      BY <1>3 DEF IndexInv, TablesInv, KeptInv
    <2>5. RequestInv(r)'
      BY <1>0, <1>3, <2>2, <2>4 DEF RequestInv
    <2>6. QED BY <1>0, <1>1, <2>1, <2>3, <2>5, RequestMoves DEF IndexInv
  <1>4. QED BY <1>2, <1>3

LEMMA WriteKeeps ==
  ASSUME IndexInv, Orderly, NEW r \in Examiners, Write(r)
  PROVE  IndexInv'
  <1>0. /\ pc[r] = "write" /\ Busy(r)
        /\ UNCHANGED <<file, db, ready, seeds, backup, repair, aside, damages, wanted, given, missed>>
    BY DEF Write, Busy, tables, counts, histories
  <1>1. KeptInv'
    BY <1>0 DEF IndexInv, KeptInv, HeldBy
  <1>2. Copy(snapshot[r]) /\ (file = "good" => snapshot[r] = db)
    BY <1>0 DEF IndexInv, RequestInv, Copy
  <1>3. ASSUME tmp' = None, End(r) PROVE IndexInv'
    <2>1. TablesInv'
      BY <1>0, <1>3 DEF IndexInv, TablesInv, Copy
    <2>2. PlaceInv'
      BY <1>0, <1>3, RequestEnds DEF IndexInv, PlaceInv
    <2>3. QED BY <1>0, <1>1, <1>3, <2>1, <2>2, RequestEnds DEF IndexInv
  <1>4. ASSUME tmp' = snapshot[r], pc' = [pc EXCEPT ![r] = "replace"], UNCHANGED <<work, snapshot>>
        PROVE  IndexInv'
    <2>1. TablesInv'
      BY <1>0, <1>2, <1>4 DEF IndexInv, TablesInv, Copy
    <2>2. "replace" \in Places
      BY DEF Places
    <2>3. PlaceInv'
      BY <1>0, <1>4, <2>2, RequestMoves DEF IndexInv, PlaceInv
    <2>4. pc'[r] = "replace"
      BY <1>4 DEF IndexInv, PlaceInv
    <2>5. RequestInv(r)'
      BY <1>0, <1>2, <1>4, <2>4 DEF RequestInv, IndexInv
    <2>6. QED BY <1>0, <1>1, <1>4, <2>1, <2>2, <2>3, <2>5, RequestMoves DEF IndexInv
  <1>5. QED BY <1>3, <1>4 DEF Write

LEMMA ReplaceKeeps ==
  ASSUME IndexInv, Orderly, NEW r \in Examiners, Replace(r)
  PROVE  IndexInv'
  <1>0. /\ pc[r] = "replace" /\ Busy(r) /\ End(r) /\ tmp' = None
        /\ UNCHANGED <<file, db, ready, seeds, given, repair, aside, damages>>
    BY DEF Replace, Busy, tables, counts
  <1>1. file # "none" /\ repair = "none" /\ (file = "good" => tmp = db)
    BY <1>0, OthersIdle DEF IndexInv, RequestInv
  <1>2. CASE tmp = None
    <2>1. UNCHANGED <<backup, missed, wanted>>
      BY <1>2 DEF Replace
    <2>2. TablesInv' /\ KeptInv'
      BY <1>0, <2>1 DEF IndexInv, TablesInv, KeptInv, Copy, HeldBy
    <2>3. PlaceInv'
      BY <1>0, <2>1, RequestEnds DEF IndexInv, PlaceInv
    <2>4. QED BY <1>0, <2>2, <2>3, RequestEnds DEF IndexInv
  <1>3. CASE tmp # None
    <2>1. /\ backup' = tmp /\ missed' = FALSE
          /\ wanted' = IF file = "damaged" THEN Decisions(tmp) ELSE wanted
      BY <1>3 DEF Replace
    <2>2. Whole(tmp) /\ Decisions(tmp) \subseteq given
      BY <1>3 DEF IndexInv, TablesInv, Copy
    <2>3. TablesInv'
      BY <1>0, <1>1, <2>1, <2>2 DEF IndexInv, TablesInv, Copy
    <2>4. wanted' \subseteq Decisions(tmp) /\ Told(Decisions(tmp), wanted')
      <3>1. CASE file = "good"
        BY <1>1, <2>1, <3>1 DEF IndexInv, KeptInv, HeldBy
      <3>2. CASE file = "damaged"
        BY <2>1, <3>2 DEF Told
      <3>3. QED BY <1>1, <3>1, <3>2 DEF IndexInv, PlaceInv
    <2>5. KeptInv'
      <3>1. HeldBy(backup)'
        BY <2>1, <2>4 DEF HeldBy
      <3>2. file' = "good" => wanted' = wanted /\ db' = db
        BY <1>0, <2>1
      <3>3. file' = "good" /\ repair' = "none" => HeldBy(db)'
        BY <1>0, <3>2 DEF IndexInv, KeptInv, HeldBy
      <3>4. wanted' \subseteq given'
        BY <1>0, <2>2, <2>4
      <3>5. backup' # None
        BY <1>3, <2>1
      <3>6. QED BY <1>0, <2>1, <3>1, <3>3, <3>4, <3>5 DEF IndexInv, KeptInv
    <2>6. PlaceInv'
      BY <1>0, <2>1, RequestEnds DEF IndexInv, PlaceInv
    <2>7. QED BY <1>0, <2>3, <2>5, <2>6, RequestEnds DEF IndexInv
  <1>4. QED BY <1>2, <1>3

----------------------------------------------------------------------------
(* The system's own tags, damage, restarts and repairs.                    *)

LEMMA QuietStays ==
  ASSUME IndexInv, Quiet, UNCHANGED <<pc, work, snapshot>>
  PROVE  /\ pc' \in [Examiners -> Places]
         /\ work' = [r \in Examiners |-> work'[r]] /\ snapshot' = [r \in Examiners |-> snapshot'[r]]
         /\ OneAtATime'
         /\ \A r \in Examiners : RequestInv(r)'
  <1>1. pc' = pc /\ pc \in [Examiners -> Places]
    BY DEF IndexInv, PlaceInv
  <1>2. \A r \in Examiners : pc'[r] = "idle"
    BY <1>1 DEF Quiet
  <1>3. OneAtATime'
    BY <1>2 DEF OneAtATime, Busy, Quiet
  <1>4. \A r \in Examiners : RequestInv(r)'
    BY <1>2 DEF RequestInv
  <1>5. QED BY <1>1, <1>3, <1>4 DEF IndexInv, PlaceInv

LEMMA AutoTagKeeps ==
  ASSUME IndexInv, Orderly, NEW f \in Reports, AutoTag(f)
  PROVE  IndexInv'
  <1>1. /\ Quiet /\ repair = "none" /\ file # "damaged"
        /\ file' = "good" /\ ready' = TRUE
        /\ UNCHANGED <<seeds, backup, pc, work, snapshot, tmp, repair, aside, damages, wanted, missed>>
    BY DEF AutoTag, Alone, Orderly, requests, counts
  <1>2. Whole(Opened) /\ Decisions(Opened) \subseteq given /\ HeldBy(Opened)
    BY <1>1, WhatIsOpened
  <1>3. Named(Opened.tags, "Report Export") # {}
    BY <1>2, TheDefaults DEF Whole, Named
  <1>4. PICK t \in Named(Opened.tags, "Report Export") :
             /\ db' = IF t = None THEN Opened ELSE Tagged(Opened, f, t.id)
             /\ given' = IF t = None THEN given ELSE given \cup {<<f, "Report Export">>}
    BY <1>3 DEF AutoTag
  <1>5. t \in Opened.tags /\ t.name = "Report Export"
    BY DEF Named
  <1>6. /\ Whole(db') /\ Decisions(db') \subseteq given' /\ given \subseteq given'
        /\ Decisions(Opened) \subseteq Decisions(db')
        /\ \A x \in Decisions(db') : x \in Decisions(Opened) \/ x[2] = "Report Export"
    <2>1. CASE t = None
      BY <1>2, <1>4, <2>1
    <2>2. CASE t # None
      <3> DEFINE e == Tagged(Opened, f, t.id)
      <3>1. /\ Whole(e)
            /\ Decisions(e) = Decisions(Opened) \cup {<<f, "Report Export">>}
        <4>1. f \in Files \cup Reports
          OBVIOUS
        <4>2. Whole(e) /\ Decisions(e) = Decisions(Opened) \cup {<<f, t.name>>}
          BY <1>2, <1>5, <4>1, TagItem
        <4>3. QED BY <1>5, <4>2
      <3>2. db' = e /\ given' = given \cup {<<f, "Report Export">>}
        BY <1>4, <2>2
      <3> HIDE DEF e
      <3>3. /\ Whole(db')
            /\ Decisions(db') = Decisions(Opened) \cup {<<f, "Report Export">>}
        BY <3>1, <3>2
      <3>4. <<f, "Report Export">>[2] = "Report Export"
        OBVIOUS
      <3>5. QED BY <1>2, <3>2, <3>3, <3>4
    <2>3. QED BY <2>1, <2>2
  <1>7. TablesInv'
    BY <1>1, <1>6 DEF IndexInv, TablesInv, Copy
  <1>8. KeptInv'
    <2>1. HeldBy(db)'
      BY <1>1, <1>2, <1>6 DEF HeldBy, Told
    <2>2. ~missed' => IF backup' = None THEN wanted' = {} ELSE HeldBy(backup)'
      BY <1>1 DEF IndexInv, KeptInv, HeldBy
    <2>3. wanted' \subseteq given'
      BY <1>1, <1>6 DEF IndexInv, KeptInv
    <2>4. QED BY <1>1, <1>6, <2>1, <2>2, <2>3 DEF KeptInv
  <1>9. PlaceInv'
    BY <1>1, QuietStays DEF IndexInv, PlaceInv
  <1>10. QED BY <1>1, <1>7, <1>8, <1>9, QuietStays DEF IndexInv

NewPairs(d, f, g) == {g} \X UNION {NameOf(d, t) : t \in TagsOf(d, f)}

LEMMA CarriedItems ==
  ASSUME NEW d, Whole(d), NEW f, NEW g \in Files,
         NEW n \in [NotYetOn(d, f, g) -> 1 .. Cardinality(NotYetOn(d, f, g))],
         \A t, u \in DOMAIN n : n[t] = n[u] => t = u
  PROVE  /\ Whole(Carried(d, f, g, n))
         /\ Decisions(Carried(d, f, g, n)) = Decisions(d) \cup NewPairs(d, f, g)
  <1> DEFINE tags == TagsOf(d, f)
             new == NotYetOn(d, f, g)
             I == {[id |-> LastId(d.items) + n[t], tag |-> t, file |-> g] : t \in new}
             e == [tags |-> d.tags, items |-> d.items \cup I, merges |-> d.merges]
             Row(t) == [id |-> LastId(d.items) + n[t], tag |-> t, file |-> g]
             N == NewPairs(d, f, g)
  <1>1. Carried(d, f, g, n) = e
    BY NewItems DEF Carried
  <1>2. \A t \in tags : \E u \in d.tags : u.id = t
    BY DEF Whole, TagsOf
  <1>3. new \subseteq tags
    BY DEF NotYetOn
  <1>a. \A x : x \in N <=> \E u \in d.tags : u.id \in tags /\ x = <<g, u.name>>
    BY DEF NewPairs, NameOf
  <1>b. \A t \in tags : t \notin new => \E i \in d.items : i.tag = t /\ i.file = g
    BY DEF NotYetOn
  <1>c. n \in [new -> 1 .. Cardinality(new)] /\ \A t, u \in new : n[t] = n[u] => t = u
    OBVIOUS
  <1> HIDE DEF tags, new, N
  <1>4. Cardinality(new) \in Nat
    <2>1. PICK k \in Nat : \A u \in d.tags : u.id <= k
      BY WholeTables DEF Numbered
    <2>2. ASSUME NEW t \in new PROVE t \in Nat /\ t <= k
      <3>1. PICK u \in d.tags : u.id = t
        BY <1>2, <1>3
      <3>2. u.id \in Nat /\ u.id <= k
        BY <2>1, WholeTables
      <3>3. QED BY <3>1, <3>2
    <2>3. IsFiniteSet(new)
      BY <2>1, <2>2, FS_BoundedSetOfNaturals
    <2>4. QED BY <2>3, FS_CardinalityType
  <1>5. \A i \in d.items : i.id \in Nat /\ i.id < NextId(d.items)
    BY WholeTables, NextIsAbove
  <1>6. LastId(d.items) + 1 \in Nat \ {0} /\ NextId(d.items) = 1 + LastId(d.items) /\ LastId(d.items) \in Nat
    <2>1. NextId(d.items) \in Nat \ {0}
      BY WholeTables, NextIsAbove
    <2>2. LastId(d.items) \in {0} \cup {i.id : i \in d.items}
      BY <1>5, LastIsThere, WholeTables
    <2>3. LastId(d.items) \in Nat
      BY <2>2, <1>5
    <2>4. QED BY <2>3 DEF NextId
  <1>7. ASSUME NEW t \in new
        PROVE  /\ Row(t).id = LastId(d.items) + n[t] /\ Row(t).tag = t /\ Row(t).file = g
               /\ n[t] \in Nat /\ 1 <= n[t] /\ n[t] <= Cardinality(new)
               /\ Row(t) \in Item
    <2>1. n[t] \in Nat /\ 1 <= n[t] /\ n[t] <= Cardinality(new)
      BY <1>4, <1>c
    <2>2. t \in Nat
      BY <1>2, <1>3, WholeTables
    <2>3. LastId(d.items) + n[t] \in Nat
      BY <1>6, <2>1
    <2>4. QED BY <2>1, <2>2, <2>3 DEF Item
  <1>8. I = {Row(t) : t \in new}
    OBVIOUS
  <1> HIDE DEF Row
  <1>9. \A x, y \in I : x.id = y.id => x = y
    <2> SUFFICES ASSUME NEW t \in new, NEW u \in new, Row(t).id = Row(u).id PROVE t = u
      BY <1>8
    <2>0. /\ Row(t).id = LastId(d.items) + n[t] /\ n[t] \in Nat
          /\ Row(u).id = LastId(d.items) + n[u] /\ n[u] \in Nat
      BY <1>7
    <2>1. LastId(d.items) + n[t] = LastId(d.items) + n[u] /\ n[t] \in Nat /\ n[u] \in Nat
      BY <2>0
    <2>2. n[t] = n[u]
      BY <1>6, <2>1
    <2>3. QED BY <1>c, <2>2
  <1>10. \A x \in I, i \in d.items : i.id # x.id
    <2> SUFFICES ASSUME NEW t \in new, NEW i \in d.items PROVE i.id # Row(t).id
      BY <1>8
    <2>1. i.id \in Nat /\ i.id < 1 + LastId(d.items)
      BY <1>5, <1>6
    <2>2. Row(t).id = LastId(d.items) + n[t] /\ 1 <= n[t] /\ n[t] \in Nat
      BY <1>7
    <2>3. QED BY <1>6, <2>1, <2>2
  <1>11. Numbered(d.items \cup I)
    <2>1. \A x \in d.items \cup I : x.id <= LastId(d.items) + Cardinality(new)
      <3>1. ASSUME NEW i \in d.items PROVE i.id <= LastId(d.items) + Cardinality(new)
        <4>1. i.id \in Nat /\ i.id < 1 + LastId(d.items)
          BY <1>5, <1>6
        <4>2. QED BY <1>4, <1>6, <4>1
      <3>2. ASSUME NEW t \in new PROVE Row(t).id <= LastId(d.items) + Cardinality(new)
        <4>1. Row(t).id = LastId(d.items) + n[t] /\ n[t] <= Cardinality(new) /\ n[t] \in Nat
          BY <1>7
        <4>2. QED BY <1>4, <1>6, <4>1
      <3>3. QED BY <1>8, <3>1, <3>2
    <2>2. LastId(d.items) + Cardinality(new) \in Nat
      BY <1>4, <1>6
    <2>3. \A x, y \in d.items \cup I : x.id = y.id => x = y
      <3>1. \A x, y \in d.items : x.id = y.id => x = y
        BY WholeTables DEF Numbered
      <3>2. QED BY <1>9, <1>10, <3>1
    <2>4. QED BY <2>1, <2>2, <2>3 DEF Numbered
  <1>12. I \subseteq Item
    <2>1. \A t \in new : Row(t) \in Item
      BY <1>7
    <2>2. QED BY <1>8, <2>1
  <1>13. e.tags = d.tags /\ e.items = d.items \cup I /\ e.merges = d.merges
    OBVIOUS
  <1>14. e \in Tables
    BY <1>12, WholeTables DEF Tables
  <1> HIDE DEF e
  <1>15. \A x \in I : \E t \in new : x.tag = t /\ x.file = g
    BY <1>7, <1>8
  <1>16. Whole(e)
    <2>1. \A i \in d.items \cup I : \E t \in d.tags : t.id = i.tag
      BY <1>2, <1>3, <1>15 DEF Whole
    <2>2. Numbered(d.tags) /\ \A t, u \in d.tags : t.name = u.name => t = u
      BY WholeTables
    <2>3. First \in d.tags /\ Second \in d.tags
      BY DEF Whole
    <2>4. QED BY <1>11, <1>13, <1>14, <2>1, <2>2, <2>3 DEF Whole
  <1>17. ASSUME NEW x, ShownBy(e, x) PROVE ShownBy(d, x) \/ x \in N
    <2>1. ASSUME NEW i \in I, NEW t \in d.tags, i.tag = t.id, x = <<i.file, t.name>> PROVE x \in N
      BY <1>3, <1>15, <1>a, <2>1
    <2>2. QED BY <1>13, <1>17, <2>1 DEF ShownBy
  <1>18. ASSUME NEW x, x \in N PROVE ShownBy(e, x)
    <2>1. PICK u \in d.tags : u.id \in tags /\ x = <<g, u.name>>
      BY <1>18, <1>a
    <2>2. CASE u.id \in new
      <3>1. Row(u.id) \in I /\ Row(u.id).tag = u.id /\ Row(u.id).file = g
        BY <1>7, <1>8, <2>2
      <3>2. QED BY <1>13, <2>1, <3>1 DEF ShownBy
    <2>3. CASE u.id \notin new
      <3>1. PICK i \in d.items : i.tag = u.id /\ i.file = g
        BY <1>b, <2>1, <2>3
      <3>2. QED BY <1>13, <2>1, <3>1 DEF ShownBy
    <2>4. QED BY <2>2, <2>3
  <1>19. ASSUME NEW x, ShownBy(d, x) PROVE ShownBy(e, x)
    BY <1>13, <1>19 DEF ShownBy
  <1>20. \A x : x \in Decisions(e) <=> x \in Decisions(d) \/ x \in N
    BY <1>17, <1>18, <1>19, DecisionsAre
  <1>21. QED BY <1>1, <1>16, <1>20 DEF N

LEMMA CarryOverKeeps ==
  ASSUME IndexInv, Orderly, NEW f \in Files, NEW g \in Files, CarryOver(f, g)
  PROVE  IndexInv'
  <1> DEFINE N == NewPairs(db, f, g)
  <1>1. /\ Quiet /\ repair = "none" /\ file = "good" /\ Opened = db
        /\ UNCHANGED <<file, seeds, backup, pc, work, snapshot, tmp, repair, aside, damages>>
        /\ ready' = TRUE /\ missed' = TRUE
    BY WhatIsOpened DEF CarryOver, Alone, Orderly, requests
  <1>2. PICK n \in [NotYetOn(db, f, g) -> 1 .. Cardinality(NotYetOn(db, f, g))] :
             /\ \A t, u \in DOMAIN n : n[t] = n[u] => t = u
             /\ db' = Carried(db, f, g, n)
    BY <1>1 DEF CarryOver
  <1>3. wanted' = wanted \cup N /\ given' = given \cup wanted'
    BY <1>1 DEF CarryOver, NewPairs
  <1>4. Whole(db) /\ HeldBy(db) /\ Decisions(db) \subseteq given /\ wanted \subseteq given
    BY <1>1 DEF IndexInv, TablesInv, KeptInv
  <1>5. Whole(db') /\ Decisions(db') = Decisions(db) \cup N
    <2> DEFINE e == Carried(db, f, g, n)
    <2>1. Whole(e) /\ Decisions(e) = Decisions(db) \cup N
      BY <1>2, <1>4, CarriedItems
    <2>2. db' = e
      BY <1>2
    <2> HIDE DEF e, N
    <2>3. QED BY <2>1, <2>2
  <1> HIDE DEF N
  <1>6. TablesInv'
    BY <1>1, <1>3, <1>5 DEF IndexInv, TablesInv, Copy
  <1>7. KeptInv'
    <2>1. HeldBy(db)'
      BY <1>3, <1>4, <1>5 DEF HeldBy, Told
    <2>2. Decisions(db') \subseteq given' /\ wanted' \subseteq given'
      BY <1>3, <1>4, <1>5
    <2>3. QED BY <1>1, <2>1, <2>2 DEF KeptInv
  <1>8. PlaceInv'
    BY <1>1, QuietStays DEF IndexInv, PlaceInv
  <1>9. QED BY <1>1, <1>6, <1>7, <1>8, QuietStays DEF IndexInv

LEMMA DamageKeeps ==
  ASSUME IndexInv, Orderly, Damage
  PROVE  IndexInv'
  <1>1. /\ file = "good" /\ damages < MaxDamages /\ damages' = damages + 1
        /\ file' = "damaged" /\ db' = Empty /\ missed' = FALSE
        /\ wanted' = IF ~missed THEN wanted ELSE IF backup = None THEN {} ELSE Decisions(backup)
        /\ UNCHANGED <<ready, seeds, backup, pc, work, snapshot, tmp, repair, aside, given>>
    BY DEF Damage, Orderly, requests
  <1>2. PlaceInv'
    <2>1. damages \in Nat /\ aside \in Nat /\ aside <= damages /\ MaxDamages \in Nat
      BY IndexAssumption DEF IndexInv, PlaceInv
    <2>2. damages' \in Nat /\ aside' \in Nat /\ aside' < damages' /\ damages' <= MaxDamages
      BY <1>1, <2>1
    <2>3. /\ pc' \in [Examiners -> Places]
          /\ work' = [r \in Examiners |-> work'[r]] /\ snapshot' = [r \in Examiners |-> snapshot'[r]]
          /\ ready' \in BOOLEAN /\ seeds' = 2 /\ repair' \in {"none", "aside", "rebuild", "restore"}
      BY <1>1 DEF IndexInv, PlaceInv
    <2>4. aside' <= damages'
      BY <2>2
    <2>5. file' \in {"none", "good", "damaged"} /\ missed' \in BOOLEAN
      BY <1>1
    <2>6. QED BY <2>2, <2>3, <2>4, <2>5 DEF PlaceInv
  <1>3. OneAtATime'
    BY <1>1 DEF IndexInv, OneAtATime, Quiet, Busy
  <1>4. ASSUME NEW r \in Examiners PROVE RequestInv(r)'
    BY <1>1 DEF IndexInv, RequestInv
  <1>5. TablesInv'
    BY <1>1 DEF IndexInv, TablesInv, Copy
  <1>6. KeptInv'
    <2>1. Copy(backup)
      BY DEF IndexInv, TablesInv
    <2>2. CASE ~missed
      BY <1>1, <2>2 DEF IndexInv, KeptInv, HeldBy
    <2>3. CASE missed /\ backup = None
      BY <1>1, <2>3 DEF IndexInv, KeptInv
    <2>4. CASE missed /\ backup # None
      <3>1. wanted' = Decisions(backup) /\ backup' = backup
        BY <1>1, <2>4
      <3>2. HeldBy(backup)'
        BY <3>1 DEF HeldBy, Told
      <3>3. wanted' \subseteq given'
        BY <1>1, <2>1, <2>4, <3>1 DEF Copy
      <3>4. QED BY <1>1, <2>4, <3>2, <3>3 DEF KeptInv
    <2>5. QED BY <2>2, <2>3, <2>4
  <1>7. QED BY <1>2, <1>3, <1>4, <1>5, <1>6 DEF IndexInv

LEMMA RestartKeeps ==
  ASSUME IndexInv, Orderly, Restart
  PROVE  IndexInv'
  <1>1. /\ repair = "none"
        /\ pc' = [r \in Examiners |-> "idle"] /\ work' = [r \in Examiners |-> None]
        /\ snapshot' = [r \in Examiners |-> None]
        /\ ready' = FALSE /\ repair' = "none" /\ seeds' = 2
        /\ UNCHANGED <<file, db, backup, tmp, aside, damages, wanted, given, missed>>
    BY DEF Restart, Orderly, histories
  <1>2. PlaceInv'
    BY <1>1 DEF IndexInv, PlaceInv, Places
  <1>3. OneAtATime' /\ \A r \in Examiners : RequestInv(r)'
    BY <1>1 DEF OneAtATime, Busy, RequestInv
  <1>4. TablesInv' /\ KeptInv'
    BY <1>1 DEF IndexInv, TablesInv, KeptInv, Copy, HeldBy
  <1>5. QED BY <1>2, <1>3, <1>4 DEF IndexInv

LEMMA RepairKeeps ==
  ASSUME IndexInv, Orderly, RepairBegins \/ SetAside \/ Rebuild \/ Restore
  PROVE  IndexInv'
  <1>0. Quiet /\ UNCHANGED <<pc, work, snapshot, tmp, seeds, backup, damages, wanted, given, missed>>
    <2>1. CASE RepairBegins
      BY <2>1 DEF RepairBegins, Alone, Orderly, requests, counts, histories
    <2>2. CASE SetAside \/ Rebuild \/ Restore
      BY <2>2 DEF IndexInv, OneAtATime, SetAside, Rebuild, Restore, requests, counts, histories
    <2>3. QED BY <2>1, <2>2
  <1>1. CASE RepairBegins
    <2>1. /\ repair = "none" /\ file = "damaged" /\ repair' = "aside"
          /\ UNCHANGED <<file, db, ready, aside>>
      BY <1>1 DEF RepairBegins, Health, tables, IndexInv, PlaceInv
    <2>2. PlaceInv'
      BY <1>0, <2>1, QuietStays DEF IndexInv, PlaceInv
    <2>3. TablesInv' /\ KeptInv'
      BY <1>0, <2>1 DEF IndexInv, TablesInv, KeptInv, Copy, HeldBy
    <2>4. QED BY <1>0, <2>2, <2>3, QuietStays DEF IndexInv
  <1>2. CASE SetAside
    <2>1. repair = "aside" /\ db' = db /\ file = "damaged"
      BY <1>2 DEF SetAside, IndexInv, TablesInv
    <2>2. CASE file' = "none" /\ ready' = FALSE /\ aside' = aside + 1 /\ repair' = "rebuild"
      <3>1. aside' \in Nat /\ aside' <= damages'
        BY <1>0, <2>1, <2>2 DEF IndexInv, PlaceInv
      <3>2. PlaceInv'
        BY <1>0, <2>1, <2>2, <3>1, QuietStays DEF IndexInv, PlaceInv
      <3>3. TablesInv' /\ KeptInv'
        BY <1>0, <2>1, <2>2 DEF IndexInv, TablesInv, KeptInv, Copy, HeldBy
      <3>4. QED BY <1>0, <3>2, <3>3, QuietStays DEF IndexInv
    <2>3. CASE UNCHANGED <<file, ready, aside>> /\ repair' = "none"
      <3>1. PlaceInv'
        BY <1>0, <2>1, <2>3, QuietStays DEF IndexInv, PlaceInv
      <3>2. TablesInv' /\ KeptInv'
        BY <1>0, <2>1, <2>3 DEF IndexInv, TablesInv, KeptInv, Copy, HeldBy
      <3>3. QED BY <1>0, <3>1, <3>2, QuietStays DEF IndexInv
    <2>4. QED BY <1>2, <2>2, <2>3 DEF SetAside
  <1>3. CASE Rebuild
    <2>1. repair = "rebuild" /\ file = "none" /\ repair' = "restore" /\ aside' = aside
      BY <1>3 DEF Rebuild, IndexInv, TablesInv
    <2>2. file' = "good" /\ db' = Fresh /\ ready' = TRUE
      BY <1>3, <2>1, WhatIsOpened DEF Rebuild
    <2>3. PlaceInv'
      BY <1>0, <2>1, <2>2, QuietStays DEF IndexInv, PlaceInv
    <2>4. TablesInv'
      BY <1>0, <2>1, <2>2, FreshIsWhole DEF IndexInv, TablesInv, Copy
    <2>5. KeptInv'
      BY <1>0, <2>1, <2>2, NothingFresh DEF IndexInv, KeptInv, HeldBy
    <2>6. QED BY <1>0, <2>3, <2>4, <2>5, QuietStays DEF IndexInv
  <1>4. CASE Restore
    <2>1. /\ repair = "restore" /\ repair' = "none" /\ ~missed
          /\ UNCHANGED <<file, ready, aside>>
          /\ db' = IF \/ file # "good" \/ backup = None
                      \/ \E t, u \in Restored(db, backup).tags : t # u /\ t.name = u.name
                   THEN db ELSE Restored(db, backup)
      BY <1>4 DEF Restore, IndexInv, KeptInv
    <2>2. PlaceInv'
      BY <1>0, <2>1, QuietStays DEF IndexInv, PlaceInv
    <2>3. CASE file # "good"
      <3>1. TablesInv' /\ KeptInv'
        BY <1>0, <2>1, <2>3 DEF IndexInv, TablesInv, KeptInv, Copy, HeldBy
      <3>2. QED BY <1>0, <2>2, <3>1, QuietStays DEF IndexInv
    <2>4. CASE file = "good" /\ backup = None
      <3>1. db' = db /\ db = Fresh /\ wanted = {}
        BY <2>1, <2>4 DEF IndexInv, TablesInv, KeptInv
      <3>2. TablesInv'
        BY <1>0, <2>1, <2>4, <3>1 DEF IndexInv, TablesInv, Copy
      <3>3. HeldBy(db)'
        BY <1>0, <3>1, NothingFresh DEF HeldBy, Told
      <3>4. KeptInv'
        BY <1>0, <2>1, <2>4, <3>1, <3>3 DEF IndexInv, KeptInv
      <3>5. QED BY <1>0, <2>2, <3>2, <3>4, QuietStays DEF IndexInv
    <2>5. CASE file = "good" /\ backup # None
      <3>1. db = Fresh /\ Whole(backup) /\ Decisions(backup) \subseteq given /\ HeldBy(backup)
        BY <2>1, <2>5 DEF IndexInv, TablesInv, KeptInv, Copy
      <3>2. Restored(db, backup) = backup
        BY <3>1, RestoringAFreshOne
      <3>3. ~ \E t, u \in Restored(db, backup).tags : t # u /\ t.name = u.name
        BY <3>1, <3>2, WholeTables
      <3>4. db' = backup
        BY <2>1, <2>5, <3>2, <3>3
      <3>5. TablesInv'
        BY <1>0, <2>1, <2>5, <3>1, <3>4 DEF IndexInv, TablesInv, Copy
      <3>6. HeldBy(db)' /\ HeldBy(backup)'
        BY <1>0, <3>1, <3>4 DEF HeldBy
      <3>7. KeptInv'
        BY <1>0, <2>1, <2>5, <3>1, <3>4, <3>6 DEF IndexInv, KeptInv
      <3>8. QED BY <1>0, <2>2, <3>5, <3>7, QuietStays DEF IndexInv
    <2>6. QED BY <2>3, <2>4, <2>5
  <1>5. QED BY <1>1, <1>2, <1>3, <1>4

----------------------------------------------------------------------------

LEMMA IndexInvInit ==
  ASSUME Init, Orderly
  PROVE  IndexInv
  <1>1. PlaceInv
    <2>1. seeds = 2
      BY DEF Init, Orderly
    <2>2. ready \in BOOLEAN /\ missed \in BOOLEAN
      BY DEF Init
    <2>3. pc \in [Examiners -> Places]
      BY DEF Init, Places
    <2>4. /\ work = [r \in Examiners |-> work[r]] /\ snapshot = [r \in Examiners |-> snapshot[r]]
      BY DEF Init
    <2>5. /\ aside \in Nat /\ damages \in Nat /\ aside <= damages /\ damages <= MaxDamages
          /\ file = "none" /\ repair = "none"
      <3>1. MaxDamages \in Nat
        BY IndexAssumption
      <3>2. aside = 0 /\ damages = 0 /\ file = "none" /\ repair = "none"
        BY DEF Init
      <3>3. QED BY <3>1, <3>2
    <2>6. QED BY <2>1, <2>2, <2>3, <2>4, <2>5 DEF PlaceInv
  <1>2. OneAtATime /\ \A r \in Examiners : RequestInv(r)
    BY DEF Init, OneAtATime, Busy, RequestInv
  <1>3. TablesInv /\ KeptInv
    BY DEF Init, TablesInv, KeptInv, Copy
  <1>4. QED BY <1>1, <1>2, <1>3 DEF IndexInv

LEMMA IndexInvStep ==
  ASSUME IndexInv, Orderly, [Next]_vars
  PROVE  IndexInv'
  <1>1. ASSUME NEW r \in Examiners, RequestStep(r) PROVE IndexInv'
    BY <1>1, BeginKeeps, OpenKeeps, CommitKeeps, ReadKeeps, WriteKeeps, ReplaceKeeps DEF RequestStep
  <1>2. CASE UNCHANGED vars
    <2>1. UNCHANGED <<file, db, ready, seeds, backup, pc, work, snapshot, tmp, repair, aside, damages,
                      wanted, given, missed>>
      BY <1>2 DEF vars, tables, requests, counts, histories
    <2>2. PlaceInv' /\ OneAtATime'
      BY <2>1 DEF IndexInv, PlaceInv, OneAtATime, Busy, Quiet
    <2>3. \A r \in Examiners : RequestInv(r)'
      BY <2>1 DEF IndexInv, RequestInv
    <2>4. TablesInv' /\ KeptInv'
      BY <2>1 DEF IndexInv, TablesInv, KeptInv, Copy, HeldBy
    <2>5. QED BY <2>2, <2>3, <2>4 DEF IndexInv
  <1>3. CASE Next
    BY <1>1, <1>3, AutoTagKeeps, CarryOverKeeps, DamageKeeps, RestartKeeps, RepairKeeps DEF Next
  <1>4. QED BY <1>2, <1>3

(* The tables are whole, the copy too, and between them they hold the      *)
(* decisions in force (repair_case_index(), export_case_tag_state()).      *)
THEOREM IndexInvariance ==
  ASSUME Orderly
  PROVE  Spec => []IndexInv
  <1>1. Init => IndexInv
    BY IndexInvInit
  <1>2. IndexInv /\ [Next]_vars => IndexInv'
    BY IndexInvStep
  <1>3. QED BY <1>1, <1>2, PTL DEF Spec

(* Ids and names belong to one tag each, however often tags are deleted,   *)
(* renamed and restored (case_tags, restore_case_tag_state()).             *)
THEOREM IndexTypeCorrect ==
  ASSUME Orderly
  PROVE  Spec => []TypeOK
  <1>1. IndexInv => TypeOK
    <2> SUFFICES ASSUME IndexInv PROVE TypeOK
      OBVIOUS
    <2>1. /\ \A t \in db.tags : t.id \in Nat \ {0} /\ \A u \in db.tags : u.id = t.id \/ u.name = t.name => u = t
          /\ \A i, j \in db.items : i.id = j.id => i = j
      <3>1. CASE file = "good"
        BY <3>1, WholeTables DEF IndexInv, TablesInv, Numbered
      <3>2. CASE file # "good"
        <4>1. db.tags = {} /\ db.items = {}
          BY <3>2 DEF IndexInv, TablesInv, Empty
        <4>2. QED BY <4>1
      <3>3. QED BY <3>1, <3>2
    <2>2. 2 \in 1 .. Len(Defaults)
      BY DEF Defaults
    <2>3. aside \in 0 .. MaxDamages
      <3>1. MaxDamages \in Nat /\ aside \in Nat /\ damages \in Nat /\ aside <= damages /\ damages <= MaxDamages
        BY IndexAssumption DEF IndexInv, PlaceInv
      <3>2. QED BY <3>1
    <2>4. QED BY <2>1, <2>2, <2>3 DEF IndexInv, PlaceInv, TypeOK, Places
  <1>2. QED BY <1>1, IndexInvariance, PTL

(* A tag or a merge that was acknowledged survives a damaged index, its    *)
(* repair and a restart (_snapshots_tag_state(), repair_case_index()).     *)
THEOREM DecisionsSurvive ==
  ASSUME Orderly
  PROVE  Spec => []DecisionsAreKept
  <1>1. IndexInv => DecisionsAreKept
    BY DEF IndexInv, PlaceInv, KeptInv, HeldBy, DecisionsAreKept
  <1>2. QED BY <1>1, IndexInvariance, PTL

(* Nothing is shown under a tag nobody gave it: an id that is given away   *)
(* again, by a deletion or by a repair, finds no items waiting for it      *)
(* (case_index_delete_tag(), restore_case_tag_state()).                    *)
THEOREM NoDecisionIsInvented ==
  ASSUME Orderly
  PROVE  Spec => []NothingMadeUp
  <1>1. IndexInv => NothingMadeUp
    BY DEF IndexInv, KeptInv, NothingMadeUp
  <1>2. QED BY <1>1, IndexInvariance, PTL

(* Who asks for the tags gets all of them or an error, never an empty list *)
(* from a damaged index (CaseIndexUnavailable).                            *)
THEOREM DamageIsTold ==
  ASSUME Orderly
  PROVE  Spec => []NeverShownAsUntagged
  <1>1. IndexInv => NeverShownAsUntagged
    <2> SUFFICES ASSUME IndexInv, repair = "none", ~Refused PROVE wanted \subseteq Listing
      BY DEF NeverShownAsUntagged
    <2>1. CASE file = "good"
      BY <2>1 DEF IndexInv, KeptInv, HeldBy, Listing
    <2>2. CASE file = "none"
      BY <2>2 DEF IndexInv, TablesInv
    <2>3. QED BY <2>1, <2>2 DEF Refused, IndexInv, PlaceInv
  <1>2. QED BY <1>1, IndexInvariance, PTL

----------------------------------------------------------------------------
(* Merges.  That they stay flat needs only that no two requests overlap,   *)
(* whatever else goes wrong.                                               *)

Serial == "overlap" \notin Faults
Shaped(d) == d = [tags |-> d.tags, items |-> d.items, merges |-> d.merges]
Flat(d) == Shaped(d) /\ \A m, n \in d.merges : m.merged # n.primary

Ops == {"tag", "untag", "create", "delete", "rename", "merge", "unmerge"}

FlatRequest(r) ==
    /\ pc[r] = "open" => work[r] \in Work
    /\ pc[r] = "commit" => work[r].op \in Ops
    /\ pc[r] = "commit" /\ file = "good" /\ work[r].op = "merge"
         => ~Tied(db, work[r]) /\ work[r].primary # work[r].merged
    /\ pc[r] = "write" => Flat(snapshot[r])

FlatInv ==
    /\ pc \in [Examiners -> Places]
    /\ work = [r \in Examiners |-> work[r]] /\ snapshot = [r \in Examiners |-> snapshot[r]]
    /\ OneAtATime
    /\ Flat(db) /\ (backup = None \/ Flat(backup)) /\ (tmp = None \/ Flat(tmp))
    /\ file # "good" => db = Empty
    /\ repair \in {"aside", "rebuild"} => file # "good"
    /\ repair = "restore" => db.merges = {}
    /\ \A r \in Examiners : FlatRequest(r)

LEMMA FlatEmpty == Flat(Empty) /\ Empty.merges = {}
  BY DEF Flat, Shaped, Empty

(* Only merges and their removal touch the merges.                         *)
LEMMA MergesUntouched ==
  ASSUME NEW d, Shaped(d)
  PROVE  /\ \A T : LET e == [d EXCEPT !.tags = T] IN Shaped(e) /\ e.merges = d.merges
         /\ \A I : LET e == [d EXCEPT !.items = I] IN Shaped(e) /\ e.merges = d.merges
         /\ \A M : LET e == [d EXCEPT !.merges = M] IN Shaped(e) /\ e.merges = M
  <1>1. ASSUME NEW T PROVE LET e == [d EXCEPT !.tags = T] IN Shaped(e) /\ e.merges = d.merges
    BY DEF Shaped
  <1>2. ASSUME NEW I PROVE LET e == [d EXCEPT !.items = I] IN Shaped(e) /\ e.merges = d.merges
    BY DEF Shaped
  <1>3. ASSUME NEW M PROVE LET e == [d EXCEPT !.merges = M] IN Shaped(e) /\ e.merges = M
    BY DEF Shaped
  <1>4. QED BY <1>1, <1>2, <1>3

LEMMA UntouchedIsFlat ==
  ASSUME NEW d, Flat(d)
  PROVE  /\ \A T : Flat([d EXCEPT !.tags = T])
         /\ \A I : Flat([d EXCEPT !.items = I])
  <1>1. Shaped(d)
    BY DEF Flat
  <1>2. ASSUME NEW T PROVE Flat([d EXCEPT !.tags = T])
    <2>1. Shaped([d EXCEPT !.tags = T]) /\ [d EXCEPT !.tags = T].merges = d.merges
      BY <1>1, MergesUntouched
    <2> DEFINE e == [d EXCEPT !.tags = T]
    <2> HIDE DEF e
    <2>2. Flat(e)
      BY <2>1 DEF Flat, e
    <2>3. QED BY <2>2 DEF e
  <1>3. ASSUME NEW I PROVE Flat([d EXCEPT !.items = I])
    <2>1. Shaped([d EXCEPT !.items = I]) /\ [d EXCEPT !.items = I].merges = d.merges
      BY <1>1, MergesUntouched
    <2>2. QED BY <2>1 DEF Flat
  <1>4. QED BY <1>2, <1>3

LEMMA OpenedIsFlat ==
  ASSUME Flat(db)
  PROVE  Flat(Opened) /\ Opened.merges = db.merges
  <1>1. Shaped(Seeded(db)) /\ Seeded(db).merges = db.merges
    BY MergesUntouched DEF Seeded, Flat
  <1>2. QED BY <1>1 DEF Opened, Flat

LEMMA TaggedIsFlat ==
  ASSUME NEW d, Flat(d), NEW f, NEW t
  PROVE  Flat(Tagged(d, f, t)) /\ Tagged(d, f, t).merges = d.merges
  BY MergesUntouched DEF Tagged, Flat

LEMMA ChangedIsFlat ==
  ASSUME NEW d, Flat(d), NEW w, w.op \in Ops,
         w.op = "merge" => ~Tied(d, w) /\ w.primary # w.merged
  PROVE  Flat(Changed(d, w))
  <1>1. CASE w.op = "tag"
    BY <1>1, TaggedIsFlat DEF Changed
  <1>2. CASE w.op = "untag"
    BY <1>2, UntouchedIsFlat DEF Changed, Untagged
  <1>3. CASE w.op = "create"
    BY <1>3, UntouchedIsFlat DEF Changed
  <1>4. CASE w.op = "rename"
    BY <1>4, UntouchedIsFlat DEF Changed, Renamed
  <1>5. CASE w.op = "delete"
    <2> DEFINE T == {t \in d.tags : t.id # w.id}
               I == {i \in d.items : i.tag # w.id}
               e == [tags |-> T, items |-> I, merges |-> d.merges]
    <2>1. [d EXCEPT !.tags = T, !.items = I] = [[d EXCEPT !.tags = T] EXCEPT !.items = I]
      OBVIOUS
    <2>2. Changed(d, w) = [[d EXCEPT !.tags = T] EXCEPT !.items = I]
      BY <1>5, <2>1 DEF Changed, Deleted
    <2> HIDE DEF T, I
    <2>3. Flat([d EXCEPT !.tags = T])
      BY UntouchedIsFlat
    <2> DEFINE c == [d EXCEPT !.tags = T]
    <2> HIDE DEF c
    <2>4. Flat([c EXCEPT !.items = I])
      BY <2>3, UntouchedIsFlat DEF c
    <2>5. QED BY <2>2, <2>4 DEF c
  <1>6. CASE w.op = "merge"
    <2> DEFINE m == [primary |-> w.primary, merged |-> w.merged]
               e == [d EXCEPT !.merges = @ \cup {m}]
    <2>1. Changed(d, w) = e
      BY <1>6 DEF Changed
    <2>2. Shaped(e) /\ e.merges = d.merges \cup {m}
      BY MergesUntouched DEF Flat
    <2>3. m.primary = w.primary /\ m.merged = w.merged
      OBVIOUS
    <2> HIDE DEF e, m
    <2>4. \A n \in d.merges : n.merged # m.primary /\ n.primary # m.merged
      BY <1>6, <2>3 DEF Tied
    <2>5. \A n, o \in d.merges \cup {m} : n.merged # o.primary
      BY <1>6, <2>3, <2>4 DEF Flat
    <2>6. QED BY <2>1, <2>2, <2>5 DEF Flat
  <1>7. CASE w.op = "unmerge"
    <2> DEFINE M == {m \in d.merges : m.merged # w.merged}
    <2>1. Changed(d, w) = [d EXCEPT !.merges = M]
      BY <1>7 DEF Changed
    <2>2. M \subseteq d.merges
      OBVIOUS
    <2> HIDE DEF M
    <2>3. QED BY <2>1, <2>2, MergesUntouched DEF Flat
  <1>8. QED BY <1>1, <1>2, <1>3, <1>4, <1>5, <1>6, <1>7 DEF Ops

LEMMA FoundIsListed ==
  ASSUME NEW d, NEW w \in Work
  PROVE  Found(d, w).op \in Ops /\ (Found(d, w).op = "merge" => w.op = "merge" /\ Found(d, w) = w)
  <1>1. w.op \in Ops \cup {"new"}
    BY DEF Work, Tagging, NewTag, TagChange, Merging, Ops
  <1>2. CASE w.op = "new"
    BY <1>2 DEF Found, Ops
  <1>3. CASE w.op # "new"
    BY <1>1, <1>3 DEF Found
  <1>4. QED BY <1>2, <1>3

LEMMA MergingDiffers ==
  ASSUME NEW w \in Work, w.op = "merge"
  PROVE  w.primary # w.merged
  BY DEF Work, Tagging, NewTag, TagChange, Merging

(* A request that moves on or ends leaves the others where they are.       *)
LEMMA OnlyOneMoves ==
  ASSUME FlatInv, NEW r \in Examiners, Busy(r), repair' = repair,
         NEW p \in Places, pc' = [pc EXCEPT ![r] = p]
  PROVE  /\ pc' \in [Examiners -> Places] /\ pc'[r] = p /\ repair = "none"
         /\ OneAtATime'
         /\ FlatRequest(r)' => \A q \in Examiners : FlatRequest(q)'
  <1>1. \A q \in Examiners : q # r => pc[q] = "idle"
    BY DEF FlatInv, OneAtATime, Busy
  <1>2. /\ pc' \in [Examiners -> Places] /\ pc'[r] = p
        /\ \A q \in Examiners : q # r => pc'[q] = "idle"
    BY <1>1 DEF FlatInv
  <1>3. repair = "none"
    BY DEF FlatInv, OneAtATime, Busy, Quiet
  <1>4. OneAtATime'
    BY <1>2, <1>3 DEF OneAtATime, Busy
  <1>5. ASSUME NEW q \in Examiners, q # r PROVE FlatRequest(q)'
    BY <1>2, <1>5 DEF FlatRequest
  <1>6. QED BY <1>2, <1>3, <1>4, <1>5

LEMMA OneEnds ==
  ASSUME FlatInv, NEW r \in Examiners, Busy(r), repair' = repair, End(r)
  PROVE  /\ pc' \in [Examiners -> Places]
         /\ work' = [q \in Examiners |-> work'[q]] /\ snapshot' = [q \in Examiners |-> snapshot'[q]]
         /\ OneAtATime' /\ repair = "none"
         /\ \A q \in Examiners : FlatRequest(q)'
  <1>1. pc' = [pc EXCEPT ![r] = "idle"] /\ "idle" \in Places
    BY DEF End, Places
  <1>2. pc'[r] = "idle"
    BY <1>1, OnlyOneMoves
  <1>3. FlatRequest(r)'
    BY <1>2 DEF FlatRequest
  <1>4. work' = [q \in Examiners |-> work'[q]] /\ snapshot' = [q \in Examiners |-> snapshot'[q]]
    BY DEF End, FlatInv
  <1>5. QED BY <1>1, <1>3, <1>4, OnlyOneMoves

LEMMA RequestsStayFlat ==
  ASSUME FlatInv, Serial, NEW r \in Examiners, RequestStep(r)
  PROVE  FlatInv'
  <1>1. CASE Begin(r)
    <2>1. Quiet /\ repair = "none"
      BY <1>1 DEF Begin, Alone, Serial
    <2>2. /\ pc' = [pc EXCEPT ![r] = "open"]
          /\ UNCHANGED <<file, db, backup, tmp, snapshot, repair>>
      BY <1>1 DEF Begin, tables
    <2>3. PICK w \in Work : work' = [work EXCEPT ![r] = w]
      BY <1>1 DEF Begin
    <2>4. /\ pc'[r] = "open" /\ work'[r] = w /\ \A q \in Examiners : q # r => pc'[q] = "idle"
          /\ pc' \in [Examiners -> Places] /\ work' = [q \in Examiners |-> work'[q]]
      BY <2>1, <2>2, <2>3 DEF FlatInv, Quiet, Places
    <2>5. OneAtATime'
      BY <2>1, <2>2, <2>4 DEF OneAtATime, Busy
    <2>6. \A q \in Examiners : FlatRequest(q)'
      BY <2>4 DEF FlatRequest
    <2>7. QED BY <2>1, <2>2, <2>4, <2>5, <2>6 DEF FlatInv
  <1>2. CASE Open(r)
    <2> DEFINE w == work[r]
               d == IF w.op = "new" THEN [Opened EXCEPT !.tags = WithTag(@, w.name, FALSE)] ELSE Opened
    <2>1. /\ pc[r] = "open" /\ Busy(r) /\ w \in Work /\ UNCHANGED <<backup, tmp, repair>>
      BY <1>2 DEF Open, Busy, FlatInv, FlatRequest
    <2>2. CASE file = "damaged" \/ (file = "none" /\ ~Makes(w))
      <3>1. End(r) /\ UNCHANGED <<file, db, ready>>
        BY <1>2, <2>2 DEF Open, tables
      <3>2. QED BY <2>1, <3>1, OneEnds DEF FlatInv
    <2>3. CASE ~(file = "damaged" \/ (file = "none" /\ ~Makes(w)))
      <3>1. /\ file' = "good" /\ db' = d
            /\ IF Allowed(Opened, w)
               THEN /\ pc' = [pc EXCEPT ![r] = "commit"] /\ UNCHANGED snapshot
                    /\ work' = [work EXCEPT ![r] = Found(d, w)]
               ELSE End(r)
        BY <1>2, <2>3 DEF Open
      <3>2. Flat(Opened)
        BY OpenedIsFlat DEF FlatInv
      <3>3. Flat(d) /\ (w.op # "new" => d = Opened)
        BY <3>2, UntouchedIsFlat
      <3> HIDE DEF d
      <3>4. CASE Allowed(Opened, w)
        <4>1. /\ pc' = [pc EXCEPT ![r] = "commit"] /\ "commit" \in Places /\ snapshot' = snapshot
              /\ work' = [work EXCEPT ![r] = Found(d, w)]
          BY <3>1, <3>4 DEF Places
        <4>2. work'[r] = Found(d, w) /\ work' = [q \in Examiners |-> work'[q]] /\ pc'[r] = "commit"
          BY <4>1 DEF FlatInv
        <4>3. Found(d, w).op \in Ops /\ (Found(d, w).op = "merge" => w.op = "merge" /\ Found(d, w) = w)
          BY <2>1, FoundIsListed
        <4>4. w.op = "merge" => ~Tied(Opened, w) /\ w.primary # w.merged /\ d = Opened
          BY <2>1, <3>3, <3>4, MergingDiffers DEF Allowed
        <4>5. FlatRequest(r)'
          BY <3>1, <4>2, <4>3, <4>4 DEF FlatRequest
        <4>6. QED BY <2>1, <3>1, <3>3, <4>1, <4>2, <4>5, OnlyOneMoves DEF FlatInv
      <3>5. CASE ~Allowed(Opened, w)
        <4>1. End(r)
          BY <3>1, <3>5
        <4>2. QED BY <2>1, <3>1, <3>3, <4>1, OneEnds DEF FlatInv
      <3>6. QED BY <3>4, <3>5
    <2>4. QED BY <2>2, <2>3
  <1>3. CASE Commit(r)
    <2> DEFINE w == work[r]
    <2>1. pc[r] = "commit" /\ Busy(r) /\ UNCHANGED <<file, backup, tmp, repair>>
      BY <1>3 DEF Commit, Busy
    <2>2. CASE ~(file = "good" /\ Unique(db, w))
      <3>1. End(r) /\ UNCHANGED db
        BY <1>3, <2>2 DEF Commit
      <3>2. QED BY <2>1, <3>1, OneEnds DEF FlatInv
    <2>3. CASE file = "good" /\ Unique(db, w)
      <3>1. /\ db' = Changed(db, w) /\ snapshot' = snapshot /\ work' = [work EXCEPT ![r] = None]
            /\ pc' = [pc EXCEPT ![r] = "read"] /\ "read" \in Places
        BY <1>3, <2>3 DEF Commit, Places
      <3>2. Flat(db')
        BY <2>1, <2>3, <3>1, ChangedIsFlat DEF FlatInv, FlatRequest
      <3>3. pc'[r] = "read" /\ work' = [q \in Examiners |-> work'[q]]
        BY <3>1 DEF FlatInv
      <3>4. FlatRequest(r)'
        BY <3>3 DEF FlatRequest
      <3>5. QED BY <2>1, <2>3, <3>1, <3>2, <3>3, <3>4, OnlyOneMoves DEF FlatInv
    <2>4. QED BY <2>2, <2>3
  <1>4. CASE Read(r)
    <2>1. pc[r] = "read" /\ Busy(r) /\ UNCHANGED <<file, db, backup, tmp, repair>>
      BY <1>4 DEF Read, Busy, tables
    <2>2. CASE file # "good"
      <3>1. End(r)
        BY <1>4, <2>2 DEF Read
      <3>2. QED BY <2>1, <3>1, OneEnds DEF FlatInv
    <2>3. CASE file = "good"
      <3>1. /\ snapshot' = [snapshot EXCEPT ![r] = db] /\ work' = work
            /\ pc' = [pc EXCEPT ![r] = "write"] /\ "write" \in Places
        BY <1>4, <2>3 DEF Read, Places
      <3>2. snapshot'[r] = db /\ snapshot' = [q \in Examiners |-> snapshot'[q]] /\ pc'[r] = "write"
        BY <3>1 DEF FlatInv
      <3>3. FlatRequest(r)'
        BY <3>2 DEF FlatRequest, FlatInv
      <3>4. QED BY <2>1, <3>1, <3>2, <3>3, OnlyOneMoves DEF FlatInv
    <2>4. QED BY <2>2, <2>3
  <1>5. CASE Write(r)
    <2>1. pc[r] = "write" /\ Busy(r) /\ UNCHANGED <<file, db, backup, repair>> /\ Flat(snapshot[r])
      BY <1>5 DEF Write, Busy, tables, FlatInv, FlatRequest
    <2>2. ASSUME tmp' = None, End(r) PROVE FlatInv'
      BY <2>1, <2>2, OneEnds DEF FlatInv
    <2>3. ASSUME tmp' = snapshot[r], pc' = [pc EXCEPT ![r] = "replace"], UNCHANGED <<work, snapshot>>
          PROVE  FlatInv'
      <3>1. pc'[r] = "replace" /\ "replace" \in Places
        BY <2>3 DEF FlatInv, Places
      <3>2. FlatRequest(r)'
        BY <3>1 DEF FlatRequest
      <3>3. QED BY <2>1, <2>3, <3>1, <3>2, OnlyOneMoves DEF FlatInv
    <2>4. QED BY <1>5, <2>2, <2>3 DEF Write
  <1>6. CASE Replace(r)
    <2>1. /\ pc[r] = "replace" /\ Busy(r) /\ End(r) /\ tmp' = None
          /\ UNCHANGED <<file, db, repair>> /\ (backup' = backup \/ (tmp # None /\ backup' = tmp))
      BY <1>6 DEF Replace, Busy, tables
    <2>2. QED BY <2>1, OneEnds DEF FlatInv
  <1>7. QED BY <1>1, <1>2, <1>3, <1>4, <1>5, <1>6 DEF RequestStep

LEMMA QuietFlat ==
  ASSUME FlatInv, Quiet, UNCHANGED <<pc, work, snapshot>>
  PROVE  /\ pc' \in [Examiners -> Places]
         /\ work' = [r \in Examiners |-> work'[r]] /\ snapshot' = [r \in Examiners |-> snapshot'[r]]
         /\ OneAtATime'
         /\ \A r \in Examiners : FlatRequest(r)'
  <1>1. \A r \in Examiners : pc'[r] = "idle"
    BY DEF Quiet
  <1>2. OneAtATime' /\ \A r \in Examiners : FlatRequest(r)'
    BY <1>1 DEF OneAtATime, Busy, Quiet, FlatRequest
  <1>3. QED BY <1>2 DEF FlatInv

LEMMA OthersStayFlat ==
  ASSUME FlatInv, Serial,
         \/ \E f \in Reports : AutoTag(f)
         \/ \E f, g \in Files : CarryOver(f, g)
         \/ Damage \/ Restart \/ RepairBegins \/ SetAside \/ Rebuild \/ Restore
  PROVE  FlatInv'
  <1>0. Flat(Opened) /\ Opened.merges = db.merges
    BY OpenedIsFlat DEF FlatInv
  <1>1. ASSUME NEW f \in Reports, AutoTag(f) PROVE FlatInv'
    <2>1. /\ Quiet /\ repair = "none" /\ file' = "good"
          /\ UNCHANGED <<backup, pc, work, snapshot, tmp, repair>>
      BY <1>1 DEF AutoTag, Alone, Serial, requests
    <2>2. \E t : db' = Opened \/ db' = Tagged(Opened, f, t.id)
      BY <1>1 DEF AutoTag
    <2>3. Flat(db')
      BY <1>0, <2>2, TaggedIsFlat
    <2>4. QED BY <2>1, <2>3, QuietFlat DEF FlatInv
  <1>2. ASSUME NEW f \in Files, NEW g \in Files, CarryOver(f, g) PROVE FlatInv'
    <2>1. /\ Quiet /\ repair = "none" /\ file' = file /\ file = "good"
          /\ UNCHANGED <<backup, pc, work, snapshot, tmp, repair>>
      BY <1>2 DEF CarryOver, Alone, Serial, requests
    <2>2. \E n : db' = Carried(Opened, f, g, n)
      BY <1>2 DEF CarryOver
    <2>3. Flat(db')
      BY <1>0, <2>2, UntouchedIsFlat DEF Carried
    <2>4. QED BY <2>1, <2>3, QuietFlat DEF FlatInv
  <1>3. CASE Damage
    <2>1. /\ file = "good" /\ file' # "good" /\ db' = Empty
          /\ UNCHANGED <<backup, pc, work, snapshot, tmp, repair>>
      BY <1>3 DEF Damage, requests
    <2>2. OneAtATime'
      BY <2>1 DEF FlatInv, OneAtATime, Busy, Quiet
    <2>3. ASSUME NEW r \in Examiners PROVE FlatRequest(r)'
      BY <2>1 DEF FlatInv, FlatRequest
    <2>4. QED BY <2>1, <2>2, <2>3, FlatEmpty DEF FlatInv
  <1>4. CASE Restart
    <2>1. /\ pc' = [r \in Examiners |-> "idle"] /\ work' = [r \in Examiners |-> None]
          /\ snapshot' = [r \in Examiners |-> None] /\ repair' = "none"
          /\ UNCHANGED <<file, db, backup, tmp>>
      BY <1>4 DEF Restart
    <2>2. OneAtATime' /\ \A r \in Examiners : FlatRequest(r)'
      BY <2>1 DEF OneAtATime, Busy, FlatRequest
    <2>3. QED BY <2>1, <2>2 DEF FlatInv, Places
  <1>5. CASE RepairBegins
    <2>1. /\ Quiet /\ file # "good" /\ repair' = "aside"
          /\ UNCHANGED <<file, db, backup, pc, work, snapshot, tmp>>
      BY <1>5 DEF RepairBegins, Alone, Serial, Health, tables, requests
    <2>2. QED BY <2>1, QuietFlat DEF FlatInv
  <1>6. CASE SetAside
    <2>1. /\ Quiet /\ repair = "aside" /\ UNCHANGED <<db, backup, pc, work, snapshot, tmp>>
          /\ \/ file' = "none" /\ repair' = "rebuild"
             \/ file' = file /\ repair' = "none"
      BY <1>6 DEF SetAside, requests, FlatInv, OneAtATime
    <2>2. file # "good"
      BY <2>1 DEF FlatInv
    <2>3. QED BY <2>1, <2>2, QuietFlat DEF FlatInv
  <1>7. CASE Rebuild
    <2>1. /\ Quiet /\ repair = "rebuild" /\ repair' = "restore"
          /\ UNCHANGED <<backup, pc, work, snapshot, tmp>>
          /\ (file' = file /\ db' = db) \/ (file' = "good" /\ db' = Opened)
      BY <1>7 DEF Rebuild, requests, tables, FlatInv, OneAtATime
    <2>2. file # "good" /\ db.merges = {}
      BY <2>1, FlatEmpty DEF FlatInv
    <2>3. Flat(db') /\ db'.merges = {}
      BY <1>0, <2>1, <2>2 DEF FlatInv
    <2>4. file' # "good" => db' = Empty
      BY <2>1, <2>2 DEF FlatInv
    <2>5. QED BY <2>1, <2>3, <2>4, QuietFlat DEF FlatInv
  <1>8. CASE Restore
    <2>1. /\ Quiet /\ repair = "restore" /\ repair' = "none"
          /\ UNCHANGED <<file, backup, pc, work, snapshot, tmp>>
          /\ db' = db \/ (file = "good" /\ backup # None /\ db' = Restored(db, backup))
      BY <1>8 DEF Restore, requests, FlatInv, OneAtATime
    <2>2. CASE db' = db
      BY <2>1, <2>2, QuietFlat DEF FlatInv
    <2>3. CASE file = "good" /\ backup # None /\ db' = Restored(db, backup)
      <3>1. db.merges = {} /\ Flat(backup)
        BY <2>1, <2>3 DEF FlatInv
      <3> DEFINE T == db.tags \cup {t \in backup.tags : t.id \notin Ids(db.tags)}
                 I == db.items \cup {i \in backup.items : i.id \notin Ids(db.items)}
                 M == db.merges \cup {m \in backup.merges : \A n \in db.merges : n.merged # m.merged}
                 e == [tags |-> T, items |-> I, merges |-> M]
      <3>2. db' = e
        BY <2>3 DEF Restored
      <3>3. M \subseteq backup.merges
        BY <3>1
      <3> HIDE DEF T, I, M
      <3>4. e.merges = M /\ Shaped(e)
        BY DEF Shaped
      <3> HIDE DEF e
      <3>5. Flat(db')
        BY <3>1, <3>2, <3>3, <3>4 DEF Flat
      <3>6. QED BY <2>1, <2>3, <3>5, QuietFlat DEF FlatInv
    <2>4. QED BY <2>1, <2>2, <2>3
  <1>9. QED BY <1>1, <1>2, <1>3, <1>4, <1>5, <1>6, <1>7, <1>8

LEMMA FlatInvariance ==
  ASSUME Serial
  PROVE  Spec => []FlatInv
  <1>1. Init => FlatInv
    <2> SUFFICES ASSUME Init PROVE FlatInv
      OBVIOUS
    <2>1. OneAtATime /\ \A r \in Examiners : FlatRequest(r)
      BY DEF Init, OneAtATime, Busy, FlatRequest
    <2>2. QED BY <2>1, FlatEmpty DEF Init, FlatInv, Places
  <1>2. ASSUME FlatInv, [Next]_vars PROVE FlatInv'
    <2>1. CASE UNCHANGED vars
      <3>1. UNCHANGED <<file, db, backup, pc, work, snapshot, tmp, repair>>
        BY <2>1 DEF vars, tables, requests
      <3>2. OneAtATime'
        BY <1>2, <3>1 DEF FlatInv, OneAtATime, Busy, Quiet
      <3>3. \A r \in Examiners : FlatRequest(r)'
        BY <1>2, <3>1 DEF FlatInv, FlatRequest
      <3>4. QED BY <1>2, <3>1, <3>2, <3>3 DEF FlatInv
    <2>2. CASE Next
      BY <1>2, <2>2, RequestsStayFlat, OthersStayFlat DEF Next
    <2>3. QED BY <1>2, <2>1, <2>2
  <1>3. QED BY <1>1, <1>2, PTL DEF Spec

(* No merge leads to a contact that is merged away, as long as requests    *)
(* do not overlap and whatever else goes wrong: lost files, interrupted    *)
(* repairs, older versions (case_index_merge_contacts()).                  *)
THEOREM MergesStayFlat ==
  ASSUME Serial
  PROVE  Spec => []MergesAreFlat
  <1>1. FlatInv => MergesAreFlat
    <2> SUFFICES ASSUME FlatInv, NEW c \in Contacts PROVE ShownUnder(ShownUnder(c)) = ShownUnder(c)
      BY DEF MergesAreFlat
    <2>1. CASE \E m \in db.merges : m.merged = c
      <3> DEFINE m == CHOOSE m \in db.merges : m.merged = c
      <3>1. m \in db.merges
        BY <2>1
      <3>2. ShownUnder(c) = m.primary
        BY <2>1 DEF ShownUnder
      <3> HIDE DEF m
      <3>3. ~ \E n \in db.merges : n.merged = m.primary
        BY <3>1 DEF FlatInv, Flat
      <3>4. QED BY <3>2, <3>3 DEF ShownUnder
    <2>2. CASE ~ \E m \in db.merges : m.merged = c
      BY <2>2 DEF ShownUnder
    <2>3. QED BY <2>1, <2>2
  <1>2. QED BY <1>1, FlatInvariance, PTL

=============================================================================
