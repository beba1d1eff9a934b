------------------------- MODULE CommentCheckProofs -------------------------
(***************************************************************************)
(* Machine-checked proofs about the comment checker (CommentPolicy,        *)
(* CommentCheck), for any trees, command lines, go.mod and order in which  *)
(* the map of directories is gone through.                                 *)
(***************************************************************************)
EXTENDS CommentCheck, SequenceFacts

(***************************************************************************)
(* Findings at different places.                                           *)
(***************************************************************************)

\* Concatenation keeps places distinct when no place is in both parts.
LEMMA ConcatDistinct ==
  ASSUME NEW S, NEW a \in Seq(S), NEW b \in Seq(S), Distinct(a), Distinct(b),
         \A x \in ToSet(a), y \in ToSet(b) : ~SamePlace(x, y)
  PROVE  Distinct(a \o b)
<1>1. /\ Len(a) \in Nat /\ Len(b) \in Nat
      /\ DOMAIN a = 1..Len(a) /\ DOMAIN b = 1..Len(b) /\ DOMAIN (a \o b) = 1..(Len(a) + Len(b))
      /\ \A i \in 1..(Len(a) + Len(b)) : (a \o b)[i] = IF i <= Len(a) THEN a[i] ELSE b[i - Len(a)]
  BY ConcatProperties, LenProperties
<1> DEFINE m == Len(a)  n == Len(b)  c == a \o b
<1> HIDE DEF m, n, c
<1>2. ASSUME NEW i \in 1..(m + n)
      PROVE  (i \in 1..m /\ c[i] = a[i]) \/ (i - m \in 1..n /\ c[i] = b[i - m])
  BY <1>1 DEF m, n, c
<1>3. DOMAIN a = 1..m /\ DOMAIN b = 1..n /\ DOMAIN c = 1..(m + n) /\ m \in Nat /\ n \in Nat
  BY <1>1 DEF m, n, c
<1>4. \A i \in 1..m : a[i] \in ToSet(a)
  BY <1>3 DEF ToSet
<1>5. \A i \in 1..n : b[i] \in ToSet(b)
  BY <1>3 DEF ToSet
<1>6. \A x, y : SamePlace(x, y) => SamePlace(y, x)
  BY DEF SamePlace
<1> SUFFICES ASSUME NEW i \in 1..(m + n), NEW k \in 1..(m + n), SamePlace(c[i], c[k])
             PROVE  i = k
  BY <1>3 DEF Distinct, c
<1>7. CASE i \in 1..m /\ c[i] = a[i] /\ k \in 1..m /\ c[k] = a[k]
  BY <1>3, <1>7 DEF Distinct
<1>8. CASE i \in 1..m /\ c[i] = a[i] /\ k - m \in 1..n /\ c[k] = b[k - m]
  BY <1>4, <1>5, <1>8
<1>9. CASE i - m \in 1..n /\ c[i] = b[i - m] /\ k \in 1..m /\ c[k] = a[k]
  BY <1>4, <1>5, <1>6, <1>9
<1>10. CASE i - m \in 1..n /\ c[i] = b[i - m] /\ k - m \in 1..n /\ c[k] = b[k - m]
  <2>1. i - m = k - m
    BY <1>3, <1>10 DEF Distinct
  <2> QED
    BY <1>3, <2>1
<1> QED
  BY <1>2, <1>7, <1>8, <1>9, <1>10

\* FlattenSeq keeps places distinct when no place is in two parts.
LEMMA FlattenDistinct ==
  ASSUME NEW S, NEW s \in Seq(Seq(S)),
         \A i \in DOMAIN s : Distinct(s[i]),
         \A i, k \in DOMAIN s : i # k =>
           \A x \in ToSet(s[i]), y \in ToSet(s[k]) : ~SamePlace(x, y)
  PROVE  Distinct(FlattenSeq(s))
<1>1. /\ Len(s) \in Nat /\ DOMAIN s = 1..Len(s)
      /\ \A i \in 1..Len(s) : s[i] \in Seq(S)
  BY LenProperties, ElementOfSeq
<1>2. CASE Len(s) = 0
  <2>1. s = <<>> /\ FlattenSeq(s) = s
    BY <1>2, EmptySeq DEF FlattenSeq
  <2> QED
    BY <1>1, <1>2, <2>1 DEF Distinct
<1>3. CASE Len(s) # 0
  <2>1. PICK g : Joins(g, s, Len(s)) /\ FlattenSeq(s) = g[Len(s)]
    BY <1>1, <1>3, FlattenUnfolds
  <2> DEFINE n == Len(s)
             Good(k) == /\ g[k] \in Seq(S) /\ Distinct(g[k])
                        /\ \A x \in ToSet(g[k]) : \E i \in 1..k : x \in ToSet(s[i])
             Bad == {k \in 1..n : ~Good(k)}
  <2>2. Bad = {}
    <3> SUFFICES ASSUME Bad # {} PROVE FALSE
      OBVIOUS
    <3>1. Bad \in SUBSET Nat
      BY <1>1
    <3>2. PICK k \in Bad : \A l \in Bad : k <= l
      <4> HIDE DEF Bad
      <4> QED
        BY <3>1, LeastNatural
    <3>3. k \in 1..n /\ ~Good(k)
      BY <3>2
    <3>4. g[k] = IF k = 1 THEN s[k] ELSE g[k-1] \o s[k]
      BY <2>1, <3>3 DEF Joins
    <3>5. s[k] \in Seq(S) /\ Distinct(s[k])
      BY <1>1, <3>3
    <3>6. CASE k = 1
      BY <3>3, <3>4, <3>5, <3>6
    <3>7. CASE k # 1
      <4>1. k - 1 \in 1..n /\ ~(k <= k - 1)
        BY <1>1, <3>3, <3>7
      <4>2. Good(k - 1)
        BY <3>2, <4>1
      <4>3. /\ g[k] \in Seq(S) /\ ToSet(g[k]) = ToSet(g[k - 1]) \cup ToSet(s[k])
        BY <3>4, <3>5, <3>7, <4>2, ConcatFacts
      <4>4. \A i \in 1..(k - 1) : i \in 1..k /\ i \in 1..n /\ i # k
        BY <1>1, <3>3, <3>7
      <4>5. \A x \in ToSet(g[k - 1]), y \in ToSet(s[k]) : ~SamePlace(x, y)
        BY <1>1, <3>3, <4>2, <4>4
      <4>6. Distinct(g[k])
        BY <3>4, <3>5, <3>7, <4>2, <4>5, ConcatDistinct
      <4>7. k \in 1..k
        BY <1>1, <3>3
      <4>8. \A x \in ToSet(g[k]) : \E i \in 1..k : x \in ToSet(s[i])
        BY <4>2, <4>3, <4>4, <4>7
      <4> QED
        BY <3>3, <4>3, <4>6, <4>8
    <3> QED
      BY <3>6, <3>7
  <2>3. n \in 1..n
    BY <1>1, <1>3
  <2>4. Good(n)
    BY <2>2, <2>3
  <2> QED
    BY <2>1, <2>4
<1> QED
  BY <1>2, <1>3


-----------------------------------------------------------------------------
(***************************************************************************)
(* The rules.                                                              *)
(***************************************************************************)

\* A file of a tree, and a comment group of it.
LEMMA FileFacts ==
  ASSUME NEW file \in Entries
  PROVE  /\ file.name \in ToSet(PathOrder) /\ file.groups \in Seq(Groups)
         /\ file.test \in BOOLEAN /\ file.generated \in BOOLEAN
         /\ Len(file.groups) \in Nat /\ DOMAIN file.groups = 1..Len(file.groups)
BY LenProperties DEF Entries

LEMMA GroupFacts ==
  ASSUME NEW file \in Entries, NEW j \in DOMAIN file.groups
  PROVE  /\ j \in Nat /\ file.groups[j] \in Groups
         /\ file.groups[j].place \in {"package", "doc", "body", "loose"}
         /\ file.groups[j].lines \in Seq(CommentLines) /\ file.groups[j].lines # <<>>
         /\ file.groups[j].owner \in Seq(Nodes)
         /\ file.groups[j].place \in {"package", "loose"} => file.groups[j].owner = <<>>
         /\ Len(file.groups[j].lines) \in Nat
         /\ DOMAIN file.groups[j].lines = 1..Len(file.groups[j].lines)
<1>1. j \in 1..Len(file.groups) /\ Len(file.groups) \in Nat /\ file.groups \in Seq(Groups)
  BY FileFacts
<1>2. j \in Nat /\ file.groups[j] \in Groups
  BY <1>1, ElementOfSeq
<1> DEFINE group == file.groups[j]
<1> HIDE DEF group
<1>3. group \in Groups
  BY <1>2 DEF group
<1>4. /\ group.place \in {"package", "doc", "body", "loose"}
      /\ group.lines \in Seq(CommentLines) /\ group.lines # <<>>
      /\ group.owner \in Seq(Nodes)
      /\ group.place \in {"package", "loose"} => group.owner = <<>>
  BY <1>3 DEF Groups
<1>5. Len(group.lines) \in Nat /\ DOMAIN group.lines = 1..Len(group.lines)
  BY <1>4, LenProperties
<1> QED
  BY <1>2, <1>4, <1>5 DEF group

\* One finding, or none.
LEMMA SingleFacts ==
  ASSUME NEW S, NEW f \in S
  PROVE  /\ <<f>> \in Seq(S) /\ ToSet(<<f>>) = {f} /\ Distinct(<<f>>) /\ <<f>> # <<>>
         /\ <<>> \in Seq(S) /\ ToSet(<<>>) = {} /\ Distinct(<<>>)
<1>1. <<f>> \in Seq(S) /\ <<>> \in Seq(S) /\ Len(<<f>>) = 1 /\ DOMAIN <<f>> = {1} /\ <<f>>[1] = f
  OBVIOUS
<1>2. DOMAIN <<>> = {}
  OBVIOUS
<1>3. ToSet(<<f>>) = {f} /\ Distinct(<<f>>)
  BY <1>1 DEF ToSet, Distinct
<1>4. ToSet(<<>>) = {} /\ Distinct(<<>>)
  BY <1>2 DEF ToSet, Distinct
<1> QED
  BY <1>1, <1>3, <1>4

\* The findings at some lines of a group: one for each, at that line.
LEMMA AtLinesFacts ==
  ASSUME NEW file \in Entries, NEW j \in DOMAIN file.groups, NEW lines, NEW reason \in Reasons
  PROVE  /\ AtLines(file, j, lines, reason) \in Seq(Findings) /\ Distinct(AtLines(file, j, lines, reason))
         /\ \A f \in ToSet(AtLines(file, j, lines, reason)) : f.name = file.name /\ f.line = j
         /\ AtLines(file, j, lines, reason) = <<>>
              <=> \A i \in DOMAIN file.groups[j].lines : i \notin lines
<1> DEFINE ls == file.groups[j].lines
           F(i) == Finding(file.name, j, i, reason)
           s == [i \in DOMAIN ls |-> IF i \in lines THEN <<F(i)>> ELSE <<>>]
<1>1. Len(ls) \in Nat /\ DOMAIN ls = 1..Len(ls) /\ j \in Nat /\ file.name \in ToSet(PathOrder)
  BY GroupFacts, FileFacts
<1> HIDE DEF ls
<1>2. ASSUME NEW i \in DOMAIN ls
      PROVE  F(i) \in Findings /\ F(i).name = file.name /\ F(i).line = j /\ F(i).column = i
  BY <1>1 DEF Finding, Findings
<1> HIDE DEF F
<1>3. ASSUME NEW i \in DOMAIN ls
      PROVE  /\ s[i] \in Seq(Findings) /\ Distinct(s[i])
             /\ ToSet(s[i]) = IF i \in lines THEN {F(i)} ELSE {}
  BY <1>2, SingleFacts
<1>4. s \in Seq(Seq(Findings)) /\ DOMAIN s = DOMAIN ls
  <2>1. s \in [1..Len(ls) -> Seq(Findings)]
    BY <1>1, <1>3
  <2> QED
    BY <1>1, <2>1, SeqDef
<1> HIDE DEF s
<1>5. AtLines(file, j, lines, reason) = FlattenSeq(s)
  BY Zenon DEF AtLines, s, F, ls
<1>6. /\ FlattenSeq(s) \in Seq(Findings)
      /\ \A f : f \in ToSet(FlattenSeq(s)) <=> \E i \in DOMAIN ls : f \in ToSet(s[i])
  BY <1>4, FlattenFacts
<1>7. Distinct(FlattenSeq(s))
  <2>1. ASSUME NEW i \in DOMAIN s, NEW k \in DOMAIN s, i # k, NEW f \in ToSet(s[i]), NEW g \in ToSet(s[k])
        PROVE  ~SamePlace(f, g)
    <3>1. f = F(i) /\ g = F(k)
      BY <1>3, <1>4, <2>1
    <3> QED
      BY <1>2, <1>4, <2>1, <3>1 DEF SamePlace
  <2> QED
    BY <1>3, <1>4, <2>1, FlattenDistinct
<1>8. ASSUME NEW f \in ToSet(FlattenSeq(s))
      PROVE  f.name = file.name /\ f.line = j
  <2>1. PICK i \in DOMAIN ls : f \in ToSet(s[i])
    BY <1>6
  <2>2. f = F(i)
    BY <1>3, <2>1
  <2> QED
    BY <1>2, <2>2
<1>9. FlattenSeq(s) = <<>> <=> \A i \in DOMAIN ls : i \notin lines
  <2>1. FlattenSeq(s) = <<>> <=> \A f : f \notin ToSet(FlattenSeq(s))
    BY <1>6, EmptyToSet
  <2>2. \A i \in DOMAIN ls : i \in lines => F(i) \in ToSet(s[i])
    BY <1>3
  <2>3. \A i \in DOMAIN ls : i \notin lines => \A f : f \notin ToSet(s[i])
    BY <1>3
  <2> QED
    BY <1>6, <2>1, <2>2, <2>3
<1> QED
  BY <1>5, <1>6, <1>7, <1>8, <1>9 DEF ls

\* lastCommentIn: the group itself exactly when no later one is in that body.
LEMMA LastIsLatest ==
  ASSUME NEW file \in Entries, NEW j \in DOMAIN file.groups, file.groups[j].place = "body"
  PROVE  lastCommentIn(file, j) = j
           <=> \A k \in (j + 1)..Len(file.groups) :
                 file.groups[k].place # "body" \/ file.groups[k].owner # file.groups[j].owner
<1> DEFINE n == Len(file.groups)
           B == {k \in DOMAIN file.groups : file.groups[k].place = "body" /\ file.groups[k].owner = file.groups[j].owner}
<1>1. n \in Nat /\ DOMAIN file.groups = 1..n /\ j \in 1..n
  BY FileFacts
<1>2. j \in B
  OBVIOUS
<1>3. B \subseteq 1..n
  BY <1>1
<1>4. \A k \in 1..n : k \in B <=> file.groups[k].place = "body" /\ file.groups[k].owner = file.groups[j].owner
  BY <1>1
<1>5. lastCommentIn(file, j) = Max(B)
  BY DEF lastCommentIn
<1> HIDE DEF n, B
<1>6. \E k \in B : \A l \in B : k >= l
  <2> DEFINE T == {n - k : k \in B}
  <2>1. T \in SUBSET Nat /\ T # {}
    BY <1>1, <1>2, <1>3
  <2>2. PICK t \in T : \A u \in T : t <= u
    <3> HIDE DEF T
    <3> QED
      BY <2>1, LeastNatural
  <2>3. PICK k \in B : t = n - k
    BY <2>2
  <2>4. ASSUME NEW l \in B PROVE k >= l
    <3>1. n - k <= n - l
      BY <2>2, <2>3
    <3> QED
      BY <1>1, <1>3, <3>1
  <2> QED
    BY <2>4
<1>7. Max(B) \in B /\ \A l \in B : Max(B) >= l
  BY <1>6 DEF Max
<1>8. Max(B) = j <=> \A k \in B : j >= k
  BY <1>1, <1>2, <1>3, <1>7
<1>9. \A k \in (j + 1)..n : k \in 1..n /\ ~(j >= k)
  BY <1>1
<1>10. \A k \in 1..n : j >= k \/ k \in (j + 1)..n
  BY <1>1
<1>11. (\A k \in B : j >= k) <=> \A k \in (j + 1)..n : k \notin B
  BY <1>3, <1>9, <1>10
<1> QED
  BY <1>4, <1>5, <1>8, <1>9, <1>11 DEF n


\* The two ways to say that a type name is exported.
LEMMA NamesExported ==
  ASSUME NEW type \in Seq(STRING)
  PROVE  isExportedTypeName(type) <=> ExportedName(type)
<1> DEFINE n == Len(type)
           Wraps == {"star", "index", "indexList"}
<1>1. CASE type = NoType
  BY <1>1 DEF isExportedTypeName, ExportedName
<1>2. CASE type # NoType
  <2>1. n \in Nat /\ n >= 1 /\ DOMAIN type = 1..n
    BY <1>2, LenProperties, EmptySeq DEF NoType
  <2>2. /\ Len(Front(type)) = n - 1 /\ DOMAIN Front(type) = 1..(n - 1)
        /\ \A i \in 1..(n - 1) : Front(type)[i] = type[i]
    BY <2>1 DEF Front
  <2>3. ToSet(Front(type)) \subseteq Wraps <=> \A i \in 1..(n - 1) : type[i] \in Wraps
    <3> HIDE DEF n, Wraps
    <3> QED
      BY <2>2 DEF ToSet
  <2> QED
    BY <1>2, <2>3, Zenon DEF isExportedTypeName, ExportedName
<1> QED
  BY <1>1, <1>2

\* The way down to a doc comment is the exported one.
LEMMA PassesExported ==
  ASSUME NEW node \in Nodes
  PROVE  Passes(node) <=> Exported(node)
<1>1. CASE node \in Funcs
  <2>1. node.node = "func" /\ node.recv \in Seq(STRING)
    BY <1>1 DEF Funcs
  <2> QED
    BY <2>1, NamesExported DEF Passes, Exported, hasAnExportedReceiver
<1>2. CASE node \in [node: {"group", "type", "value"}, names: SUBSET BOOLEAN]
  BY <1>2 DEF Passes, Exported
<1>3. CASE node \in [node: {"field"}, names: SUBSET BOOLEAN, type: Seq(STRING)]
  <2>1. node.node = "field" /\ node.type \in Seq(STRING)
    BY <1>3
  <2> QED
    BY <2>1, NamesExported DEF Passes, Exported, isAccessibleField
<1>4. CASE node \in [node: {"struct", "interface", "star", "array", "map", "chan", "paren", "funcType"}]
  BY <1>4 DEF Passes, Exported
<1> QED
  BY <1>1, <1>2, <1>3, <1>4 DEF Nodes

\* A runnable example is an exported function.
LEMMA ExamplesExported ==
  ASSUME NEW node \in Nodes, RunnableExample(node)
  PROVE  Exported(node)
<1>1. node.node = "func" /\ node.example /\ node.recv = NoType
  BY DEF RunnableExample
<1>2. node \in Funcs
  BY <1>1 DEF Nodes
<1>3. node.exported
  BY <1>1, <1>2 DEF Funcs
<1> QED
  BY <1>1, <1>3 DEF Exported

\* The doc of a runnable example.
ExampleDoc(group) ==
  group.place = "doc" /\ Len(group.owner) = 1 /\ RunnableExample(group.owner[1])

\* Outside of bodies, what is allowed is a doc of something exported, in a test file
\* one of a runnable example.
LEMMA AllowedOutside ==
  ASSUME NEW file \in Entries, NEW j \in DOMAIN file.groups, file.groups[j].place # "body"
  PROVE  /\ ~file.test => (Allowed(file, j) <=> ExportedDoc(file.groups[j]))
         /\ file.test => (Allowed(file, j) <=> ExampleDoc(file.groups[j]))
         /\ ExampleDoc(file.groups[j]) => ExportedDoc(file.groups[j])
<1> DEFINE group == file.groups[j]
<1>1. ~allowExampleOutputs(file, j)
  BY DEF allowExampleOutputs
<1>2. group.owner \in Seq(Nodes) /\ file.test \in BOOLEAN
  BY GroupFacts, FileFacts
<1>3. \A i \in DOMAIN group.owner : group.owner[i] \in Nodes
  BY <1>2, ElementOfSeq, LenProperties
<1>4. \A i \in DOMAIN group.owner : Passes(group.owner[i]) <=> Exported(group.owner[i])
  BY <1>3, PassesExported
<1>5. ExampleDoc(group) => \A i \in DOMAIN group.owner : Exported(group.owner[i])
  <2>1. ASSUME ExampleDoc(group)
        PROVE  DOMAIN group.owner = {1} /\ RunnableExample(group.owner[1])
    BY <1>2, <2>1, LenProperties DEF ExampleDoc
  <2> QED
    BY <1>3, <2>1, ExamplesExported
<1> HIDE DEF group
<1>6. allowedDocs(group) <=> ExportedDoc(group)
  BY <1>4, Zenon DEF allowedDocs, ExportedDoc
<1>7. exampleDocs(group) <=> ExampleDoc(group)
  BY Zenon DEF exampleDocs, ExampleDoc, isRunnableExample, RunnableExample
<1>8. /\ file.test => (Allowed(file, j) <=> exampleDocs(group))
      /\ ~file.test => (Allowed(file, j) <=> allowedDocs(group))
  BY <1>1, Zenon DEF Allowed, group
<1>9. ExampleDoc(group) => ExportedDoc(group)
  BY <1>5, Zenon DEF ExampleDoc, ExportedDoc
<1> QED
  BY <1>6, <1>7, <1>8, <1>9, Zenon DEF group

\* In bodies, only the output of an example: its last comment.
LEMMA AllowedInside ==
  ASSUME NEW file \in Entries, NEW j \in DOMAIN file.groups, file.groups[j].place = "body"
  PROVE  Allowed(file, j) <=> file.test /\ ClosingOutput(file, j)
<1> DEFINE group == file.groups[j]
           Latest == \A k \in (j + 1)..Len(file.groups) :
                       file.groups[k].place # "body" \/ file.groups[k].owner # group.owner
           Alone == \A k \in (j + 1)..Len(file.groups) :
                      file.groups[k].owner = group.owner => file.groups[k].place = "doc"
<1>1. ~exampleDocs(group) /\ ~allowedDocs(group)
  BY DEF exampleDocs, allowedDocs
<1>2. lastCommentIn(file, j) = j <=> Latest
  BY LastIsLatest
<1>3. ASSUME group.owner # <<>>
      PROVE  Latest <=> Alone
  <2>1. ASSUME NEW k \in (j + 1)..Len(file.groups)
        PROVE  /\ file.groups[k].place \in {"package", "doc", "body", "loose"}
               /\ file.groups[k].place \in {"package", "loose"} => file.groups[k].owner = <<>>
    <3>1. k \in DOMAIN file.groups
      BY FileFacts, GroupFacts
    <3> QED
      BY <3>1, GroupFacts
  <2> QED
    BY <1>3, <2>1
<1>4. Allowed(file, j) <=> file.test /\ allowExampleOutputs(file, j)
  BY <1>1, Zenon DEF Allowed
<1>5. allowExampleOutputs(file, j) <=>
        /\ group.owner # <<>> /\ isRunnableExample(group.owner[1])
        /\ lastCommentIn(file, j) = j /\ group.lines[1].kind = "output"
  BY Zenon DEF allowExampleOutputs, isExampleOutput
<1>6. ClosingOutput(file, j) <=>
        /\ group.owner # <<>> /\ isRunnableExample(group.owner[1])
        /\ group.lines[1].kind = "output" /\ Alone
  BY Zenon DEF ClosingOutput, isRunnableExample, RunnableExample
<1> HIDE DEF group, Latest, Alone
<1> QED
  BY <1>2, <1>3, <1>4, <1>5, <1>6, Zenon

\* The body of the loop of strayComments has findings exactly for the comments that
\* break a rule of the doc or of the tests.
LEMMA FindingsBreakRules ==
  ASSUME NEW file \in Entries, NEW j \in DOMAIN file.groups
  PROVE  GroupFindings(file, j) = <<>> <=> Obeys(file, j)
<1> DEFINE group == file.groups[j]
           whole == <<Finding(file.name, j, 1, "refused")>>
           Clean == \A i \in DOMAIN group.lines : group.lines[i].kind # "nolint"
           Known == \A i \in DOMAIN group.lines : group.lines[i].kind = "go" => isKnownDirective(group.lines[i])
           Nolints == {i \in DOMAIN group.lines : isNolintDirective(group.lines[i])}
           Strays == {i \in DOMAIN group.lines : group.lines[i].kind = "go" /\ ~isKnownDirective(group.lines[i])}
<1>1. whole # <<>>
  OBVIOUS
<1>2. nolintDirectives(file, j) = <<>> <=> Clean
  <2>1. nolintDirectives(file, j) = AtLines(file, j, Nolints, "nolint")
    BY Zenon DEF nolintDirectives
  <2>2. AtLines(file, j, Nolints, "nolint") = <<>> <=> \A i \in DOMAIN group.lines : i \notin Nolints
    <3>1. "nolint" \in Reasons
      BY DEF Reasons
    <3> HIDE DEF Nolints
    <3> QED
      BY <3>1, AtLinesFacts
  <2> QED
    BY <2>1, <2>2 DEF isNolintDirective
<1>3. strayDirectiveLines(file, j) = <<>> <=> Known
  <2>1. strayDirectiveLines(file, j) = AtLines(file, j, Strays, "refused")
    BY Zenon DEF strayDirectiveLines
  <2>2. AtLines(file, j, Strays, "refused") = <<>> <=> \A i \in DOMAIN group.lines : i \notin Strays
    <3>1. "refused" \in Reasons
      BY DEF Reasons
    <3> HIDE DEF Strays
    <3> QED
      BY <3>1, AtLinesFacts
  <2> QED
    BY <2>1, <2>2
<1>4. /\ Documented(file, j) <=>
           /\ Clean
           /\ \/ ExportedDoc(group) /\ Known
              \/ group.place # "body" /\ isDirective(group)
              \/ file.test /\ ClosingOutput(file, j)
      /\ KeptInTests(file, j) <=>
           ExampleDoc(group) \/ isDirective(group) \/ ClosingOutput(file, j)
  BY Zenon DEF Documented, KeptInTests, OnlyDirectives, isDirective, ExampleDoc
<1>5. GroupFindings(file, j) =
        IF nolintDirectives(file, j) # <<>> THEN nolintDirectives(file, j)
        ELSE IF isInside(group) THEN IF Allowed(file, j) THEN <<>> ELSE whole
        ELSE IF Allowed(file, j) THEN strayDirectiveLines(file, j)
        ELSE IF isDirective(group) THEN <<>> ELSE whole
  BY Zenon DEF GroupFindings
<1>6. isInside(group) <=> group.place = "body"
  BY DEF isInside
<1>7. CASE group.place = "body"
  <2>1. Allowed(file, j) <=> file.test /\ ClosingOutput(file, j)
    BY <1>7, AllowedInside
  <2>2. ~ExportedDoc(group)
    BY <1>7 DEF ExportedDoc
  <2> HIDE DEF whole, Clean, Known
  <2>3. Obeys(file, j) <=> Clean /\ file.test /\ ClosingOutput(file, j)
    BY <1>4, <1>7, <2>2, Zenon DEF Obeys
  <2>4. CASE Clean
    BY <1>1, <1>2, <1>5, <1>6, <1>7, <2>1, <2>3, <2>4
  <2>5. CASE ~Clean
    BY <1>2, <1>5, <2>3, <2>5
  <2> QED
    BY <2>4, <2>5
<1>8. CASE group.place # "body"
  <2>1. /\ ~file.test => (Allowed(file, j) <=> ExportedDoc(group))
        /\ file.test => (Allowed(file, j) <=> ExampleDoc(group))
        /\ ExampleDoc(group) => ExportedDoc(group)
    BY <1>8, AllowedOutside
  <2>2. ~ClosingOutput(file, j)
    BY <1>8 DEF ClosingOutput
  <2>3. isDirective(group) => Known
    BY DEF isDirective
  <2> HIDE DEF whole, Clean, Known
  <2>4. Obeys(file, j) <=> Clean /\ ((Allowed(file, j) /\ Known) \/ isDirective(group))
    BY <1>4, <1>8, <2>1, <2>2, Zenon DEF Obeys
  <2>5. CASE Clean /\ Allowed(file, j)
    BY <1>2, <1>3, <1>5, <1>6, <1>8, <2>3, <2>4, <2>5
  <2>6. CASE Clean /\ ~Allowed(file, j)
    BY <1>1, <1>2, <1>5, <1>6, <1>8, <2>4, <2>6
  <2>7. CASE ~Clean
    BY <1>2, <1>5, <2>4, <2>7
  <2> QED
    BY <2>5, <2>6, <2>7
<1> QED
  BY <1>7, <1>8

\* strayComments, outside of test files: a comment has no finding exactly when the
\* command's doc comment allows it, given the list of known directives.
THEOREM RulesAreTheDocumented ==
  ASSUME NEW file \in Entries, ~file.test, NEW j \in DOMAIN file.groups
  PROVE  GroupFindings(file, j) = <<>> <=> Documented(file, j)
BY FindingsBreakRules DEF Obeys

\* strayComments, in test files: a comment has no finding exactly when the doc comment
\* allows it and it is of a kind that the tests name.
THEOREM TestFilesKeepLess ==
  ASSUME NEW file \in Entries, file.test, NEW j \in DOMAIN file.groups
  PROVE  GroupFindings(file, j) = <<>> <=> Documented(file, j) /\ KeptInTests(file, j)
BY FindingsBreakRules DEF Obeys

\* Doc and code disagree: the plain package doc of a test file is a comment that the
\* doc comment of the command allows and that strayComments refuses.
THEOREM DocumentedYetRefused ==
  ASSUME NEW file \in Entries, file.test, NEW j \in DOMAIN file.groups,
         file.groups[j].place = "package",
         \A i \in DOMAIN file.groups[j].lines : file.groups[j].lines[i].kind = "text"
  PROVE  Documented(file, j) /\ GroupFindings(file, j) # <<>>
<1> DEFINE group == file.groups[j]
<1>1. Documented(file, j)
  BY DEF Documented, ExportedDoc
<1>2. 1 \in DOMAIN group.lines
  <2>1. group.lines \in Seq(CommentLines) /\ group.lines # <<>>
    BY GroupFacts
  <2> QED
    BY <2>1
<1>3. ~isKnownDirective(group.lines[1])
  BY <1>2 DEF isKnownDirective
<1>4. ~KeptInTests(file, j)
  BY <1>2, <1>3, Zenon DEF KeptInTests, OnlyDirectives, ClosingOutput
<1> QED
  BY <1>1, <1>4, TestFilesKeepLess


\* The findings of a group are of this file and this group, at different lines.
LEMMA GroupFindingsFacts ==
  ASSUME NEW file \in Entries, NEW j \in DOMAIN file.groups
  PROVE  /\ GroupFindings(file, j) \in Seq(Findings) /\ Distinct(GroupFindings(file, j))
         /\ \A f \in ToSet(GroupFindings(file, j)) : f.name = file.name /\ f.line = j
<1> DEFINE group == file.groups[j]
           refusal == Finding(file.name, j, 1, "refused")
           whole == <<refusal>>
           Nolints == {i \in DOMAIN group.lines : isNolintDirective(group.lines[i])}
           Strays == {i \in DOMAIN group.lines : group.lines[i].kind = "go" /\ ~isKnownDirective(group.lines[i])}
           Fits(s) == /\ s \in Seq(Findings) /\ Distinct(s)
                      /\ \A f \in ToSet(s) : f.name = file.name /\ f.line = j
<1>1. Fits(nolintDirectives(file, j))
  <2>1. nolintDirectives(file, j) = AtLines(file, j, Nolints, "nolint")
    BY Zenon DEF nolintDirectives
  <2>2. "nolint" \in Reasons
    BY DEF Reasons
  <2> HIDE DEF Nolints
  <2>3. Fits(AtLines(file, j, Nolints, "nolint"))
    BY <2>2, AtLinesFacts
  <2> QED
    BY <2>1, <2>3
<1>2. Fits(strayDirectiveLines(file, j))
  <2>1. strayDirectiveLines(file, j) = AtLines(file, j, Strays, "refused")
    BY Zenon DEF strayDirectiveLines
  <2>2. "refused" \in Reasons
    BY DEF Reasons
  <2> HIDE DEF Strays
  <2>3. Fits(AtLines(file, j, Strays, "refused"))
    BY <2>2, AtLinesFacts
  <2> QED
    BY <2>1, <2>3
<1>3. refusal \in Findings /\ refusal.name = file.name /\ refusal.line = j
  BY GroupFacts, FileFacts DEF Finding, Findings, Reasons
<1> HIDE DEF refusal
<1>4. Fits(whole) /\ Fits(<<>>)
  BY <1>3, SingleFacts
<1>5. GroupFindings(file, j) =
        IF nolintDirectives(file, j) # <<>> THEN nolintDirectives(file, j)
        ELSE IF isInside(group) THEN IF Allowed(file, j) THEN <<>> ELSE whole
        ELSE IF Allowed(file, j) THEN strayDirectiveLines(file, j)
        ELSE IF isDirective(group) THEN <<>> ELSE whole
  BY Zenon DEF GroupFindings, refusal
<1>6. Fits(GroupFindings(file, j))
  <2> HIDE DEF Fits, whole, group
  <2> QED
    BY <1>1, <1>2, <1>4, <1>5
<1> QED
  BY <1>6

\* strayComments: findings of this file at different places, all in comments that
\* break the rules; and of each such comment, unless the file is excused.
LEMMA StrayCommentsFacts ==
  ASSUME NEW file \in Entries, NEW named \in BOOLEAN
  PROVE  /\ strayComments(file, named) \in Seq(Findings) /\ Distinct(strayComments(file, named))
         /\ \A f \in ToSet(strayComments(file, named)) :
              f.name = file.name /\ f.line \in DOMAIN file.groups /\ ~Obeys(file, f.line)
         /\ \/ named /\ file.generated
            \/ \A j \in DOMAIN file.groups : \/ Obeys(file, j)
                                             \/ \E f \in ToSet(strayComments(file, named)) : f.line = j
<1> DEFINE s == [j \in DOMAIN file.groups |-> GroupFindings(file, j)]
<1>1. Len(file.groups) \in Nat /\ DOMAIN file.groups = 1..Len(file.groups) /\ file.generated \in BOOLEAN
  BY FileFacts
<1>2. ASSUME NEW j \in DOMAIN file.groups
      PROVE  /\ s[j] \in Seq(Findings) /\ Distinct(s[j])
             /\ \A f \in ToSet(s[j]) : f.name = file.name /\ f.line = j
             /\ ToSet(s[j]) = {} <=> Obeys(file, j)
  <2>1. s[j] = GroupFindings(file, j)
    OBVIOUS
  <2> HIDE DEF s
  <2>2. /\ s[j] \in Seq(Findings) /\ Distinct(s[j])
        /\ \A f \in ToSet(s[j]) : f.name = file.name /\ f.line = j
    BY <2>1, GroupFindingsFacts
  <2>3. s[j] = <<>> <=> Obeys(file, j)
    BY <2>1, FindingsBreakRules
  <2> QED
    BY <2>2, <2>3, EmptyToSet
<1>3. s \in Seq(Seq(Findings)) /\ DOMAIN s = DOMAIN file.groups
  <2>1. s \in [1..Len(file.groups) -> Seq(Findings)]
    BY <1>1, <1>2
  <2> QED
    BY <1>1, <2>1, SeqDef
<1>4. strayComments(file, named) = IF named /\ file.generated THEN <<>> ELSE FlattenSeq(s)
  BY Zenon DEF strayComments
<1> HIDE DEF s
<1>5. CASE named /\ file.generated
  <2>1. <<>> \in Seq(Findings) /\ Distinct(<<>>) /\ ToSet(<<>>) = {}
    BY DEF Distinct, ToSet
  <2> QED
    BY <1>4, <1>5, <2>1
<1>6. CASE ~(named /\ file.generated)
  <2>1. strayComments(file, named) = FlattenSeq(s)
    BY <1>4, <1>6
  <2>2. /\ FlattenSeq(s) \in Seq(Findings)
        /\ \A f : f \in ToSet(FlattenSeq(s)) <=> \E j \in DOMAIN file.groups : f \in ToSet(s[j])
    BY <1>3, FlattenFacts
  <2>3. Distinct(FlattenSeq(s))
    <3>1. ASSUME NEW i \in DOMAIN s, NEW k \in DOMAIN s, i # k, NEW f \in ToSet(s[i]), NEW g \in ToSet(s[k])
          PROVE  ~SamePlace(f, g)
      <4>1. f.line = i /\ g.line = k
        BY <1>2, <1>3
      <4> QED
        BY <3>1, <4>1 DEF SamePlace
    <3> QED
      BY <1>2, <1>3, <3>1, FlattenDistinct
  <2>4. ASSUME NEW f \in ToSet(FlattenSeq(s))
        PROVE  f.name = file.name /\ f.line \in DOMAIN file.groups /\ ~Obeys(file, f.line)
    <3>1. PICK j \in DOMAIN file.groups : f \in ToSet(s[j])
      BY <2>2
    <3>2. f.name = file.name /\ f.line = j /\ ~Obeys(file, j)
      BY <1>2, <3>1
    <3> QED
      BY <3>2
  <2>5. ASSUME NEW j \in DOMAIN file.groups, ~Obeys(file, j)
        PROVE  \E f \in ToSet(FlattenSeq(s)) : f.line = j
    <3>1. PICK f : f \in ToSet(s[j])
      BY <1>2, <2>5
    <3>2. f.line = j /\ f \in ToSet(FlattenSeq(s))
      BY <1>2, <2>2, <3>1
    <3> QED
      BY <3>2
  <2> QED
    BY <2>1, <2>2, <2>3, <2>4, <2>5
<1> QED
  BY <1>5, <1>6


-----------------------------------------------------------------------------
(***************************************************************************)
(* Generators and sorting.                                                 *)
(***************************************************************************)

\* A pinned generator names its outputs behind the command, so it has four words.
LEMMA PinnedOutputs ==
  ASSUME NEW words \in Seq(Words), isPinnedGenerator(words), NEW v \in outputFlagValues(words)
  PROVE  /\ Len(words) > 3
         /\ words[2].kind = "run" => words[3].kind \in {"versionedModule", "localPackage"}
         /\ words[2].kind = "tool" => words[3].value \in declaredTools
<1>1. Len(words) \in Nat /\ DOMAIN words = 1..Len(words)
  BY LenProperties
<1>2. /\ Len(words) >= 3 /\ words[1].kind = "go"
      /\ \/ words[2].kind = "run" /\ words[3].kind \in {"versionedModule", "localPackage"}
         \/ words[2].kind = "tool" /\ ~IsFlag(words[3]) /\ words[3].value \in declaredTools
  BY DEF isPinnedGenerator
<1>3. words[1].kind \notin {"-o", "-o="} /\ words[2].kind \notin {"-o", "-o="} /\ words[3].kind \notin {"-o", "-o="}
  BY <1>2 DEF IsFlag
<1>4. PICK i \in DOMAIN words : words[i].kind = "-o=" \/ (i > 1 /\ words[i - 1].kind = "-o")
  BY DEF outputFlagValues
<1>5. i \in 1..Len(words) /\ i \in Nat
  BY <1>1, <1>4
<1>6. ~(i \in {1, 2, 3})
  <2>1. i # 1
    BY <1>3, <1>4
  <2>2. i # 2
    <3>1. i = 2 => i - 1 = 1
      OBVIOUS
    <3> QED
      BY <1>3, <1>4, <3>1
  <2>3. i # 3
    <3>1. i = 3 => i - 1 = 2
      OBVIOUS
    <3> QED
      BY <1>3, <1>4, <3>1
  <2> QED
    BY <2>1, <2>2, <2>3
<1>7. Len(words) > 3
  BY <1>1, <1>5, <1>6
<1>8. "run" # "tool"
  OBVIOUS
<1> QED
  BY <1>2, <1>7, <1>8

\* A generated file that is named as an output is excused: the directive stands in
\* a hand-written neighbour, which is another file.
LEMMA OutputsExcuse ==
  ASSUME NEW t \in Seq(Entries), NEW P \in SUBSET DOMAIN t, NEW i \in P,
         \A k \in P : t[k].kind = "go" /\ t[k].dir = t[i].dir,
         t[i].generated, t[i].name \in generatorOutputs({t[k] : k \in P})
  PROVE  Excused(t, i)
<1>1. PICK line \in UNION {LinesOf(file) : file \in {f \in {t[k] : k \in P} : ~f.generated}} :
        /\ line.name = "generate" /\ isKnownDirective(line)
        /\ t[i].name \in outputFlagValues(line.words)
  BY Zenon DEF generatorOutputs
<1>2. PICK k \in P : ~t[k].generated /\ line \in LinesOf(t[k])
  BY <1>1
<1>3. k \in DOMAIN t \ {i} /\ t[k].kind = "go" /\ t[k].dir = t[i].dir
  BY <1>2
<1>4. t[k] \in Entries
  BY <1>3, LenProperties, ElementOfSeq
<1>5. line.words \in Seq(Words)
  <2>1. PICK j \in DOMAIN t[k].groups : line \in ToSet(t[k].groups[j].lines)
    BY <1>2, Zenon DEF LinesOf
  <2>2. t[k].groups[j].lines \in Seq(CommentLines)
    BY <1>4, <2>1, GroupFacts
  <2>3. PICK l \in DOMAIN t[k].groups[j].lines : line = t[k].groups[j].lines[l]
    BY <2>1 DEF ToSet
  <2>4. line \in CommentLines
    BY <2>2, <2>3, LenProperties, ElementOfSeq
  <2> QED
    BY <2>4 DEF CommentLines
<1>6. isPinnedGenerator(line.words)
  BY <1>1 DEF isKnownDirective
<1>7. /\ Len(line.words) > 3
      /\ line.words[2].kind = "run" => line.words[3].kind \in {"versionedModule", "localPackage"}
      /\ line.words[2].kind = "tool" => line.words[3].value \in declaredTools
  BY <1>1, <1>5, <1>6, PinnedOutputs
<1> QED
  BY <1>1, <1>2, <1>3, <1>7, Zenon DEF Excused

\* The order of the paths is total, and so is that of the findings' places.
LEMMA ComparesDifferentPlaces ==
  ASSUME NEW f \in Findings, NEW g \in Findings, ~SamePlace(f, g), ~compareFindings(g, f)
  PROVE  compareFindings(f, g)
<1>1. ASSUME NEW x \in ToSet(PathOrder)
      PROVE  Index(x) \in DOMAIN PathOrder /\ PathOrder[Index(x)] = x
  BY DEF Index, ToSet
<1>2. /\ f.name \in ToSet(PathOrder) /\ g.name \in ToSet(PathOrder)
      /\ f.line \in Nat /\ g.line \in Nat /\ f.column \in Nat /\ g.column \in Nat
  BY DEF Findings
<1>3. DOMAIN PathOrder = 1..Len(PathOrder) /\ Len(PathOrder) \in Nat
  BY CommentAssumption, LenProperties
<1>4. Index(f.name) \in Nat /\ Index(g.name) \in Nat /\ (Index(f.name) = Index(g.name) => f.name = g.name)
  BY <1>1, <1>2, <1>3
<1> QED
  BY <1>2, <1>4 DEF compareFindings, SamePlace

\* slices.SortFunc: the same findings, and findings at different places in their order.
LEMMA SortFacts ==
  ASSUME NEW s \in Seq(Findings), NEW t \in SortFunc(s)
  PROVE  /\ t \in Seq(Findings) /\ ToSet(t) = ToSet(s)
         /\ Distinct(s) => \A n \in 1..(Len(t) - 1) : compareFindings(t[n], t[n + 1])
<1>1. /\ Len(s) \in Nat /\ DOMAIN s = 1..Len(s) /\ \A i \in 1..Len(s) : s[i] \in Findings
  BY LenProperties, ElementOfSeq
<1>2. PICK order \in Bijection(DOMAIN s, DOMAIN s) : t = [i \in DOMAIN s |-> s[order[i]]]
  BY DEF SortFunc
<1>3. \A i, k \in DOMAIN s : i < k => ~compareFindings(t[k], t[i])
  BY DEF SortFunc
<1>4. /\ order \in [DOMAIN s -> DOMAIN s]
      /\ \A i, k \in DOMAIN s : order[i] = order[k] => i = k
      /\ \A k \in DOMAIN s : \E i \in DOMAIN s : order[i] = k
  BY <1>2 DEF Bijection, Injection, Surjection, IsInjective
<1>5. /\ DOMAIN t = DOMAIN s
      /\ \A i \in DOMAIN s : order[i] \in DOMAIN s /\ t[i] = s[order[i]] /\ t[i] \in Findings
  BY <1>1, <1>2, <1>4
<1>6. t \in Seq(Findings) /\ Len(t) = Len(s)
  <2>1. t \in [1..Len(s) -> Findings]
    BY <1>1, <1>2, <1>5
  <2> QED
    BY <1>1, <2>1, SeqDef, LenProperties
<1>7. ToSet(t) = ToSet(s)
  <2>1. ASSUME NEW x \in ToSet(t) PROVE x \in ToSet(s)
    BY <1>5 DEF ToSet
  <2>2. ASSUME NEW x \in ToSet(s) PROVE x \in ToSet(t)
    <3>1. PICK k \in DOMAIN s : x = s[k]
      BY DEF ToSet
    <3>2. PICK i \in DOMAIN s : order[i] = k
      BY <1>4
    <3>3. x = t[i] /\ i \in DOMAIN t
      BY <1>5, <3>1, <3>2
    <3> QED
      BY <3>3 DEF ToSet
  <2> QED
    BY <2>1, <2>2
<1>8. ASSUME Distinct(s), NEW n \in 1..(Len(t) - 1)
      PROVE  compareFindings(t[n], t[n + 1])
  <2>1. n \in DOMAIN s /\ n + 1 \in DOMAIN s /\ n < n + 1 /\ n # n + 1
    BY <1>1, <1>6
  <2>2. ~compareFindings(t[n + 1], t[n])
    BY <1>3, <2>1
  <2>3. ~SamePlace(t[n], t[n + 1])
    BY <1>4, <1>5, <1>8, <2>1 DEF Distinct
  <2>4. t[n] \in Findings /\ t[n + 1] \in Findings
    BY <1>5, <2>1
  <2> QED
    BY <2>2, <2>3, <2>4, ComparesDifferentPlaces
<1> QED
  BY <1>6, <1>7, <1>8


-----------------------------------------------------------------------------
(***************************************************************************)
(* The run.                                                                *)
(***************************************************************************)

\* The tree and the command line, which no step changes.
LEMMA TreeFacts ==
  ASSUME TypeOK
  PROVE  /\ tree \in Seq(Entries) /\ Len(tree) \in Nat /\ DOMAIN tree = 1..Len(tree)
         /\ \A i \in DOMAIN tree : tree[i] \in Entries
         /\ \A i, k \in DOMAIN tree : tree[i].name = tree[k].name => i = k
         /\ Len(args) \in Nat /\ DOMAIN args = 1..Len(args)
<1>1. tree \in Seq(Entries) /\ args \in Seq(SUBSET STRING)
  BY CommentAssumption DEF TypeOK
<1>2. \A i, k \in DOMAIN tree : tree[i].name = tree[k].name => i = k
  BY CommentAssumption DEF TypeOK
<1> QED
  BY <1>1, <1>2, LenProperties, ElementOfSeq

\* More findings report no less.
LEMMA ReportedMore ==
  ASSUME NEW t, NEW i, NEW s, NEW u, ToSet(s) \subseteq ToSet(u), Reported(t, i, s)
  PROVE  Reported(t, i, u)
BY Zenon DEF Reported

LEMMA InitComment ==
  ASSUME Init
  PROVE  CommentInv
<1>1. TypeOK
  <2>1. tree \in Seq(Entries) /\ args \in Seq(SUBSET STRING)
    BY CommentAssumption DEF Init
  <2>2. Len(tree) \in Nat /\ Len(args) \in Nat
    BY <2>1, LenProperties
  <2>3. root \in 1..(Len(args) + 1) /\ entry \in 1..(Len(tree) + 1)
    BY <2>2 DEF Init
  <2> QED
    BY <2>3 DEF Init, TypeOK
<1>2. ToSet(<<>>) = {} /\ <<>> \in Seq(Findings) /\ Len(<<>>) = 0
  BY DEF ToSet
<1>3. DOMAIN args = 1..Len(args)
  BY <1>1, TreeFacts
<1>4. RootInv
  BY DEF Init, RootInv
<1>5. StraysInv
  <2>1. \A r \in DOMAIN args : ~(r < root \/ pc = "print")
    BY <1>1, <1>3, TreeFacts DEF Init
  <2>2. {found, strays, stdout} \subseteq Seq(Findings) /\ ToSet(found) \cup ToSet(strays) \cup ToSet(stdout) = {}
    BY <1>2 DEF Init
  <2>3. stdout = <<>>
    BY DEF Init
  <2> QED
    BY <2>1, <2>2, <2>3, Zenon DEF StraysInv
<1>6. OneRootInv /\ NothingHidden
  BY DEF Init, OneRootInv, NothingHidden
<1>7. FindingsAreReal
  BY <1>2 DEF Init, FindingsAreReal
<1>8. ReportOrdered
  BY <1>2 DEF Init, ReportOrdered
<1> QED
  BY <1>1, <1>4, <1>5, <1>6, <1>7, <1>8 DEF Init, CommentInv

\* Nothing printed yet, nothing changed but the end: the error exits.
LEMMA ErrorExit ==
  ASSUME CommentInv, pc # "exited", pc' = "exited", code' \in {2, 66, 74},
         UNCHANGED <<tree, args, root, entry, parsed, left, found, strays, stdout>>
  PROVE  CommentInv'
<1>1. TypeOK'
  BY DEF CommentInv, TypeOK
<1>2. RootInv' /\ OneRootInv' /\ NothingHidden'
  BY DEF RootInv, OneRootInv, NothingHidden
<1>3. StraysInv'
  <2>1. Covered' = Covered
    BY DEF Covered
  <2> QED
    BY <2>1 DEF CommentInv, StraysInv
<1>4. FindingsAreReal' /\ ReportOrdered'
  <2>1. Covered' = Covered
    BY DEF Covered
  <2> QED
    BY <2>1 DEF CommentInv, FindingsAreReal, ReportOrdered
<1> QED
  BY <1>1, <1>2, <1>3, <1>4 DEF CommentInv

LEMMA StartStep ==
  ASSUME CommentInv, Start
  PROVE  CommentInv'
<1>1. CASE report(2)
  <2>1. pc # "exited" /\ pc' = "exited" /\ code' \in {2, 66, 74}
    BY <1>1 DEF Start, report
  <2> QED
    BY <2>1, ErrorExit DEF Start
<1>2. CASE args # <<>> /\ pc' = "walk" /\ UNCHANGED code
  <2>1. /\ pc = "start" /\ UNCHANGED <<tree, args, root, entry, parsed, left, found, strays, stdout, code>>
        /\ root = 1 /\ entry = 1 /\ parsed = {} /\ left = {} /\ found = <<>>
        /\ TypeOK /\ StraysInv /\ OneRootInv /\ NothingHidden /\ FindingsAreReal /\ ReportOrdered
    BY <1>2 DEF Start, CommentInv
  <2>2. TypeOK'
    BY <1>2, <2>1 DEF TypeOK
  <2>3. root \in DOMAIN args
    <3>1. args \in Seq(SUBSET STRING)
      BY <2>1, CommentAssumption DEF TypeOK
    <3> QED
      BY <1>2, <2>1, <3>1, LenProperties, EmptySeq
  <2>4. RootInv'
    <3>1. ToSet(<<>>) = {} /\ Distinct(<<>>)
      BY DEF ToSet, Distinct
    <3>2. 1..(entry' - 1) = {}
      BY <2>1
    <3>3. parsed' = {} /\ found' = <<>> /\ pc' # "check"
      BY <1>2, <2>1
    <3> QED
      BY <3>1, <3>2, <3>3 DEF RootInv
  <2>5. Covered' = Covered
    BY <2>1 DEF Covered
  <2>6. StraysInv'
    BY <1>2, <2>1, <2>5 DEF StraysInv
  <2>7. OneRootInv' /\ NothingHidden' /\ FindingsAreReal' /\ ReportOrdered'
    BY <1>2, <2>1, <2>5 DEF OneRootInv, NothingHidden, FindingsAreReal, ReportOrdered
  <2> QED
    BY <1>2, <2>1, <2>2, <2>3, <2>4, <2>6, <2>7 DEF CommentInv
<1> QED
  BY <1>1, <1>2 DEF Start

LEMMA WalkFailsStep ==
  ASSUME CommentInv, WalkFails
  PROVE  CommentInv'
<1>1. pc # "exited" /\ pc' = "exited" /\ code' \in {2, 66, 74}
  BY DEF WalkFails, report
<1> QED
  BY <1>1, ErrorExit DEF WalkFails

\* A step that leaves what was printed and the exit code alone keeps the reports as
\* they are.
LEMMA ReportKept ==
  ASSUME CommentInv, UNCHANGED <<tree, args, stdout, code>>
  PROVE  NothingHidden' /\ FindingsAreReal' /\ ReportOrdered' /\ Covered' = Covered
<1>1. Covered' = Covered
  BY DEF Covered
<1> QED
  BY <1>1 DEF CommentInv, NothingHidden, FindingsAreReal, ReportOrdered

LEMMA WalkEndsStep ==
  ASSUME CommentInv, WalkEnds
  PROVE  CommentInv'
<1>1. /\ pc = "walk" /\ pc' = "check" /\ entry > Len(tree) /\ left' = {tree[i].dir : i \in parsed}
      /\ UNCHANGED <<tree, args, root, entry, parsed, found, strays, stdout, code>>
      /\ TypeOK /\ RootInv /\ StraysInv /\ OneRootInv /\ root \in DOMAIN args
  BY DEF WalkEnds, CommentInv
<1>2. NothingHidden' /\ FindingsAreReal' /\ ReportOrdered' /\ Covered' = Covered
  BY <1>1, ReportKept
<1>3. TypeOK'
  BY <1>1 DEF TypeOK
<1>4. RootInv'
  <2>1. entry' = Len(tree') + 1
    BY <1>1, TreeFacts DEF TypeOK
  <2>2. ASSUME NEW i \in parsed
        PROVE  tree[i].dir \in left'
    BY <1>1
  <2>3. ASSUME NEW i
        PROVE  (Settled(i) => Settled(i)') /\ (Settled(i)' => tree[i].kind = "special")
    BY <1>1, <2>2 DEF Settled
  <2>4. parsed' \subseteq 1..(entry' - 1) /\ Distinct(found')
    BY <1>1 DEF RootInv
  <2>5. ASSUME NEW i \in 1..(entry' - 1), tree[i].dir \in args[root]
        PROVE  IF tree[i].kind = "go" THEN i \in parsed /\ (Settled(i)' => Reported(tree, i, found))
               ELSE Reported(tree, i, found)
    BY <1>1, <2>3, <2>5 DEF RootInv
  <2>6. ASSUME NEW f \in ToSet(found)
        PROVE  \E i \in 1..(entry' - 1) : tree[i].name = f.name /\ Settled(i)'
    BY <1>1, <2>3 DEF RootInv
  <2> QED
    BY <1>1, <2>1, <2>4, <2>5, <2>6 DEF RootInv
<1>5. StraysInv'
  BY <1>1, <1>2 DEF StraysInv
<1>6. OneRootInv'
  BY <1>1 DEF OneRootInv
<1> QED
  BY <1>1, <1>2, <1>3, <1>4, <1>5, <1>6 DEF CommentInv


\* The findings of the root at hand grow by new ones, at other places.
LEMMA FoundGrows ==
  ASSUME CommentInv, NEW new \in Seq(Findings), Distinct(new), pc \in {"walk", "check"},
         \A f \in ToSet(found), g \in ToSet(new) : ~SamePlace(f, g)
  PROVE  /\ found \o new \in Seq(Findings) /\ ToSet(found \o new) = ToSet(found) \cup ToSet(new)
         /\ Distinct(found \o new)
<1>1. found \in Seq(Findings) /\ Distinct(found)
  BY DEF CommentInv, StraysInv, RootInv
<1> QED
  BY <1>1, ConcatFacts, ConcatDistinct

LEMMA WalkStep ==
  ASSUME CommentInv, Walk
  PROVE  CommentInv'
<1> DEFINE e == tree[entry]
           here == e.dir \in args[root]
           new == IF here /\ e.kind = "special" THEN <<Special(e)>> ELSE <<>>
<1>1. /\ pc = "walk" /\ pc' = "walk" /\ entry <= Len(tree) /\ entry' = entry + 1
      /\ here => e.kind # "broken"
      /\ found' = IF here /\ e.kind = "special" THEN Append(found, Special(e)) ELSE found
      /\ parsed' = IF here /\ e.kind = "go" THEN parsed \cup {entry} ELSE parsed
      /\ UNCHANGED <<tree, args, root, left, strays, stdout, code>>
      /\ TypeOK /\ RootInv /\ StraysInv /\ OneRootInv /\ root \in DOMAIN args /\ left = {}
  BY DEF Walk, CommentInv
<1>2. NothingHidden' /\ FindingsAreReal' /\ ReportOrdered' /\ Covered' = Covered
  BY <1>1, ReportKept
<1>3. entry \in DOMAIN tree /\ entry \in Nat /\ e \in Entries /\ Len(tree) \in Nat /\ DOMAIN tree = 1..Len(tree)
  BY <1>1, TreeFacts DEF TypeOK
<1>4. Special(e) \in Findings /\ Special(e).name = e.name /\ Special(e).line = 0
  BY <1>3 DEF Entries, Special, Finding, Findings, Reasons
<1>5. new \in Seq(Findings) /\ Distinct(new) /\ ToSet(new) = IF here /\ e.kind = "special" THEN {Special(e)} ELSE {}
  BY <1>4, SingleFacts
<1>6. found' = found \o new
  <2>1. found \in Seq(Findings)
    BY <1>1 DEF StraysInv
  <2>2. Append(found, Special(e)) = found \o <<Special(e)>> /\ found \o <<>> = found
    BY <1>4, <2>1, AppendIsConcat, ConcatEmptySeq
  <2> QED
    BY <1>1, <2>2
<1>7. \A i \in 1..entry : i \in DOMAIN tree /\ (i # entry => i \in 1..(entry - 1))
  BY <1>1, <1>3
<1>8. \A i \in 1..(entry - 1) : i \in DOMAIN tree /\ i # entry /\ i \in 1..entry
  BY <1>1, <1>3
<1>9. e.kind \in {"go", "special", "broken", "data"}
  BY <1>3 DEF Entries
<1> HIDE DEF e, here, new
<1>10. ASSUME NEW f \in ToSet(found)
       PROVE  \E i \in 1..(entry - 1) : tree[i].name = f.name /\ tree[i].kind = "special"
  BY <1>1 DEF RootInv, Settled
<1>11. \A f \in ToSet(found), g \in ToSet(new) : ~SamePlace(f, g)
  <2> SUFFICES ASSUME NEW f \in ToSet(found), NEW g \in ToSet(new), f.name = g.name
               PROVE  FALSE
    BY DEF SamePlace
  <2>1. PICK i \in 1..(entry - 1) : tree[i].name = f.name
    BY <1>10
  <2>2. g.name = tree[entry].name
    BY <1>4, <1>5 DEF e
  <2> QED
    BY <1>1, <1>3, <1>8, <2>1, <2>2, TreeFacts
<1>12. found' \in Seq(Findings) /\ ToSet(found') = ToSet(found) \cup ToSet(new) /\ Distinct(found')
  BY <1>1, <1>5, <1>6, <1>11, FoundGrows
<1>13. TypeOK'
  <2>1. entry' \in 1..(Len(tree) + 1)
    BY <1>1, <1>3
  <2>2. \A i \in parsed' : tree[i].kind = "go" /\ tree[i].dir \in args[root]
    BY <1>1 DEF TypeOK, e, here
  <2>3. left' = {}
    BY <1>1
  <2> QED
    BY <1>1, <2>1, <2>2, <2>3 DEF TypeOK
<1>14. RootInv'
  <2>1. entry' - 1 = entry
    BY <1>1, <1>3
  <2>2. parsed' \subseteq 1..entry
    BY <1>1, <1>3, <1>8 DEF RootInv
  <2>3. ASSUME NEW i
        PROVE  Settled(i)' <=> tree[i].kind = "special"
    BY <1>1 DEF Settled
  <2>4. ASSUME NEW i \in 1..entry, tree[i].dir \in args[root]
        PROVE  IF tree[i].kind = "go" THEN i \in parsed' ELSE Reported(tree, i, found')
    <3>1. CASE i = entry
      <4>1. CASE e.kind = "go"
        BY <1>1, <2>4, <3>1, <4>1 DEF e, here
      <4>2. CASE e.kind = "special"
        <5>1. Special(e) \in ToSet(found')
          BY <1>5, <1>12, <2>4, <3>1, <4>2 DEF e, here
        <5> QED
          BY <1>4, <3>1, <4>2, <5>1 DEF Reported, e
      <4>3. CASE e.kind = "data"
        BY <3>1, <4>3 DEF Reported, e
      <4>4. e.kind # "broken"
        BY <1>1, <2>4, <3>1 DEF e, here
      <4> QED
        BY <1>9, <4>1, <4>2, <4>3, <4>4
    <3>2. CASE i # entry
      <4>1. i \in 1..(entry - 1)
        BY <1>7, <3>2
      <4>2. IF tree[i].kind = "go" THEN i \in parsed ELSE Reported(tree, i, found)
        BY <1>1, <2>4, <4>1 DEF RootInv
      <4>3. Reported(tree, i, found) => Reported(tree, i, found')
        BY <1>12, ReportedMore
      <4> QED
        BY <1>1, <4>2, <4>3
    <3> QED
      BY <3>1, <3>2
  <2>5. ASSUME NEW f \in ToSet(found')
        PROVE  \E i \in 1..entry : tree[i].name = f.name /\ tree[i].kind = "special"
    <3>1. CASE f \in ToSet(found)
      BY <1>8, <1>10, <3>1
    <3>2. CASE f \in ToSet(new)
      <4>1. f = Special(e) /\ e.kind = "special" /\ entry \in 1..entry
        BY <1>3, <1>5, <3>2
      <4> QED
        BY <1>4, <4>1 DEF e
    <3> QED
      BY <1>12, <3>1, <3>2
  <2> QED
    BY <1>1, <1>12, <2>1, <2>2, <2>3, <2>4, <2>5 DEF RootInv
<1>15. StraysInv'
  <2>1. ASSUME NEW f \in ToSet(new)
        PROVE  Real(tree, Covered, f)
    <3>1. f = Special(e) /\ here /\ e.kind = "special"
      BY <1>5
    <3>2. e.dir \in Covered
      BY <1>1, <3>1 DEF Covered, here
    <3> QED
      BY <1>3, <1>4, <3>1, <3>2 DEF Real, e
  <2>2. \A f \in ToSet(found') : Real(tree, Covered, f)
    BY <1>1, <1>12, <2>1 DEF StraysInv
  <2> QED
    BY <1>1, <1>2, <1>12, <2>2 DEF StraysInv
<1>16. OneRootInv'
  BY <1>1 DEF OneRootInv
<1> QED
  BY <1>1, <1>2, <1>13, <1>14, <1>15, <1>16 DEF CommentInv


\* One turn of the loop over the map of directories, for the files P of one
\* directory: findings of these files, complete unless a file is excused.
LEMMA DirectoryFacts ==
  ASSUME NEW t \in Seq(Entries), NEW P \in SUBSET DOMAIN t, NEW d,
         \A k \in P : t[k].kind = "go" /\ t[k].dir = d,
         \A i, k \in DOMAIN t : t[i].name = t[k].name => i = k
  PROVE  /\ DirectoryFindings(t, P) \in Seq(Findings) /\ Distinct(DirectoryFindings(t, P))
         /\ \A f \in ToSet(DirectoryFindings(t, P)) : \E i \in P :
              t[i].name = f.name /\ f.line \in DOMAIN t[i].groups /\ ~Obeys(t[i], f.line)
         /\ \A i \in P : Reported(t, i, DirectoryFindings(t, P))
<1> DEFINE new == DirectoryFindings(t, P)
           outputs == generatorOutputs({t[k] : k \in P})
           F(i) == strayComments(t[i], t[i].name \in outputs)
           s == [i \in DOMAIN t |-> IF i \in P THEN F(i) ELSE <<>>]
<1>1. Len(t) \in Nat /\ DOMAIN t = 1..Len(t) /\ \A i \in DOMAIN t : t[i] \in Entries
  BY LenProperties, ElementOfSeq
<1>2. new = FlattenSeq(s)
  BY Zenon DEF DirectoryFindings
<1> HIDE DEF new
<1> HIDE DEF outputs
<1>3. ASSUME NEW i \in P
      PROVE  /\ F(i) \in Seq(Findings) /\ Distinct(F(i))
             /\ \A f \in ToSet(F(i)) :
                  f.name = t[i].name /\ f.line \in DOMAIN t[i].groups /\ ~Obeys(t[i], f.line)
             /\ \/ t[i].name \in outputs /\ t[i].generated
                \/ \A j \in DOMAIN t[i].groups : Obeys(t[i], j) \/ \E f \in ToSet(F(i)) : f.line = j
  <2>1. t[i] \in Entries
    BY <1>1
  <2>2. PICK named \in BOOLEAN : named = (t[i].name \in outputs)
    <3>1. CASE t[i].name \in outputs
      <4>1. TRUE = (t[i].name \in outputs) /\ TRUE \in BOOLEAN
        BY <3>1, Zenon
      <4> QED
        BY <4>1, Zenon
    <3>2. CASE t[i].name \notin outputs
      <4>1. FALSE = (t[i].name \in outputs) /\ FALSE \in BOOLEAN
        BY <3>2
      <4> QED
        BY <4>1, Zenon
    <3> QED
      BY <3>1, <3>2
  <2>3. F(i) = strayComments(t[i], named) /\ (named <=> t[i].name \in outputs)
    BY <2>2, Zenon
  <2> HIDE DEF F
  <2>4. /\ strayComments(t[i], named) \in Seq(Findings) /\ Distinct(strayComments(t[i], named))
        /\ \A f \in ToSet(strayComments(t[i], named)) :
             f.name = t[i].name /\ f.line \in DOMAIN t[i].groups /\ ~Obeys(t[i], f.line)
        /\ \/ named /\ t[i].generated
           \/ \A j \in DOMAIN t[i].groups :
                Obeys(t[i], j) \/ \E f \in ToSet(strayComments(t[i], named)) : f.line = j
    BY <2>1, StrayCommentsFacts, Zenon
  <2> QED
    BY <2>3, <2>4, Zenon
<1> HIDE DEF F
<1>4. ASSUME NEW i \in DOMAIN t
      PROVE  /\ s[i] \in Seq(Findings) /\ Distinct(s[i])
             /\ s[i] = IF i \in P THEN F(i) ELSE <<>>
             /\ i \notin P => ToSet(s[i]) = {}
  <2>1. <<>> \in Seq(Findings) /\ Distinct(<<>>) /\ ToSet(<<>>) = {}
    BY DEF Distinct, ToSet
  <2>2. s[i] = IF i \in P THEN F(i) ELSE <<>>
    OBVIOUS
  <2> HIDE DEF s
  <2> QED
    BY <1>3, <2>1, <2>2
<1>5. s \in Seq(Seq(Findings)) /\ DOMAIN s = DOMAIN t
  <2>1. s \in [1..Len(t) -> Seq(Findings)]
    BY <1>1, <1>4
  <2> QED
    BY <1>1, <2>1, SeqDef
<1> HIDE DEF s
<1>6. /\ new \in Seq(Findings)
      /\ \A f : f \in ToSet(new) <=> \E i \in DOMAIN t : f \in ToSet(s[i])
  BY <1>2, <1>5, FlattenFacts
<1>7. Distinct(new)
  <2>1. ASSUME NEW i \in DOMAIN s, NEW k \in DOMAIN s, i # k, NEW f \in ToSet(s[i]), NEW g \in ToSet(s[k])
        PROVE  ~SamePlace(f, g)
    <3>1. i \in P /\ k \in P /\ s[i] = F(i) /\ s[k] = F(k)
      BY <1>4, <1>5
    <3>2. f.name = t[i].name /\ g.name = t[k].name
      BY <1>3, <3>1
    <3> QED
      BY <1>5, <2>1, <3>2 DEF SamePlace
  <2> QED
    BY <1>2, <1>4, <1>5, <2>1, FlattenDistinct
<1>8. ASSUME NEW f \in ToSet(new)
      PROVE  \E i \in P : t[i].name = f.name /\ f.line \in DOMAIN t[i].groups /\ ~Obeys(t[i], f.line)
  <2>1. PICK i \in DOMAIN t : f \in ToSet(s[i])
    BY <1>6
  <2>2. i \in P /\ s[i] = F(i)
    BY <1>4, <2>1
  <2> QED
    BY <1>3, <2>1, <2>2
<1>9. ASSUME NEW i \in P
      PROVE  Reported(t, i, new)
  <2>1. t[i].kind = "go" /\ i \in DOMAIN t
    OBVIOUS
  <2>2. CASE t[i].name \in outputs /\ t[i].generated
    <3>1. Excused(t, i)
      BY <2>2, OutputsExcuse DEF outputs
    <3> QED
      BY <2>1, <3>1 DEF Reported
  <2>3. CASE \A j \in DOMAIN t[i].groups : Obeys(t[i], j) \/ \E f \in ToSet(F(i)) : f.line = j
    <3>1. ToSet(F(i)) \subseteq ToSet(new)
      BY <1>4, <1>6, <2>1
    <3>2. \A j \in DOMAIN t[i].groups : Obeys(t[i], j) \/ \E f \in ToSet(new) : f.name = t[i].name /\ f.line = j
      BY <1>3, <2>3, <3>1
    <3> QED
      BY <2>1, <3>2 DEF Reported
  <2> QED
    BY <1>3, <2>2, <2>3
<1> QED
  BY <1>6, <1>7, <1>8, <1>9 DEF new

LEMMA CheckDirectoryStep ==
  ASSUME CommentInv, NEW d, CheckDirectory(d)
  PROVE  CommentInv'
<1> DEFINE P == {i \in parsed : tree[i].dir = d}
           new == DirectoryFindings(tree, P)
<1>1. /\ pc = "check" /\ d \in left /\ left' = left \ {d}
      /\ UNCHANGED <<tree, args, pc, root, entry, parsed, strays, stdout, code>>
      /\ TypeOK /\ RootInv /\ StraysInv /\ OneRootInv /\ root \in DOMAIN args
  BY DEF CheckDirectory, CommentInv
<1>2. NothingHidden' /\ FindingsAreReal' /\ ReportOrdered' /\ Covered' = Covered
  BY <1>1, ReportKept
<1>3. /\ tree \in Seq(Entries) /\ DOMAIN tree = 1..Len(tree) /\ Len(tree) \in Nat
      /\ \A i, k \in DOMAIN tree : tree[i].name = tree[k].name => i = k
  BY <1>1, TreeFacts
<1>4. found' = found \o new
  BY DEF CheckDirectory
<1>5. /\ \A k \in P : k \in DOMAIN tree /\ k \in parsed /\ tree[k].kind = "go" /\ tree[k].dir = d /\ d \in args[root]
      /\ P \in SUBSET DOMAIN tree
  <2>1. parsed \subseteq DOMAIN tree
    BY <1>1, <1>3 DEF RootInv
  <2> QED
    BY <1>1, <2>1 DEF TypeOK
<1>6. \A i \in parsed : tree[i].dir = d => i \in P
  OBVIOUS
<1>7. entry = Len(tree) + 1 /\ 1..(entry - 1) = DOMAIN tree
  BY <1>1, <1>3 DEF RootInv
<1> HIDE DEF P
<1> HIDE DEF new
<1>9. /\ new \in Seq(Findings) /\ Distinct(new)
      /\ \A f \in ToSet(new) : \E i \in P :
           tree[i].name = f.name /\ f.line \in DOMAIN tree[i].groups /\ ~Obeys(tree[i], f.line)
      /\ \A i \in P : Reported(tree, i, new)
  <2>1. \A k \in P : tree[k].kind = "go" /\ tree[k].dir = d
    BY <1>5
  <2> QED
    BY <1>3, <1>5, <2>1, DirectoryFacts, Zenon DEF new
<1>10. ASSUME NEW f \in ToSet(found)
       PROVE  \E i \in DOMAIN tree : tree[i].name = f.name /\ Settled(i)
  BY <1>1, <1>7 DEF RootInv
<1>11. ASSUME NEW i \in P PROVE ~Settled(i)
  BY <1>1, <1>5 DEF Settled
<1>12. \A f \in ToSet(found), g \in ToSet(new) : ~SamePlace(f, g)
  <2> SUFFICES ASSUME NEW f \in ToSet(found), NEW g \in ToSet(new), f.name = g.name
               PROVE  FALSE
    BY DEF SamePlace
  <2>1. PICK i \in DOMAIN tree : tree[i].name = f.name /\ Settled(i)
    BY <1>10
  <2>2. PICK k \in P : tree[k].name = g.name
    BY <1>9
  <2>3. i = k
    BY <1>3, <1>5, <2>1, <2>2
  <2> QED
    BY <1>11, <2>1, <2>3
<1>13. found' \in Seq(Findings) /\ ToSet(found') = ToSet(found) \cup ToSet(new) /\ Distinct(found')
  BY <1>1, <1>4, <1>9, <1>12, FoundGrows
<1>14. TypeOK'
  BY <1>1 DEF TypeOK
<1>15. RootInv'
  <2>1. ASSUME NEW i
        PROVE  Settled(i)' <=> Settled(i) \/ (i \in parsed /\ tree[i].dir = d)
    BY <1>1 DEF Settled
  <2>2. ASSUME NEW i \in DOMAIN tree, tree[i].dir \in args[root]
        PROVE  IF tree[i].kind = "go" THEN i \in parsed /\ (Settled(i)' => Reported(tree, i, found'))
               ELSE Reported(tree, i, found')
    <3>1. IF tree[i].kind = "go" THEN i \in parsed /\ (Settled(i) => Reported(tree, i, found))
          ELSE Reported(tree, i, found)
      BY <1>1, <1>7, <2>2 DEF RootInv
    <3>2. Reported(tree, i, found) => Reported(tree, i, found')
      BY <1>13, ReportedMore
    <3>3. i \in P => Reported(tree, i, found')
      <4>1. ToSet(new) \subseteq ToSet(found')
        BY <1>13
      <4> QED
        BY <1>9, <4>1, ReportedMore
    <3>4. Settled(i)' => Settled(i) \/ i \in P
      BY <1>6, <2>1
    <3> QED
      BY <3>1, <3>2, <3>3, <3>4
  <2>3. ASSUME NEW f \in ToSet(found')
        PROVE  \E i \in DOMAIN tree : tree[i].name = f.name /\ Settled(i)'
    <3>1. CASE f \in ToSet(found)
      BY <1>10, <2>1, <3>1
    <3>2. CASE f \in ToSet(new)
      BY <1>5, <1>9, <2>1, <3>2
    <3> QED
      BY <1>13, <3>1, <3>2
  <2>4. parsed' \subseteq 1..(entry' - 1) /\ entry' = Len(tree') + 1
    BY <1>1, <1>7 DEF RootInv
  <2>5. 1..(entry' - 1) = DOMAIN tree /\ tree' = tree /\ args'[root'] = args[root] /\ parsed' = parsed
    BY <1>1, <1>7
  <2> QED
    BY <1>13, <2>2, <2>3, <2>4, <2>5 DEF RootInv
<1>16. StraysInv'
  <2>1. ASSUME NEW f \in ToSet(new)
        PROVE  Real(tree, Covered, f)
    <3>1. PICK i \in P : tree[i].name = f.name /\ f.line \in DOMAIN tree[i].groups /\ ~Obeys(tree[i], f.line)
      BY <1>9
    <3>2. tree[i].dir \in Covered /\ tree[i].kind = "go" /\ i \in DOMAIN tree
      BY <1>1, <1>5 DEF Covered
    <3>3. ~Documented(tree[i], f.line) \/ (tree[i].test /\ ~KeptInTests(tree[i], f.line))
      BY <3>1, Zenon DEF Obeys
    <3> QED
      BY <3>1, <3>2, <3>3, Zenon DEF Real
  <2>2. \A f \in ToSet(found') : Real(tree, Covered, f)
    BY <1>1, <1>13, <2>1 DEF StraysInv
  <2> QED
    BY <1>1, <1>2, <1>13, <2>2 DEF StraysInv
<1>17. OneRootInv'
  BY <1>1 DEF OneRootInv
<1> QED
  BY <1>1, <1>2, <1>14, <1>15, <1>16, <1>17 DEF CommentInv


LEMMA RootEndsStep ==
  ASSUME CommentInv, RootEnds
  PROVE  CommentInv'
<1>1. /\ pc = "check" /\ left = {} /\ found' = <<>> /\ parsed' = {} /\ entry' = 1
      /\ \/ root < Len(args) /\ root' = root + 1 /\ pc' = "walk"
         \/ root = Len(args) /\ pc' = "print" /\ root' = root
      /\ UNCHANGED <<tree, args, left, stdout, code>>
      /\ TypeOK /\ RootInv /\ StraysInv /\ OneRootInv /\ root \in DOMAIN args
  BY DEF RootEnds, CommentInv
<1>2. PICK sorted \in SortFunc(found) : strays' = strays \o sorted
  BY DEF RootEnds
<1>3. NothingHidden' /\ FindingsAreReal' /\ ReportOrdered' /\ Covered' = Covered
  BY <1>1, ReportKept
<1>4. /\ Len(tree) \in Nat /\ DOMAIN tree = 1..Len(tree)
      /\ Len(args) \in Nat /\ DOMAIN args = 1..Len(args) /\ root \in 1..Len(args)
  BY <1>1, TreeFacts
<1>5. found \in Seq(Findings) /\ strays \in Seq(Findings) /\ stdout \in Seq(Findings) /\ Distinct(found)
  BY <1>1 DEF StraysInv, RootInv
<1>6. /\ sorted \in Seq(Findings) /\ ToSet(sorted) = ToSet(found)
      /\ \A n \in 1..(Len(sorted) - 1) : compareFindings(sorted[n], sorted[n + 1])
  BY <1>2, <1>5, SortFacts
<1>7. strays' \in Seq(Findings) /\ ToSet(strays') = ToSet(strays) \cup ToSet(found)
  BY <1>2, <1>5, <1>6, ConcatFacts
<1>8. ToSet(<<>>) = {} /\ Distinct(<<>>) /\ <<>> \in Seq(Findings)
  BY DEF ToSet, Distinct
<1>9. root' \in DOMAIN args /\ \A r \in DOMAIN args : r < root' \/ pc' = "print" => r < root \/ r = root
  BY <1>1, <1>4
<1>10. TypeOK'
  <2>1. root' \in 1..(Len(args') + 1) /\ entry' \in 1..(Len(tree') + 1)
    BY <1>1, <1>4, <1>9
  <2>2. pc' \in {"walk", "print"} /\ code' = -1
    BY <1>1 DEF TypeOK
  <2> QED
    BY <1>1, <2>1, <2>2 DEF TypeOK
<1>11. RootInv'
  <2>1. 1..(entry' - 1) = {}
    BY <1>1
  <2>2. parsed' = {} /\ found' = <<>> /\ pc' # "check"
    BY <1>1
  <2> QED
    BY <1>8, <2>1, <2>2 DEF RootInv
<1>12. StraysInv'
  <2>1. ASSUME NEW r \in DOMAIN args, r < root' \/ pc' = "print", NEW i \in DOMAIN tree, tree[i].dir \in args[r]
        PROVE  Reported(tree, i, strays')
    <3>1. CASE r < root
      <4>1. Reported(tree, i, strays)
        BY <1>1, <2>1, <3>1 DEF StraysInv
      <4> QED
        BY <1>7, <4>1, ReportedMore
    <3>2. CASE r = root
      <4>1. i \in 1..(entry - 1)
        BY <1>1, <1>4 DEF RootInv
      <4>2. IF tree[i].kind = "go" THEN i \in parsed /\ (Settled(i) => Reported(tree, i, found))
            ELSE Reported(tree, i, found)
        BY <1>1, <2>1, <3>2, <4>1 DEF RootInv
      <4>3. i \in parsed => Settled(i)
        BY <1>1 DEF Settled
      <4>4. Reported(tree, i, found)
        BY <4>2, <4>3
      <4> QED
        BY <1>7, <4>4, ReportedMore
    <3> QED
      BY <1>9, <2>1, <3>1, <3>2
  <2>2. \A f \in ToSet(found') \cup ToSet(strays') \cup ToSet(stdout') : Real(tree, Covered, f)
    BY <1>1, <1>7, <1>8 DEF StraysInv
  <2>3. {found', strays', stdout'} \subseteq Seq(Findings) /\ stdout' = <<>>
    BY <1>1, <1>5, <1>7, <1>8 DEF StraysInv
  <2> QED
    BY <1>1, <1>3, <2>1, <2>2, <2>3 DEF StraysInv
<1>13. OneRootInv'
  <2> SUFFICES ASSUME Len(args) = 1
               PROVE  /\ pc' \notin {"start", "walk", "check"}
                      /\ \A n \in 1..(Len(strays') - 1) : compareFindings(strays'[n], strays'[n + 1])
    BY <1>1 DEF OneRootInv
  <2>1. pc' = "print"
    BY <1>1, <1>4
  <2>2. strays = <<>>
    BY <1>1 DEF OneRootInv
  <2>3. strays' = sorted
    BY <1>2, <1>6, <2>2, ConcatEmptySeq
  <2> QED
    BY <1>6, <2>1, <2>3
<1> QED
  BY <1>1, <1>3, <1>9, <1>10, <1>11, <1>12, <1>13 DEF CommentInv

LEMMA PrintReportStep ==
  ASSUME CommentInv, PrintReport
  PROVE  CommentInv'
<1>1. /\ pc = "print" /\ pc' = "exited"
      /\ UNCHANGED <<tree, args, root, entry, parsed, left, found, strays>>
      /\ TypeOK /\ StraysInv /\ OneRootInv /\ stdout = <<>> /\ strays \in Seq(Findings)
  BY DEF PrintReport, report, CommentInv, StraysInv
<1>2. PICK n \in 0..Len(strays) :
        /\ stdout' = SubSeq(strays, 1, n)
        /\ \/ code' \in {0, 1} /\ stdout' = strays /\ (code' = 1 => strays # <<>>)
           \/ code' = 74
  <2>1. Len(strays) \in Nat /\ SubSeq(strays, 1, Len(strays)) = strays
    BY <1>1, LenProperties, SubSeqFull
  <2>2. CASE strays = <<>> /\ pc' = "exited" /\ code' = 0 /\ UNCHANGED stdout
    <3>1. stdout' = strays /\ Len(strays) \in 0..Len(strays)
      BY <1>1, <2>1, <2>2
    <3>2. stdout' = SubSeq(strays, 1, Len(strays)) /\ code' \in {0, 1} /\ code' # 1
      BY <2>1, <2>2, <3>1
    <3> QED
      BY <3>1, <3>2, Zenon
  <2>3. CASE strays # <<>> /\ pc' = "exited" /\ code' = 1 /\ stdout' = strays
    <3>1. Len(strays) \in 0..Len(strays)
      BY <2>1
    <3>2. stdout' = SubSeq(strays, 1, Len(strays)) /\ code' \in {0, 1}
      BY <2>1, <2>3
    <3> QED
      BY <2>3, <3>1, <3>2, Zenon
  <2>4. CASE strays # <<>> /\ report(74) /\ \E n \in 0..Len(strays) : stdout' = SubSeq(strays, 1, n)
    BY <2>4 DEF report
  <2> QED
    BY <2>2, <2>3, <2>4 DEF PrintReport
<1>3. /\ stdout' \in Seq(Findings) /\ Len(stdout') = n
      /\ \A i \in 1..n : i \in DOMAIN strays /\ stdout'[i] = strays[i]
      /\ n \in Nat /\ Len(strays) \in Nat /\ DOMAIN stdout' = 1..n
  <2>1. Len(strays) \in Nat /\ DOMAIN strays = 1..Len(strays) /\ \A i \in 1..Len(strays) : strays[i] \in Findings
    BY <1>1, LenProperties, ElementOfSeq
  <2>2. n \in Nat /\ \A i \in 1..n : i \in 1..Len(strays)
    BY <2>1
  <2>3. \A i \in 1..n : strays[i] \in Findings
    BY <2>1, <2>2
  <2>4. /\ SubSeq(strays, 1, n) \in Seq(Findings)
        /\ Len(SubSeq(strays, 1, n)) = IF 1 <= n THEN n - 1 + 1 ELSE 0
        /\ \A i \in 1..(n - 1 + 1) : SubSeq(strays, 1, n)[i] = strays[1 + i - 1]
    BY <2>2, <2>3, SubSeqProperties
  <2>5. Len(stdout') = n /\ n - 1 + 1 = n /\ \A i \in 1..n : 1 + i - 1 = i
    BY <1>2, <2>2, <2>4
  <2>6. \A i \in 1..n : stdout'[i] = strays[i]
    BY <1>2, <2>4, <2>5
  <2> QED
    BY <1>2, <2>1, <2>2, <2>4, <2>5, <2>6, LenProperties
<1>4. ToSet(stdout') \subseteq ToSet(strays)
  BY <1>3 DEF ToSet
<1>5. Covered' = Covered
  BY <1>1 DEF Covered
<1>6. \A f \in ToSet(stdout') : Real(tree, Covered, f)
  BY <1>1, <1>4 DEF StraysInv
<1>7. TypeOK'
  BY <1>1, <1>2 DEF TypeOK
<1>8. RootInv' /\ OneRootInv'
  BY <1>1 DEF RootInv, OneRootInv
<1>9. StraysInv'
  BY <1>1, <1>3, <1>5, <1>6 DEF StraysInv
<1>10. NothingHidden'
  <2> SUFFICES ASSUME code' \in {0, 1}, NEW i \in DOMAIN tree, tree[i].dir \in Covered
               PROVE  Reported(tree, i, stdout')
    BY <1>1, <1>5 DEF NothingHidden
  <2>1. stdout' = strays
    BY <1>2
  <2>2. PICK r \in DOMAIN args : tree[i].dir \in args[r]
    BY DEF Covered
  <2> QED
    BY <1>1, <2>1, <2>2 DEF StraysInv
<1>11. FindingsAreReal'
  <2>1. code' = 1 => stdout' # <<>>
    BY <1>2
  <2> QED
    BY <1>1, <1>5, <1>6, <2>1 DEF FindingsAreReal
<1>12. ReportOrdered'
  <2> SUFFICES ASSUME Len(args) = 1, NEW i \in 1..(n - 1)
               PROVE  compareFindings(stdout'[i], stdout'[i + 1])
    BY <1>1, <1>3 DEF ReportOrdered
  <2>1. i \in 1..n /\ i + 1 \in 1..n /\ i \in 1..(Len(strays) - 1)
    BY <1>2, <1>3
  <2>2. compareFindings(strays[i], strays[i + 1])
    BY <1>1, <2>1 DEF OneRootInv
  <2> QED
    BY <1>3, <2>1, <2>2
<1> QED
  BY <1>1, <1>7, <1>8, <1>9, <1>10, <1>11, <1>12 DEF CommentInv

LEMMA StutterStep ==
  ASSUME CommentInv, UNCHANGED vars
  PROVE  CommentInv'
<1>1. UNCHANGED <<tree, args, pc, root, entry, parsed, left, found, strays, stdout, code>>
  BY DEF vars
<1>2. NothingHidden' /\ FindingsAreReal' /\ ReportOrdered' /\ Covered' = Covered
  BY <1>1, ReportKept
<1>3. TypeOK' /\ OneRootInv'
  BY <1>1 DEF CommentInv, TypeOK, OneRootInv
<1>4. RootInv'
  BY <1>1 DEF CommentInv, RootInv, Settled
<1>5. StraysInv'
  BY <1>1, <1>2 DEF CommentInv, StraysInv
<1> QED
  BY <1>1, <1>2, <1>3, <1>4, <1>5 DEF CommentInv

-----------------------------------------------------------------------------
\* The inductive invariant holds of every behaviour.
THEOREM Invariance == Spec => []CommentInv
<1>1. ASSUME CommentInv, [Next]_vars
      PROVE  CommentInv'
  BY <1>1, StartStep, WalkStep, WalkFailsStep, WalkEndsStep, CheckDirectoryStep, RootEndsStep,
     PrintReportStep, StutterStep DEF Next, CheckStep, Exited
<1> QED
  BY InitComment, <1>1, PTL DEF Spec

\* check: for any trees, roots, go.mod and orders of the map of directories, exit
\* codes 0 and 1 mean that nothing that breaks the rules was passed over.
THEOREM NothingIsHidden == Spec => []NothingHidden
<1>1. CommentInv => NothingHidden
  BY DEF CommentInv
<1> QED
  BY Invariance, <1>1, PTL

\* check: whatever is printed is about a special file, a comment that the command's
\* doc comment does not allow, or, in a test file, one of a kind its tests do not name.
THEOREM FindingsAreFounded == Spec => []FindingsAreReal
<1>1. CommentInv => FindingsAreReal
  BY DEF CommentInv
<1> QED
  BY Invariance, <1>1, PTL

\* straysUnder: the report is sorted and without repetition, in whatever order the
\* map of directories was gone through, although the sort is not a stable one.
THEOREM ReportIsOrdered == Spec => []ReportOrdered
<1>1. CommentInv => ReportOrdered
  BY DEF CommentInv
<1> QED
  BY Invariance, <1>1, PTL

\* Every variable of CommentCheck keeps its type.
THEOREM TypeCorrect == Spec => []TypeOK
<1>1. CommentInv => TypeOK
  BY DEF CommentInv
<1> QED
  BY Invariance, <1>1, PTL
=============================================================================
