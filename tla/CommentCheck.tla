---------------------------- MODULE CommentCheck ----------------------------
(***************************************************************************)
(* One run of commentcheck (main.go): the roots are walked one after the   *)
(* other, the parsed files are checked directory by directory in the order *)
(* of a Go map, which is any, and the sorted findings are printed.         *)
(***************************************************************************)
EXTENDS CommentPolicy

CONSTANTS
  Trees,   \* what may be on disk: entries in the order of the walk, each
           \* [dir, name, kind, test, generated, groups]
  Args,    \* command lines: a root is the set of directories under it, {} if it
           \* cannot be read
  PathOrder   \* the names in the order of their paths, which the walk need not
              \* follow: a/x.go is walked before a.b/y.go

Entries ==
  [dir: STRING, name: ToSet(PathOrder), kind: {"go", "special", "broken", "data"},
   test: BOOLEAN, generated: BOOLEAN, groups: Seq(Groups)]

\* A path is on disk once.
ASSUME CommentAssumption ==
  /\ PathOrder \in Seq(STRING) /\ IsInjective(PathOrder)
  /\ Args \subseteq Seq(SUBSET STRING)
  /\ Trees \subseteq Seq(Entries)
  /\ \A t \in Trees : \A i, k \in DOMAIN t : t[i].name = t[k].name => i = k

VARIABLES
  tree, args,
  pc,        \* "start", "walk", "check", "print" or "exited"
  root,      \* index of the root at hand
  entry,     \* index of the walk's next entry
  parsed,    \* byDirectory: indices of the files parsed under this root
  left,      \* directories the map's iteration has not reached
  found,     \* findings under this root
  strays,    \* findings under the roots before it
  stdout,    \* what was printed
  code       \* the exit code, -1 before

vars == <<tree, args, pc, root, entry, parsed, left, found, strays, stdout, code>>

Init ==
  /\ tree \in Trees /\ args \in Args
  /\ pc = "start" /\ root = 1 /\ entry = 1 /\ parsed = {} /\ left = {}
  /\ found = <<>> /\ strays = <<>> /\ stdout = <<>> /\ code = -1

\* report: the diagnostic is written or not.
report(c) ==
  /\ pc' = "exited"
  /\ code' \in {c, 74}

-----------------------------------------------------------------------------
Start ==
  /\ pc = "start"
  /\ \/ args = <<>> /\ report(2)
     \/ args # <<>> /\ pc' = "walk" /\ UNCHANGED code
  /\ UNCHANGED <<tree, args, root, entry, parsed, left, found, strays, stdout>>

Special(e) == Finding(e.name, 0, 0, "unreadable")

\* The function given to WalkDir, for one entry of the walk; an entry that is not
\* under the root is not part of it.
Walk ==
  /\ pc = "walk" /\ args[root] # {} /\ entry <= Len(tree)
  /\ LET e == tree[entry] IN
       /\ e.dir \in args[root] => e.kind # "broken"
       /\ found' = IF e.dir \in args[root] /\ e.kind = "special" THEN Append(found, Special(e)) ELSE found
       /\ parsed' = IF e.dir \in args[root] /\ e.kind = "go" THEN parsed \cup {entry} ELSE parsed
  /\ entry' = entry + 1
  /\ UNCHANGED <<tree, args, pc, root, left, strays, stdout, code>>

\* A root or a directory that cannot be read, a file that cannot be read or parsed.
WalkFails ==
  /\ pc = "walk"
  /\ args[root] = {} \/ (entry <= Len(tree) /\ tree[entry].dir \in args[root] /\ tree[entry].kind = "broken")
  /\ report(66)
  /\ UNCHANGED <<tree, args, root, entry, parsed, left, found, strays, stdout>>

WalkEnds ==
  /\ pc = "walk" /\ args[root] # {} /\ entry > Len(tree)
  /\ pc' = "check"
  /\ left' = {tree[i].dir : i \in parsed}
  /\ UNCHANGED <<tree, args, root, entry, parsed, found, strays, stdout, code>>

\* The files of one directory, in the order they were parsed.
DirectoryFindings(t, files) ==
  LET outputs == generatorOutputs({t[i] : i \in files})
  IN  FlattenSeq([i \in DOMAIN t |->
        IF i \in files THEN strayComments(t[i], t[i].name \in outputs) ELSE <<>>])

CheckDirectory(d) ==
  /\ pc = "check" /\ d \in left
  /\ found' = found \o DirectoryFindings(tree, {i \in parsed : tree[i].dir = d})
  /\ left' = left \ {d}
  /\ UNCHANGED <<tree, args, pc, root, entry, parsed, strays, stdout, code>>

Index(name) == CHOOSE i \in DOMAIN PathOrder : PathOrder[i] = name

compareFindings(a, b) ==
  \/ Index(a.name) < Index(b.name)
  \/ a.name = b.name /\ a.line < b.line
  \/ a.name = b.name /\ a.line = b.line /\ a.column < b.column

\* slices.SortFunc: any order in which no finding compares less than an earlier one.
SortFunc(s) ==
  {t \in {[i \in DOMAIN s |-> s[order[i]]] : order \in Bijection(DOMAIN s, DOMAIN s)} :
     \A i, k \in DOMAIN s : i < k => ~compareFindings(t[k], t[i])}

\* Mutations of RootEnds: the map outlives the root; the findings stay in the
\* order they were made.
RootEndsKeepsParsed ==
  /\ pc = "check" /\ left = {}
  /\ \E sorted \in SortFunc(found) : strays' = strays \o sorted
  /\ found' = <<>> /\ entry' = 1
  /\ \/ root < Len(args) /\ root' = root + 1 /\ pc' = "walk"
     \/ root = Len(args) /\ pc' = "print" /\ UNCHANGED root
  /\ UNCHANGED <<tree, args, parsed, left, stdout, code>>

RootEndsUnsorted ==
  /\ pc = "check" /\ left = {}
  /\ strays' = strays \o found
  /\ found' = <<>> /\ parsed' = {} /\ entry' = 1
  /\ \/ root < Len(args) /\ root' = root + 1 /\ pc' = "walk"
     \/ root = Len(args) /\ pc' = "print" /\ UNCHANGED root
  /\ UNCHANGED <<tree, args, left, stdout, code>>

\* The sort at the end of straysUnder, and the next root.
RootEnds ==
  /\ pc = "check" /\ left = {}
  /\ \E sorted \in SortFunc(found) : strays' = strays \o sorted
  /\ found' = <<>> /\ parsed' = {} /\ entry' = 1
  /\ \/ root < Len(args) /\ root' = root + 1 /\ pc' = "walk"
     \/ root = Len(args) /\ pc' = "print" /\ UNCHANGED root
  /\ UNCHANGED <<tree, args, left, stdout, code>>

\* The report is written whole, or the write fails behind any part of it.
PrintReport ==
  /\ pc = "print"
  /\ \/ strays = <<>> /\ pc' = "exited" /\ code' = 0 /\ UNCHANGED stdout
     \/ strays # <<>> /\ pc' = "exited" /\ code' = 1 /\ stdout' = strays
     \/ strays # <<>> /\ report(74) /\ \E n \in 0..Len(strays) : stdout' = SubSeq(strays, 1, n)
  /\ UNCHANGED <<tree, args, root, entry, parsed, left, found, strays>>

Exited == pc = "exited" /\ UNCHANGED vars

CheckStep ==
  \/ Start \/ Walk \/ WalkFails \/ WalkEnds
  \/ \E d \in left : CheckDirectory(d)
  \/ RootEnds \/ PrintReport

Next == CheckStep \/ Exited

Spec == Init /\ [][Next]_vars

-----------------------------------------------------------------------------
\* Every variable holds a value of its type.
TypeOK ==
  /\ tree \in Trees /\ args \in Args
  /\ pc \in {"start", "walk", "check", "print", "exited"}
  /\ root \in 1..(Len(args) + 1) /\ entry \in 1..(Len(tree) + 1)
  /\ \A i \in parsed : tree[i].kind = "go" /\ tree[i].dir \in args[root]
  /\ left \subseteq {tree[i].dir : i \in parsed}
  /\ code \in {-1, 0, 1, 2, 66, 74} /\ (code # -1 <=> pc = "exited")

(***************************************************************************)
(* The rules in the words of the command's doc comment (main.go) and of    *)
(* its tests: what may stand in a comment, and who may excuse a file from  *)
(* it.  Which directives are known, both leave to the code.                *)
(***************************************************************************)

\* The name of an exported type, behind pointers or instantiated.
ExportedName(type) ==
  /\ type # NoType /\ Last(type) \in {"Ident", "Selector"}
  /\ ToSet(Front(type)) \subseteq {"star", "index", "indexList"}

Exported(node) ==
  /\ node.node = "func" => node.exported /\ (node.recv # NoType => ExportedName(node.recv))
  /\ node.node \in {"group", "type", "value"} => TRUE \in node.names
  /\ node.node = "field" => TRUE \in node.names \/ (node.names = {} /\ ExportedName(node.type))
  /\ node.node \notin {"paren", "funcType"}

\* "The package doc, the docs of exported package level identifiers".
ExportedDoc(group) ==
  \/ group.place = "package"
  \/ group.place = "doc" /\ \A i \in DOMAIN group.owner : Exported(group.owner[i])

\* What go test runs as an example: no method, no parameters, no results, and a body.
RunnableExample(node) ==
  node.node = "func" /\ node.example /\ node.recv = NoType /\ node.bare

\* "The Output comment that closes a runnable example": nothing follows in its body.
ClosingOutput(file, j) ==
  LET group == file.groups[j] IN
  /\ group.place = "body" /\ group.owner # <<>> /\ RunnableExample(group.owner[1])
  /\ group.lines[1].kind = "output"
  /\ \A k \in (j + 1)..Len(file.groups) : file.groups[k].owner = group.owner => file.groups[k].place = "doc"

OnlyDirectives(group) == \A i \in DOMAIN group.lines : isKnownDirective(group.lines[i])

\* Group j is one that the doc comment of the command allows.
Documented(file, j) ==
  LET group == file.groups[j] IN
  /\ \A i \in DOMAIN group.lines : group.lines[i].kind # "nolint"
  /\ \/ /\ ExportedDoc(group)
        /\ \A i \in DOMAIN group.lines : group.lines[i].kind = "go" => isKnownDirective(group.lines[i])
     \/ group.place # "body" /\ OnlyDirectives(group)
     \/ file.test /\ ClosingOutput(file, j)

\* The rule that only the tests state: TestATestFileKeepsOnlyExampleDocsDirectivesAnd-
\* ClosingOutputs.  The doc comment allows the other docs in test files as well.
KeptInTests(file, j) ==
  LET group == file.groups[j] IN
  \/ group.place = "doc" /\ Len(group.owner) = 1 /\ RunnableExample(group.owner[1])
  \/ OnlyDirectives(group)
  \/ ClosingOutput(file, j)

Obeys(file, j) == Documented(file, j) /\ (file.test => KeptInTests(file, j))

\* "Every comment of a generated file that a //go:generate directive of its
\* directory names as its output": the directive is in another file, one that is
\* not generated, and runs a pinned generator.
Excused(t, i) ==
  /\ t[i].generated
  /\ \E k \in DOMAIN t \ {i} :
       /\ t[k].kind = "go" /\ t[k].dir = t[i].dir /\ ~t[k].generated
       /\ \E line \in LinesOf(t[k]) :
            /\ line.name = "generate" /\ Len(line.words) > 3
            /\ line.words[2].kind = "run" => line.words[3].kind \in {"versionedModule", "localPackage"}
            /\ line.words[2].kind = "tool" => line.words[3].value \in declaredTools
            /\ t[i].name \in outputFlagValues(line.words)

Covered == UNION {args[r] : r \in DOMAIN args}

\* The findings s cover entry i of the tree t: it is readable, and listed if it is a
\* special file; each of its comments obeys the rules or is listed, unless a
\* hand-written neighbour vouches for the file.
Reported(t, i, s) ==
  LET Listed(line) == \E f \in ToSet(s) : f.name = t[i].name /\ f.line = line
  IN  /\ t[i].kind # "broken"
      /\ t[i].kind = "special" => Listed(0)
      /\ t[i].kind = "go" =>
           \/ Excused(t, i)
           \/ \A j \in DOMAIN t[i].groups : Obeys(t[i], j) \/ Listed(j)

\* Exit codes 0 and 1 are never wrong: all that was covered was readable, and a
\* special file or a comment that breaks the rules is among the findings, unless
\* it is in a generated file that a hand-written neighbour vouches for.  A file
\* cannot excuse itself, and nothing hides behind a link.
NothingHidden ==
  code \in {0, 1} => \A i \in DOMAIN tree : tree[i].dir \in Covered => Reported(tree, i, stdout)

\* Finding f is at a special file, in a comment that the doc comment of the command
\* does not allow, or in one that test files alone may not keep, in one of the
\* directories.
Real(t, dirs, f) ==
  \E i \in DOMAIN t :
    /\ t[i].name = f.name /\ t[i].dir \in dirs
    /\ \/ t[i].kind = "special" /\ f.line = 0
       \/ /\ t[i].kind = "go" /\ f.line \in DOMAIN t[i].groups
          /\ ~Documented(t[i], f.line) \/ (t[i].test /\ ~KeptInTests(t[i], f.line))

\* And exit code 1 always has a reason: each printed finding, under one of the roots,
\* is at a special file or in a comment that main.go's doc does not allow.  The one
\* exception is not in that doc: in a _test.go file, the package doc and the docs of
\* exported identifiers other than runnable examples are refused as well.
FindingsAreReal ==
  /\ code = 1 => stdout # <<>>
  /\ \A f \in ToSet(stdout) : Real(tree, Covered, f)

\* The report does not depend on the order in which the map of directories was
\* iterated: what is printed for a root is in the order of the paths and of the
\* comments in the files, and nothing is printed twice for it.
ReportOrdered ==
  Len(args) = 1 =>
    \A n \in 1..(Len(stdout) - 1) : compareFindings(stdout[n], stdout[n + 1])

-----------------------------------------------------------------------------
Reasons == {"refused", "nolint", "unreadable"}
Findings == [name: ToSet(PathOrder), line: Nat, column: Nat, reason: Reasons]

SamePlace(f, g) == f.name = g.name /\ f.line = g.line /\ f.column = g.column

\* No two of the findings s are at one place.
Distinct(s) == \A m, n \in DOMAIN s : SamePlace(s[m], s[n]) => m = n

\* The files whose findings are made: special ones at the walk, Go files once their
\* directory is taken from the map.
Settled(i) ==
  tree[i].kind = "special" \/ (pc = "check" /\ i \in parsed /\ tree[i].dir \notin left)

\* Under the root at hand, what the walk has passed is reported or parsed, and what
\* is parsed is reported once its directory is checked; nobody else has findings.
RootInv ==
  pc \in {"walk", "check"} =>
    /\ parsed \subseteq 1..(entry - 1) /\ (pc = "check" => entry = Len(tree) + 1)
    /\ \A i \in 1..(entry - 1) : tree[i].dir \in args[root] =>
         IF tree[i].kind = "go" THEN i \in parsed /\ (Settled(i) => Reported(tree, i, found))
         ELSE Reported(tree, i, found)
    /\ Distinct(found)
    /\ \A f \in ToSet(found) : \E i \in 1..(entry - 1) : tree[i].name = f.name /\ Settled(i)

\* All findings are real, and those of the roots that are done are complete.
StraysInv ==
  /\ {found, strays, stdout} \subseteq Seq(Findings)
  /\ \A f \in ToSet(found) \cup ToSet(strays) \cup ToSet(stdout) : Real(tree, Covered, f)
  /\ \A r \in DOMAIN args : r < root \/ pc = "print" =>
       \A i \in DOMAIN tree : tree[i].dir \in args[r] => Reported(tree, i, strays)
  /\ pc # "exited" => stdout = <<>>

\* With one root, the findings to print are that root's, sorted.
OneRootInv ==
  Len(args) = 1 =>
    /\ pc \in {"start", "walk", "check"} => strays = <<>>
    /\ pc = "print" => \A n \in 1..(Len(strays) - 1) : compareFindings(strays[n], strays[n + 1])

\* The inductive invariant of a run.
CommentInv ==
  /\ TypeOK
  /\ pc = "start" => root = 1 /\ entry = 1 /\ parsed = {} /\ left = {} /\ found = <<>>
  /\ pc = "walk" => left = {}
  /\ pc \in {"walk", "check", "print"} => root \in DOMAIN args
  /\ RootInv /\ StraysInv /\ OneRootInv
  /\ NothingHidden /\ FindingsAreReal /\ ReportOrdered
=============================================================================
