---------------------------- MODULE CommentPolicy ----------------------------
(***************************************************************************)
(* Which comments commentcheck refuses (comments.go, docs.go and           *)
(* directives.go), as operators over parsed files.                         *)
(*                                                                         *)
(* A comment group stands where its owner says: the declaration, and down  *)
(* from it the types and fields, of the node it documents, or the function *)
(* declaration whose body it is in.  Texts are abstracted to what the      *)
(* rules tell apart; a group's line numbers follow its index in the file.  *)
(***************************************************************************)
EXTENDS Naturals, FiniteSetsExt, SequencesExt

CONSTANT GoMod   \* the lines of the nearest go.mod, [kind, name], empty without one

NoType == <<>>

\* A comment line; a //go: directive has a name, "" when its words do not parse.
GoLine(name, words) == [kind |-> "go", name |-> name, words |-> words]
TextLine(kind) == [kind |-> kind, name |-> "", words |-> <<>>]   \* "text", "nolint", "output"

\* A word of a directive; the value is the file name a flag or a plain word holds.
Word(kind, value) == [kind |-> kind, value |-> value]
IsFlag(word) == word.kind \in {"-o", "-o=", "-x", "-x="}

\* What Go's parser makes of a file.  A node on the way down to a comment, where a
\* function has a place of its own in the file, and a name that begins with Example is
\* exported; a comment group, which has a line, and an owner only as a doc or in a body.
Words == [kind: STRING, value: STRING]
CommentLines == [kind: {"go", "text", "nolint", "output"}, name: STRING, words: Seq(Words)]
Funcs ==
  {f \in [node: {"func"}, decl: Nat, exported: BOOLEAN, recv: Seq(STRING), example: BOOLEAN, bare: BOOLEAN] :
     f.example => f.exported}
Nodes ==
  Funcs
  \cup [node: {"group", "type", "value"}, names: SUBSET BOOLEAN]
  \cup [node: {"field"}, names: SUBSET BOOLEAN, type: Seq(STRING)]
  \cup [node: {"struct", "interface", "star", "array", "map", "chan", "paren", "funcType"}]
Groups ==
  {g \in [place: {"package", "doc", "body", "loose"}, owner: Seq(Nodes), lines: Seq(CommentLines)] :
     g.lines # <<>> /\ (g.place \in {"package", "loose"} => g.owner = <<>>)}

-----------------------------------------------------------------------------
(* directives.go *)

\* A flag without a value takes the next word unless that is a flag too, so every
\* other word stands directly behind such a flag.
isFlagList(words) ==
  \A i \in DOMAIN words :
    IsFlag(words[i]) \/ (i > 1 /\ words[i - 1].kind \in {"-o", "-x"})

\* What the -o and -output flags hold; no file is named like a flag.
outputFlagValues(words) ==
  {words[i].value : i \in {j \in DOMAIN words : words[j].kind = "-o="}}
  \cup {words[i].value : i \in {j \in DOMAIN words : ~IsFlag(words[j]) /\ j > 1 /\ words[j - 1].kind = "-o"}}

\* The names on the tool lines of go.mod, and on every line of its tool blocks.
declaredTools ==
  LET InToolBlock(k) == \E o \in 1..(k - 1) :
        GoMod[o].kind = "tool (" /\ \A c \in (o + 1)..(k - 1) : GoMod[c].kind # ")"
  IN  {GoMod[i].name : i \in {k \in DOMAIN GoMod :
         IF InToolBlock(k) THEN GoMod[k].kind \notin {"blank", ")"} ELSE GoMod[k].kind = "tool"}}

\* go run of a module at a version or of a package of the tree, or go tool with a
\* tool of the nearest go.mod, and flags only behind it.  No tool is named like a flag.
isPinnedGenerator(words) ==
  /\ Len(words) >= 3 /\ words[1].kind = "go"
  /\ isFlagList(SubSeq(words, 4, Len(words)))
  /\ \/ words[2].kind = "run" /\ words[3].kind \in {"versionedModule", "localPackage"}
     \/ words[2].kind = "tool" /\ ~IsFlag(words[3]) /\ words[3].value \in declaredTools

Kinds(words) == [i \in DOMAIN words |-> words[i].kind]

isKnownDirective(line) ==
  /\ line.kind = "go"
  /\ CASE line.name = "noinline" -> line.words = <<>>
       [] line.name = "build"    -> Kinds(line.words) = <<"constraint">>
       [] line.name = "generate" -> isPinnedGenerator(line.words)
       [] line.name = "embed"    -> line.words # <<>> /\ \A i \in DOMAIN line.words : line.words[i].kind = "match"
       [] line.name = "fix"      -> Kinds(line.words) = <<"inline">>
       [] line.name = "debug"    -> Kinds(line.words) = <<"setting">>
       [] OTHER                  -> FALSE

LinesOf(file) == UNION {ToSet(file.groups[j].lines) : j \in DOMAIN file.groups}

\* Mutation of generatorOutputs: generated files vouch for others as well.
generatorOutputsOfAll(parsed) ==
  UNION {outputFlagValues(line.words) :
           line \in {l \in UNION {LinesOf(file) : file \in parsed} :
                       l.name = "generate" /\ isKnownDirective(l)}}

\* The files that the hand-written files of a directory name as outputs.
generatorOutputs(parsed) ==
  UNION {outputFlagValues(line.words) :
           line \in {l \in UNION {LinesOf(file) : file \in {f \in parsed : ~f.generated}} :
                       l.name = "generate" /\ isKnownDirective(l)}}

-----------------------------------------------------------------------------
(* docs.go *)

\* A type name is a chain of *, [] and [,] around an identifier or a selector.
isExportedTypeName(type) ==
  /\ type # NoType
  /\ \A i \in 1..(Len(type) - 1) : type[i] \in {"star", "index", "indexList"}
  /\ Last(type) \in {"Ident", "Selector"}    \* capital: exported


hasAnExportedReceiver(function) == function.recv = NoType \/ isExportedTypeName(function.recv)

isAccessibleField(field) ==
  IF field.names # {} THEN TRUE \in field.names ELSE isExportedTypeName(field.type)

\* Whether allowedDocs, allowSpecDocs and allowFieldDocs get past a node on their
\* way down: a declaration, a spec, a field, or a type around the next field.
Passes(node) ==
  CASE node.node = "func"  -> node.exported /\ hasAnExportedReceiver(node)
    [] node.node \in {"group", "type", "value"} -> TRUE \in node.names
    [] node.node = "field" -> isAccessibleField(node)
    [] OTHER -> node.node \in {"struct", "interface", "star", "array", "map", "chan"}

allowedDocs(group) ==
  \/ group.place = "package"
  \/ group.place = "doc" /\ \A i \in DOMAIN group.owner : Passes(group.owner[i])

isRunnableExample(function) ==
  /\ function.node = "func" /\ function.example
  /\ function.recv = NoType /\ function.bare

exampleDocs(group) == group.place = "doc" /\ Len(group.owner) = 1 /\ isRunnableExample(group.owner[1])

\* The last comment in the body that group j is in.
lastCommentIn(file, j) ==
  Max({k \in DOMAIN file.groups : file.groups[k].place = "body" /\ file.groups[k].owner = file.groups[j].owner})

isExampleOutput(group) == group.lines[1].kind = "output"

allowExampleOutputs(file, j) ==
  LET group == file.groups[j] IN
  /\ group.place = "body" /\ group.owner # <<>> /\ isRunnableExample(group.owner[1])
  /\ lastCommentIn(file, j) = j /\ isExampleOutput(group)

-----------------------------------------------------------------------------
(* comments.go *)

Allowed(file, j) ==
  IF file.test THEN exampleDocs(file.groups[j]) \/ allowExampleOutputs(file, j)
  ELSE allowedDocs(file.groups[j])

Finding(name, line, column, reason) ==
  [name |-> name, line |-> line, column |-> column, reason |-> reason]

\* Findings at the given lines of a group, in their order.
AtLines(file, j, lines, reason) ==
  FlattenSeq([i \in DOMAIN file.groups[j].lines |->
                IF i \in lines THEN <<Finding(file.name, j, i, reason)>> ELSE <<>>])

isNolintDirective(line) == line.kind = "nolint"

nolintDirectives(file, j) ==
  LET lines == file.groups[j].lines
  IN  AtLines(file, j, {i \in DOMAIN lines : isNolintDirective(lines[i])}, "nolint")

strayDirectiveLines(file, j) ==
  LET lines == file.groups[j].lines
  IN  AtLines(file, j, {i \in DOMAIN lines : lines[i].kind = "go" /\ ~isKnownDirective(lines[i])}, "refused")

isInside(group) == group.place = "body"

isDirective(group) == \A i \in DOMAIN group.lines : isKnownDirective(group.lines[i])

\* The body of the loop of strayComments.
GroupFindings(file, j) ==
  LET group == file.groups[j]
      whole == <<Finding(file.name, j, 1, "refused")>>
  IN  IF nolintDirectives(file, j) # <<>> THEN nolintDirectives(file, j)
      ELSE IF isInside(group) THEN IF Allowed(file, j) THEN <<>> ELSE whole
      ELSE IF Allowed(file, j) THEN strayDirectiveLines(file, j)
      ELSE IF isDirective(group) THEN <<>> ELSE whole

strayComments(file, namedByAGenerator) ==
  IF namedByAGenerator /\ file.generated THEN <<>>
  ELSE FlattenSeq([j \in DOMAIN file.groups |-> GroupFindings(file, j)])
=============================================================================
