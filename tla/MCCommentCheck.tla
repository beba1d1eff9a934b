--------------------------- MODULE MCCommentCheck ---------------------------
(* CommentCheck on small trees: every rule on one comment, generators and     *)
(* their outputs in two files, and walks over two directories.               *)
EXTENDS CommentCheck

File(dir, name, kind, test, generated, groups) ==
  [dir |-> dir, name |-> name, kind |-> kind, test |-> test, generated |-> generated, groups |-> groups]

Group(place, owner, lines) == [place |-> place, owner |-> owner, lines |-> lines]

Func(decl, exported, recv, example, bare) ==
  [node |-> "func", decl |-> decl, exported |-> exported, recv |-> recv, example |-> example, bare |-> bare]
Named(node, names) == [node |-> node, names |-> names]
Field(names, type) == [node |-> "field", names |-> names, type |-> type]
Type(node) == [node |-> node]

T == {TRUE}
F == {FALSE}

Owners ==
  { <<Func(1, e, r, FALSE, b)>> : e \in BOOLEAN, b \in {TRUE},
      r \in {NoType, <<"Ident">>, <<"star", "index", "Ident">>, <<"star", "ident">>, <<"paren">>} }
  \cup { <<Func(1, TRUE, r, TRUE, b)>> : b \in BOOLEAN, r \in {NoType, <<"Ident">>} }
  \cup { <<Named(n, names)>> : n \in {"group", "type", "value"}, names \in {T, F, {TRUE, FALSE}} }
  \cup { <<Named("type", t), Type(c), Field(f, <<"Ident">>)>> :
           t \in {T, F}, f \in {T, F}, c \in {"struct", "interface", "paren"} }
  \cup { <<Named("type", T), Type("struct"), Field({}, ty)>> :
           ty \in {<<"Selector">>, <<"star", "ident">>, <<"indexList", "Ident">>, <<"struct">>} }
  \cup { <<Named("value", T), Type(c), Type("struct"), Field(f, NoType), Type("array"), Type("struct"), Field(T, NoType)>> :
           c \in {"star", "map", "chan", "funcType"}, f \in {T, F} }

Noinline == GoLine("noinline", <<>>)
Unparsed == GoLine("", <<>>)
W(k) == Word(k, "")
Generate(run, tool, flags) == GoLine("generate", <<W("go"), W(run), Word(tool, tool)>> \o flags)

MCGoMod ==
  LET L(kind, name) == [kind |-> kind, name |-> name] IN
  << L("other", "require"), L("tool (", "tool"), L("other", "inBlock"), L("blank", ""), L(")", ""),
     L("other", "retract"), L("tool", "single") >>

Lines ==
  { <<TextLine("text")>>, <<TextLine("output")>>, <<TextLine("nolint")>>, <<Noinline>>,
    <<Noinline, TextLine("nolint")>>, <<TextLine("text"), Noinline>>, <<TextLine("text"), Unparsed>>,
    <<Noinline, Unparsed>> }

Directives ==
  { GoLine("noinline", <<W("inline")>>), GoLine("build", <<W("constraint")>>), GoLine("build", <<>>),
    GoLine("embed", <<W("match"), W("match")>>), GoLine("embed", <<W("match"), W("miss")>>), GoLine("embed", <<>>),
    GoLine("fix", <<W("inline")>>), GoLine("fix", <<W("inline"), W("inline")>>),
    GoLine("debug", <<W("setting")>>), GoLine("debug", <<W("match")>>), GoLine("linkname", <<>>),
    Generate("run", "unversioned", <<>>), Generate("run", "localPackage", <<W("-x"), W("plain")>>),
    Generate("run", "localPackage", <<W("plain")>>), Generate("tool", "inBlock", <<W("-x="), W("plain")>>),
    GoLine("generate", <<W("go"), W("tool")>>) }

\* A function literal, two examples, a function with another shape.
Bodies == {<<>>, <<Func(1, TRUE, NoType, TRUE, TRUE)>>, <<Func(2, TRUE, NoType, TRUE, TRUE)>>,
           <<Func(3, TRUE, NoType, TRUE, FALSE)>>}

OneComment ==
  { Group("doc", owner, lines) : owner \in Owners, lines \in Lines }
  \cup { Group("body", owner, lines) : owner \in Bodies, lines \in Lines }
  \cup { Group(place, <<>>, lines) : place \in {"package", "loose"}, lines \in Lines }
  \cup { Group(place, <<>>, <<d>>) : place \in {"package", "loose", "body"}, d \in Directives }

TwoComments ==
  { <<Group("body", b1, <<TextLine(t1)>>), Group("body", b2, <<TextLine(t2)>>)>> :
      b1 \in Bodies, b2 \in Bodies, t1 \in {"text", "output"}, t2 \in {"text", "output"} }

SingleTrees ==
  { <<File("d1", "a", "go", test, FALSE, gs)>> : test \in BOOLEAN, gs \in {<<g>> : g \in OneComment} \cup TwoComments }

\* Flags that name file b, or only seem to.
Flags == { <<Word("-o=", "b")>>, <<Word("-o", ""), Word("plain", "b")>>,
           <<Word("-x", ""), Word("plain", "b")>>, <<Word("-o", ""), Word("-x", ""), Word("plain", "b")>>,
           <<Word("-o=", "c")>>, <<>> }
Generators == { Generate("run", "versionedModule", f) : f \in Flags }
              \cup { Generate(r, t, <<Word("-o=", "b")>>) :
                       r \in {"run", "tool"}, t \in {"versionedModule", "inBlock", "single", "retract"} }
Loose(lines) == Group("loose", <<>>, lines)

GeneratorTrees ==
  { << File("d1", "a", "go", FALSE, genA, <<Loose(<<g>>)>>),
       File(dir, "b", "go", FALSE, genB, <<Loose(<<line>>)>>) >> :
      g \in Generators, genA \in BOOLEAN, genB \in BOOLEAN, dir \in {"d1", "d2"},
      line \in {TextLine("text"), TextLine("nolint"),
                Generate("run", "versionedModule", <<Word("-o=", "b")>>)} }

WalkTrees ==
  { << File("d1", "a", "go", FALSE, FALSE, ga), File("d1", "b", kind, FALSE, FALSE, <<>>),
       File("d2", "c", kind2, FALSE, FALSE, <<Loose(<<TextLine("text")>>), Loose(<<TextLine("nolint"), TextLine("nolint")>>)>>) >> :
      ga \in {<<>>, <<Loose(<<Noinline>>)>>, <<Loose(<<TextLine("text")>>)>>},
      kind \in {"go", "special", "broken", "data"}, kind2 \in {"go", "special", "data"} }

MCTrees == SingleTrees \cup GeneratorTrees \cup WalkTrees

MCPathOrder == <<"c", "a", "b">>

MCArgs == { <<>>, <<{"d1", "d2"}>>, <<{"d1"}, {"d1", "d2"}>>, <<{"d2"}, {}>> }
=============================================================================
