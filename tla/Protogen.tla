------------------------------ MODULE Protogen ------------------------------
(***************************************************************************)
(* The code generator (tools/protogen): one run compiles a .proto file,    *)
(* puts the descriptors of its imports in order, hands them to two         *)
(* plugins, compares the files they return with -output and writes them.   *)
(* Runs follow each other on one directory of generated files, while the   *)
(* sources are edited, signals arrive and runs are killed.                 *)
(*                                                                         *)
(* The content of a file is what its compilation has read of the sources.  *)
(***************************************************************************)
EXTENDS Integers, FiniteSets, SequencesExt

CONSTANTS
  Depth,     \* .proto files 1..Depth: file 1 is -proto, imports name later files
  Paths,     \* paths a plugin may return, [dir, base] pairs
  Wanted,    \* base names given with -output
  MaxFiles,  \* bound: files in one plugin's response
  MaxEdits   \* bound: edits of the sources

ASSUME ProtogenAssumption ==
  /\ Depth \in Nat \ {0} /\ MaxFiles \in Nat /\ MaxEdits \in Nat
  /\ Wanted \subseteq {p.base : p \in Paths} /\ Wanted # {}

VARIABLES
  src,        \* version of the sources
  gen,        \* the generated file at each path: what it was compiled from, Absent or Torn
  pc,         \* where the run is, "exited" between two runs
  code,       \* how the last run ended, while none goes on
  cancelled,  \* ctx: a SIGINT or SIGTERM was caught
  began,      \* history: src and gen at the start of the run
  before,
  request,    \* what was compiled: the versions at its first and at its last reading
  imports,    \* what each compiled file imports, in order
  stack,      \* calls of visit: <<file, index of its next import>>
  visited,
  ordered,    \* descriptors in dependency order
  files,      \* what the plugins have returned, [path, version] pairs
  next        \* index of the next file to write

runVars == <<request, imports, stack, visited, ordered, files, next>>
vars == <<src, gen, pc, code, cancelled, began, before, runVars>>

\* Versions of the sources at the first and at the last reading of a compilation.
Readings(low, high) == (low..high) \X (low..high)
Absent == <<-1, -1>>
Torn == <<-2, -2>>
Never == -1      \* code while no run has ended, or one goes on
Killed == 137    \* code of a run that did not get to exit

Protos == 1..Depth

\* protocompile refuses a cycle of imports and an import given twice.
Graphs ==
  LET Lists == {l \in UNION {[1..n -> 2..Depth] : n \in 0..(Depth - 1)} : IsInjective(l)}
  IN  {g \in [Protos -> Lists] : \A f \in Protos : \A i \in DOMAIN g[f] : g[f][i] > f}

Responses == UNION {[1..n -> Paths] : n \in 0..MaxFiles}

exitCode(err) ==
  CASE err = "nil" -> 0 [] err = "errUsage" -> 2 [] err = "errUnreadable" -> 66
    [] err = "errWrite" -> 74 [] OTHER -> 1

\* What a process that is gone has left of its variables.
Forget ==
  /\ request' = Absent /\ imports' = <<>> /\ stack' = <<>> /\ visited' = {}
  /\ ordered' = <<>> /\ files' = <<>> /\ next' = 1

Exit(c) == pc' = "exited" /\ code' = c /\ Forget

Init ==
  /\ src = 0
  /\ gen = [p \in Paths |-> Absent]
  /\ pc = "exited" /\ code = Never
  /\ cancelled = FALSE
  /\ began = 0 /\ before = gen
  /\ request = Absent /\ imports = <<>> /\ stack = <<>> /\ visited = {}
  /\ ordered = <<>> /\ files = <<>> /\ next = 1

-----------------------------------------------------------------------------
\* main catches the signals, run parses the command line.
ParseArgs ==
  /\ pc = "exited"
  /\ cancelled' = FALSE /\ began' = src /\ before' = gen
  /\ \/ pc' = "read" /\ code' = Never /\ UNCHANGED runVars
     \/ Exit(exitCode("errUsage"))
  /\ UNCHANGED <<src, gen>>

\* compileRequest reads the file only to tell whether it can be read.
ReadProto ==
  /\ pc = "read"
  /\ \/ pc' = "compile" /\ UNCHANGED <<code, runVars>>
     \/ Exit(exitCode("errUnreadable"))
  /\ UNCHANGED <<src, gen, cancelled, began, before>>

\* protocompile opens it again.
OpenProto ==
  /\ pc = "compile"
  /\ \/ /\ pc' = "imports"
        /\ request' = <<src, src>>
        /\ UNCHANGED <<code, imports, stack, visited, ordered, files, next>>
     \/ Exit(exitCode("errCompile"))
  /\ UNCHANGED <<src, gen, cancelled, began, before>>

\* Then it opens what the file imports, one after the other, and notices a cancelled
\* context or not; visit is called with the one compiled file.
Compile ==
  /\ pc = "imports"
  /\ \/ /\ pc' = "order"
        /\ imports' \in Graphs
        /\ request' = IF imports'[1] = <<>> THEN request ELSE <<request[1], src>>
        /\ visited' = {1}
        /\ stack' = <<<<1, 1>>>>
        /\ UNCHANGED <<code, ordered, files, next>>
     \/ Exit(exitCode("errCompile"))
  /\ UNCHANGED <<src, gen, cancelled, began, before>>

\* Mutation of Visit: a file is not marked when it is entered.
VisitUnmarked ==
  /\ pc = "order" /\ stack # <<>>
  /\ LET f == Last(stack)[1]  i == Last(stack)[2] IN
       \/ /\ i <= Len(imports[f])
          /\ LET g == imports[f][i]  rest == Front(stack) \o <<<<f, i + 1>>>> IN
               stack' = IF g \in visited THEN rest ELSE Append(rest, <<g, 1>>)
          /\ UNCHANGED <<visited, ordered>>
       \/ /\ i > Len(imports[f])
          /\ ordered' = Append(ordered, f)
          /\ stack' = Front(stack)
          /\ UNCHANGED visited
  /\ UNCHANGED <<src, gen, pc, code, cancelled, began, before, request, imports, files, next>>

\* Mutation of Visit: a file is listed before its imports.
VisitPreorder ==
  /\ pc = "order" /\ stack # <<>>
  /\ LET f == Last(stack)[1]  i == Last(stack)[2] IN
       /\ ordered' = IF i = 1 THEN Append(ordered, f) ELSE ordered
       /\ \/ /\ i <= Len(imports[f])
             /\ LET g == imports[f][i]  rest == Front(stack) \o <<<<f, i + 1>>>> IN
                  /\ stack' = IF g \in visited THEN rest ELSE Append(rest, <<g, 1>>)
                  /\ visited' = visited \cup {g}
          \/ /\ i > Len(imports[f])
             /\ stack' = Front(stack)
             /\ UNCHANGED visited
  /\ UNCHANGED <<src, gen, pc, code, cancelled, began, before, request, imports, files, next>>

\* One step of visit in descriptorsInDependencyOrder: on to the next import,
\* into it unless it was visited, or back to the caller.
Visit ==
  /\ pc = "order" /\ stack # <<>>
  /\ LET f == Last(stack)[1]  i == Last(stack)[2] IN
       \/ /\ i <= Len(imports[f])
          /\ LET g == imports[f][i]  rest == Front(stack) \o <<<<f, i + 1>>>> IN
               /\ stack' = IF g \in visited THEN rest ELSE Append(rest, <<g, 1>>)
               /\ visited' = visited \cup {g}
          /\ UNCHANGED ordered
       \/ /\ i > Len(imports[f])
          /\ ordered' = Append(ordered, f)
          /\ stack' = Front(stack)
          /\ UNCHANGED visited
  /\ UNCHANGED <<src, gen, pc, code, cancelled, began, before, request, imports, files, next>>

\* runPlugins marshals the request; only its bytes are used from here on.
Marshal ==
  /\ pc = "order" /\ stack = <<>>
  /\ \/ /\ pc' = "protoc-gen-go"
        /\ imports' = <<>> /\ visited' = {} /\ ordered' = <<>>
        /\ UNCHANGED <<code, request, stack, files, next>>
     \/ Exit(exitCode("errPlugin"))
  /\ UNCHANGED <<src, gen, cancelled, began, before>>

\* Mutations of runPlugin: the sources are compiled anew for each plugin; each
\* plugin's files are written as they come.
runPluginFromSource(tool, after) ==
  /\ pc = tool
  /\ \/ /\ ~cancelled
        /\ \E paths \in Responses :
             files' = files \o [i \in DOMAIN paths |-> [path |-> paths[i], version |-> <<src, src>>]]
        /\ pc' = after
        /\ UNCHANGED <<code, request, imports, stack, visited, ordered, next>>
     \/ Exit(exitCode("errPlugin"))
  /\ UNCHANGED <<src, gen, cancelled, began, before>>

runPluginWrites(tool, after) ==
  /\ pc = tool
  /\ \/ /\ ~cancelled
        /\ \E paths \in Responses :
             gen' = [p \in Paths |-> IF \E i \in DOMAIN paths : paths[i] = p THEN request ELSE gen[p]]
        /\ pc' = after
        /\ UNCHANGED <<code, runVars>>
     \/ Exit(exitCode("errPlugin")) /\ UNCHANGED gen
  /\ UNCHANGED <<src, cancelled, began, before>>

\* runPlugin: the tool does not start under a cancelled context, is killed when
\* the context is cancelled, or fails by itself; otherwise its response is kept.
runPlugin(tool, after) ==
  /\ pc = tool
  /\ \/ /\ ~cancelled
        /\ \E paths \in Responses :
             files' = files \o [i \in DOMAIN paths |-> [path |-> paths[i], version |-> request]]
        /\ pc' = after
        /\ UNCHANGED <<code, request, imports, stack, visited, ordered, next>>
     \/ Exit(exitCode("errPlugin"))
  /\ UNCHANGED <<src, gen, cancelled, began, before>>

checkOutputs(wanted, fs) ==
  LET produced == {fs[i].path.base : i \in DOMAIN fs}
  IN  Cardinality(produced) = Len(fs) /\ produced = wanted

CheckOutputs ==
  /\ pc = "check"
  /\ \/ checkOutputs(Wanted, files) /\ pc' = "write" /\ UNCHANGED <<code, runVars>>
     \/ ~checkOutputs(Wanted, files) /\ Exit(exitCode("errOutputMismatch"))
  /\ UNCHANGED <<src, gen, cancelled, began, before>>

\* A file in the middle of os.WriteFile is truncated.
Tear == gen' = [gen EXCEPT ![files[next].path] = Torn]

\* writeFiles, one file: the directory and the file are made or not, the content
\* is written or not.  The context is not consulted any more.
WriteFile ==
  /\ pc = "write" /\ next <= Len(files)
  /\ \/ /\ gen' = [gen EXCEPT ![files[next].path] = files[next].version]
        /\ next' = next + 1
        /\ UNCHANGED <<pc, code, request, imports, stack, visited, ordered, files>>
     \/ (Tear \/ UNCHANGED gen) /\ Exit(exitCode("errWrite"))
  /\ UNCHANGED <<src, cancelled, began, before>>

\* Mutation of Finish: the loop's bound is off by one.
FinishLate ==
  /\ pc = "write" /\ next > Len(files) + 1
  /\ Exit(exitCode("nil"))
  /\ UNCHANGED <<src, gen, cancelled, began, before>>

Finish ==
  /\ pc = "write" /\ next > Len(files)
  /\ Exit(exitCode("nil"))
  /\ UNCHANGED <<src, gen, cancelled, began, before>>

-----------------------------------------------------------------------------
(* The surroundings of a run. *)

Edit ==
  /\ src < MaxEdits
  /\ src' = src + 1
  /\ UNCHANGED <<gen, pc, code, cancelled, began, before, runVars>>

\* SIGINT or SIGTERM: it is caught, and cancels the context.
Signal ==
  /\ pc # "exited" /\ ~cancelled
  /\ cancelled' = TRUE
  /\ UNCHANGED <<src, gen, pc, code, began, before, runVars>>

\* The process, or the machine, goes down.
Kill ==
  /\ pc # "exited"
  /\ Exit(Killed)
  /\ \/ pc = "write" /\ next <= Len(files) /\ Tear
     \/ UNCHANGED gen
  /\ UNCHANGED <<src, cancelled, began, before>>

RunStep ==
  \/ ReadProto \/ OpenProto \/ Compile \/ Visit \/ Marshal
  \/ runPlugin("protoc-gen-go", "protoc-gen-go-grpc")
  \/ runPlugin("protoc-gen-go-grpc", "check")
  \/ CheckOutputs \/ WriteFile \/ Finish

Next == ParseArgs \/ RunStep \/ Edit \/ Signal \/ Kill

\* A run is scheduled, and a plugin, which reads its input to the end, returns.
Spec == Init /\ [][Next]_vars /\ WF_vars(RunStep)

-----------------------------------------------------------------------------
\* Every variable holds a value of its type.
TypeOK ==
  /\ src \in 0..MaxEdits /\ began \in 0..src
  /\ {gen, before} \subseteq [Paths -> {Absent, Torn} \cup Readings(0, MaxEdits)]
  /\ pc \in {"exited", "read", "compile", "imports", "order", "protoc-gen-go", "protoc-gen-go-grpc", "check", "write"}
  /\ code \in {Never, Killed, 0, 1, 2, 66, 74}
  /\ cancelled \in BOOLEAN
  /\ request \in {Absent} \cup Readings(0, src)
  /\ imports = <<>> \/ imports \in Graphs
  /\ stack \in Seq(Protos \X (1..Depth))
  /\ visited \subseteq Protos
  /\ ordered \in Seq(Protos)
  /\ files \in Seq([path: Paths, version: Readings(0, src)])
  /\ next \in 1..(Len(files) + 1)

\* Exit code 0, "the files were generated and written": every file asked for is
\* on disk, and all are of one compilation of sources as they were during this run,
\* although they were edited and signals were caught meanwhile, and whatever torn
\* or mixed files an earlier run had left at their paths.  An edit between the
\* compiler's own readings is in all of the files or in none.
ExitZeroIsWhole ==
  pc = "exited" /\ code = 0 =>
    \E v \in Readings(began, src) : \A name \in Wanted : \E p \in Paths : p.base = name /\ gen[p] = v

\* A run that fails before it writes, a caught signal included, leaves the
\* generated files of earlier runs as they were: only a failed write (74) or a
\* killed run can leave a mixture.
FailureTouchesNothing ==
  pc = "exited" /\ code \in {1, 2, 66} => gen = before

\* Reachable from file 1 by imports.
Needed ==
  {f \in Protos : \E n \in 1..Depth : \E path \in [1..n -> Protos] :
     /\ path[1] = 1 /\ path[n] = f
     /\ \A i \in 1..(n - 1) : path[i + 1] \in ToSet(imports[path[i]])}

\* What the plugins are given: each file that -proto needs exactly once, every
\* one behind all of its imports, also where imports share imports.
DependencyOrder ==
  pc = "order" /\ stack = <<>> =>
    /\ IsInjective(ordered) /\ ToSet(ordered) = Needed
    /\ \A i \in DOMAIN ordered : ToSet(imports[ordered[i]]) \subseteq ToSet(SubSeq(ordered, 1, i - 1))

-----------------------------------------------------------------------------
\* What a run may count on when it comes to its writes: nothing was written before,
\* all files are of the one compilation, the check has passed, and what was written
\* so far is of it.
WriteInv ==
  /\ pc \notin {"exited", "write"} => gen = before
  /\ pc \notin {"exited", "read", "compile"} => request \in Readings(began, src)
  /\ pc \in {"exited", "read", "compile", "imports"} => ordered = <<>> /\ files = <<>>
  /\ pc # "write" => next = 1
  /\ \A i \in DOMAIN files : files[i].version = request
  /\ pc = "write" => checkOutputs(Wanted, files) /\ \A i \in 1..(next - 1) : gen[files[i].path] = request

\* File f is reached from file 1 along a path of imports of at most f files.
ReachedBy(f) ==
  \E n \in 1..f : \E path \in [1..n -> Protos] :
    /\ path[1] = 1 /\ path[n] = f
    /\ \A i \in 1..(n - 1) : path[i + 1] \in ToSet(imports[path[i]])

\* The k-th call of visit: the imports it is through with are listed, but for the
\* one that the next call is about, and earlier calls are about earlier files.
VisitInv(k) ==
  LET f == stack[k][1]  i == stack[k][2] IN
    /\ i <= Len(imports[f]) + 1
    /\ \A j \in 1..(i - 1) : imports[f][j] \in ToSet(ordered)
                            \/ (j = i - 1 /\ k < Len(stack) /\ imports[f][j] = stack[k + 1][1])
    /\ f \notin ToSet(ordered)
    /\ \A l \in 1..(k - 1) : stack[l][1] < f

\* The depth-first search: what was visited is listed or being visited, and each
\* listed file comes once and behind its imports.
OrderInv ==
  pc = "order" =>
    /\ imports \in Graphs
    /\ 1 \in visited /\ \A f \in visited : ReachedBy(f)
    /\ visited = ToSet(ordered) \cup {stack[k][1] : k \in DOMAIN stack}
    /\ \A k \in DOMAIN stack : VisitInv(k)
    /\ IsInjective(ordered)
    /\ \A i \in DOMAIN ordered : ToSet(imports[ordered[i]]) \subseteq ToSet(SubSeq(ordered, 1, i - 1))

\* The inductive invariant of the runs.
ProtogenInv ==
  TypeOK /\ WriteInv /\ OrderInv /\ ExitZeroIsWhole /\ FailureTouchesNothing

\* A run comes to its end, whatever the graph of imports and the faults.
RunEnds == (pc # "exited") ~> (pc = "exited")
=============================================================================
