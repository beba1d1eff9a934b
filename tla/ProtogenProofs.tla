--------------------------- MODULE ProtogenProofs ---------------------------
(***************************************************************************)
(* Machine-checked proofs about the code generator (Protogen), for any     *)
(* graphs of imports, any paths and wanted files, and any number of edits. *)
(***************************************************************************)
EXTENDS Protogen, SequenceFacts

(***************************************************************************)
(* The operators.                                                          *)
(***************************************************************************)

\* The imports of a file are a sequence of later files, shorter than Depth.
LEMMA GraphFacts ==
  ASSUME NEW g \in Graphs, NEW f \in Protos
  PROVE  /\ g[f] \in Seq(Protos) /\ Len(g[f]) \in 0..(Depth - 1)
         /\ DOMAIN g[f] = 1..Len(g[f])
         /\ \A i \in 1..Len(g[f]) : g[f][i] \in Protos /\ g[f][i] > f
<1>1. PICK n \in 0..(Depth - 1) : g[f] \in [1..n -> 2..Depth]
  BY DEF Graphs
<1>2. n \in Nat /\ \A i \in 1..n : g[f][i] \in Protos
  BY <1>1, ProtogenAssumption DEF Protos
<1>3. g[f] \in [1..n -> Protos]
  BY <1>1, <1>2
<1>4. g[f] \in Seq(Protos) /\ Len(g[f]) = n
  BY <1>2, <1>3, SeqDef, LenProperties
<1>5. \A i \in DOMAIN g[f] : g[f][i] > f
  BY DEF Graphs
<1> QED
  BY <1>1, <1>2, <1>4, <1>5

\* An interval of versions that holds another holds its readings.
LEMMA ReadingsGrow ==
  ASSUME NEW l \in Int, NEW h \in Int, NEW m \in Int, NEW n \in Int, m <= l, h <= n
  PROVE  Readings(l, h) \subseteq Readings(m, n)
BY DEF Readings

\* The exit codes: 0 for success alone, 1, 2 or 66 for what fails before a write.
LEMMA ExitCodes ==
  /\ exitCode("nil") = 0 /\ exitCode("errUsage") = 2 /\ exitCode("errUnreadable") = 66
  /\ exitCode("errWrite") = 74 /\ exitCode("errCompile") = 1 /\ exitCode("errPlugin") = 1
  /\ exitCode("errOutputMismatch") = 1
BY DEF exitCode

\* checkOutputs passes only when every wanted name is produced.
LEMMA ChecksEveryName ==
  ASSUME NEW fs, checkOutputs(Wanted, fs), NEW name \in Wanted
  PROVE  \E i \in DOMAIN fs : fs[i].path.base = name
BY DEF checkOutputs

-----------------------------------------------------------------------------
(***************************************************************************)
(* Starting and ending a run.                                              *)
(***************************************************************************)

LEMMA InitProtogen ==
  ASSUME Init
  PROVE  ProtogenInv
<1>1. TypeOK
  <2>1. gen \in [Paths -> {Absent, Torn} \cup Readings(0, MaxEdits)] /\ before = gen
    BY DEF Init
  <2>2. /\ stack \in Seq(Protos \X (1..Depth)) /\ ordered \in Seq(Protos)
        /\ files \in Seq([path: Paths, version: Readings(0, src)]) /\ Len(files) = 0
    BY EmptySeq DEF Init
  <2>3. src \in 0..MaxEdits /\ began \in 0..src
    BY ProtogenAssumption DEF Init
  <2>4. cancelled \in BOOLEAN /\ pc = "exited" /\ code = Never
    BY DEF Init
  <2> QED
    BY <2>1, <2>2, <2>3, <2>4 DEF Init, TypeOK
<1>2. WriteInv
  BY DEF Init, WriteInv
<1>3. OrderInv /\ ExitZeroIsWhole /\ FailureTouchesNothing
  BY DEF Init, OrderInv, ExitZeroIsWhole, FailureTouchesNothing, Never
<1> QED
  BY <1>1, <1>2, <1>3 DEF ProtogenInv

\* What Exit leaves is typed, and claims only what the code says.
LEMMA ExitStep ==
  ASSUME ProtogenInv, NEW c \in {Killed, 0, 1, 2, 66, 74}, Exit(c),
         src' = src, began' \in 0..src, cancelled' \in BOOLEAN,
         {gen', before'} \subseteq [Paths -> {Absent, Torn} \cup Readings(0, MaxEdits)],
         c \in {1, 2, 66} => gen' = before',
         c = 0 => \E v \in Readings(began', src) : \A name \in Wanted :
                    \E p \in Paths : p.base = name /\ gen'[p] = v
  PROVE  ProtogenInv'
<1>1. /\ pc' = "exited" /\ code' = c /\ request' = Absent /\ imports' = <<>> /\ stack' = <<>>
      /\ visited' = {} /\ ordered' = <<>> /\ files' = <<>> /\ next' = 1
  BY DEF Exit, Forget
<1>2. TypeOK'
  <2>1. /\ stack' \in Seq(Protos \X (1..Depth)) /\ ordered' \in Seq(Protos)
        /\ files' \in Seq([path: Paths, version: Readings(0, src')]) /\ Len(files') = 0
    BY <1>1, EmptySeq
  <2>2. next' \in 1..(Len(files') + 1)
    BY <1>1, <2>1
  <2> QED
    BY <1>1, <2>1, <2>2 DEF TypeOK, ProtogenInv
<1>3. WriteInv'
  BY <1>1 DEF WriteInv
<1>4. OrderInv' /\ ExitZeroIsWhole' /\ FailureTouchesNothing'
  BY <1>1 DEF OrderInv, ExitZeroIsWhole, FailureTouchesNothing, Killed
<1> QED
  BY <1>2, <1>3, <1>4 DEF ProtogenInv

\* A run that fails before its writes exits with the generated files untouched.
LEMMA FailEarly ==
  ASSUME ProtogenInv, pc \notin {"exited", "write"},
         NEW c \in {1, 66}, Exit(c), UNCHANGED <<src, gen, cancelled, began, before>>
  PROVE  ProtogenInv'
<1>1. gen' = before'
  BY DEF ProtogenInv, WriteInv
<1> QED
  BY <1>1, ExitStep DEF ProtogenInv, TypeOK

LEMMA ParseArgsStep ==
  ASSUME ProtogenInv, ParseArgs
  PROVE  ProtogenInv'
<1>1. /\ pc = "exited" /\ cancelled' = FALSE /\ began' = src /\ before' = gen
      /\ UNCHANGED <<src, gen>>
  BY DEF ParseArgs
<1>2. /\ began' \in 0..src
      /\ {gen', before'} \subseteq [Paths -> {Absent, Torn} \cup Readings(0, MaxEdits)]
  BY <1>1, ProtogenAssumption DEF ProtogenInv, TypeOK
<1>3. CASE Exit(exitCode("errUsage"))
  <2>1. cancelled' \in BOOLEAN
    BY <1>1
  <2> QED
    BY <1>1, <1>2, <1>3, <2>1, ExitStep, ExitCodes
<1>4. CASE pc' = "read" /\ code' = Never /\ UNCHANGED runVars
  <2>1. TypeOK'
    BY <1>1, <1>2, <1>4 DEF ProtogenInv, TypeOK, runVars
  <2>2. WriteInv'
    BY <1>1, <1>4 DEF ProtogenInv, WriteInv, runVars
  <2> QED
    BY <1>4, <2>1, <2>2 DEF ProtogenInv, OrderInv, ExitZeroIsWhole, FailureTouchesNothing
<1> QED
  BY <1>3, <1>4 DEF ParseArgs

LEMMA ReadProtoStep ==
  ASSUME ProtogenInv, ReadProto
  PROVE  ProtogenInv'
<1>1. pc = "read" /\ UNCHANGED <<src, gen, cancelled, began, before>>
  BY DEF ReadProto
<1>2. CASE Exit(exitCode("errUnreadable"))
  BY <1>1, <1>2, FailEarly, ExitCodes
<1>3. CASE pc' = "compile" /\ UNCHANGED <<code, runVars>>
  <2>1. TypeOK'
    BY <1>1, <1>3 DEF ProtogenInv, TypeOK, runVars
  <2>2. WriteInv'
    BY <1>1, <1>3 DEF ProtogenInv, WriteInv, runVars
  <2> QED
    BY <1>3, <2>1, <2>2 DEF ProtogenInv, OrderInv, ExitZeroIsWhole, FailureTouchesNothing
<1> QED
  BY <1>2, <1>3 DEF ReadProto

-----------------------------------------------------------------------------
(***************************************************************************)
(* The plugins and the writes.                                             *)
(***************************************************************************)

\* The response of a plugin is appended, all of it of the compilation at hand.
LEMMA ResponseStep ==
  ASSUME ProtogenInv, NEW tool \in {"protoc-gen-go", "protoc-gen-go-grpc"},
         NEW after \in {"protoc-gen-go-grpc", "check"}, runPlugin(tool, after)
  PROVE  ProtogenInv'
<1>1. pc = tool /\ UNCHANGED <<src, gen, cancelled, began, before>>
  BY DEF runPlugin
<1>2. CASE Exit(exitCode("errPlugin"))
  BY <1>1, <1>2, FailEarly, ExitCodes
<1>3. CASE /\ \E paths \in Responses :
                files' = files \o [i \in DOMAIN paths |-> [path |-> paths[i], version |-> request]]
           /\ pc' = after
           /\ UNCHANGED <<code, request, imports, stack, visited, ordered, next>>
  <2>0. PICK n \in 0..MaxFiles : \E paths \in [1..n -> Paths] :
          files' = files \o [i \in 1..n |-> [path |-> paths[i], version |-> request]]
    BY <1>3 DEF Responses
  <2>1. PICK paths \in [1..n -> Paths] :
          files' = files \o [i \in 1..n |-> [path |-> paths[i], version |-> request]]
    BY <2>0
  <2> DEFINE more == [i \in 1..n |-> [path |-> paths[i], version |-> request]]
             File == [path: Paths, version: Readings(0, src)]
  <2>2. request \in Readings(0, src) /\ request \in Readings(began, src)
    <3>1. src \in 0..MaxEdits /\ began \in 0..src /\ request \in Readings(began, src)
      BY <1>1 DEF ProtogenInv, TypeOK, WriteInv
    <3> QED
      BY <3>1, ProtogenAssumption, ReadingsGrow
  <2>3. n \in Nat /\ more \in [1..n -> File]
    BY <2>2, ProtogenAssumption
  <2>5. files \in Seq(File) /\ files' = files \o more
    BY <2>1 DEF ProtogenInv, TypeOK
  <2>6. \A i \in 1..n : more[i].version = request
    OBVIOUS
  <2> HIDE DEF more, File
  <2>4. more \in Seq(File) /\ Len(more) = n
    BY <2>3, SeqDef, LenProperties
  <2>7. /\ files' \in Seq(File) /\ Len(files') = Len(files) + n
        /\ \A i \in 1..Len(files') :
             files'[i] = IF i <= Len(files) THEN files[i] ELSE more[i - Len(files)]
    BY <2>4, <2>5, ConcatProperties
  <2>8. Len(files) \in Nat /\ DOMAIN files = 1..Len(files) /\ DOMAIN files' = 1..Len(files')
    BY <2>5, <2>7, LenProperties
  <2>9. \A i \in DOMAIN files' : files'[i].version = request
    <3> SUFFICES ASSUME NEW i \in DOMAIN files'
                 PROVE  files'[i].version = request
      OBVIOUS
    <3>1. CASE i <= Len(files)
      BY <2>7, <2>8, <3>1 DEF ProtogenInv, WriteInv
    <3>2. CASE ~(i <= Len(files))
      <4>1. i - Len(files) \in 1..n
        BY <2>3, <2>7, <2>8, <3>2
      <4> QED
        BY <2>6, <2>7, <2>8, <3>2, <4>1
    <3> QED
      BY <3>1, <3>2
  <2>10. TypeOK'
    <3>1. next' \in 1..(Len(files') + 1)
      BY <1>3, <2>3, <2>7, <2>8 DEF ProtogenInv, TypeOK
    <3>2. files' \in Seq([path: Paths, version: Readings(0, src')])
      BY <1>1, <2>7 DEF File
    <3> QED
      BY <1>1, <1>3, <3>1, <3>2 DEF ProtogenInv, TypeOK
  <2>11. WriteInv'
    BY <1>1, <1>3, <2>2, <2>9 DEF ProtogenInv, WriteInv
  <2> QED
    BY <1>3, <2>10, <2>11 DEF ProtogenInv, OrderInv, ExitZeroIsWhole, FailureTouchesNothing
<1> QED
  BY <1>2, <1>3 DEF runPlugin

LEMMA CheckOutputsStep ==
  ASSUME ProtogenInv, CheckOutputs
  PROVE  ProtogenInv'
<1>1. pc = "check" /\ UNCHANGED <<src, gen, cancelled, began, before>>
  BY DEF CheckOutputs
<1>2. CASE Exit(exitCode("errOutputMismatch"))
  BY <1>1, <1>2, FailEarly, ExitCodes
<1>3. CASE checkOutputs(Wanted, files) /\ pc' = "write" /\ UNCHANGED <<code, runVars>>
  <2>1. TypeOK'
    BY <1>1, <1>3 DEF ProtogenInv, TypeOK, runVars
  <2>2. WriteInv'
    BY <1>1, <1>3 DEF ProtogenInv, WriteInv, runVars, checkOutputs
  <2> QED
    BY <1>3, <2>1, <2>2 DEF ProtogenInv, OrderInv, ExitZeroIsWhole, FailureTouchesNothing
<1> QED
  BY <1>2, <1>3 DEF CheckOutputs

\* What is in `files` has a path and is of the compilation at hand.
LEMMA FileAt ==
  ASSUME ProtogenInv, NEW i \in 1..Len(files)
  PROVE  /\ i \in DOMAIN files /\ files[i].path \in Paths
         /\ files[i].version = request /\ files[i].version \in Readings(0, MaxEdits)
<1> DEFINE File == [path: Paths, version: Readings(0, src)]
<1>1. files \in Seq(File) /\ src \in 0..MaxEdits
  BY DEF ProtogenInv, TypeOK
<1>2. \A f \in File : f.path \in Paths /\ f.version \in Readings(0, src)
  OBVIOUS
<1> HIDE DEF File
<1>3. i \in DOMAIN files /\ files[i] \in File
  BY <1>1, ElementOfSeq, LenProperties
<1>4. files[i].path \in Paths /\ files[i].version \in Readings(0, src)
  BY <1>2, <1>3
<1>5. Readings(0, src) \subseteq Readings(0, MaxEdits)
  <2>1. src \in Int /\ MaxEdits \in Int /\ src <= MaxEdits
    BY <1>1, ProtogenAssumption
  <2> QED
    BY <2>1, ReadingsGrow
<1>6. files[i].version = request
  BY <1>3 DEF ProtogenInv, WriteInv
<1> QED
  BY <1>3, <1>4, <1>5, <1>6

\* The file that is written next.
LEMMA NextFile ==
  ASSUME ProtogenInv, next <= Len(files)
  PROVE  /\ next \in DOMAIN files /\ files[next].path \in Paths
         /\ files[next].version = request /\ files[next].version \in Readings(0, MaxEdits)
<1>1. next \in 1..Len(files)
  BY DEF ProtogenInv, TypeOK
<1> QED
  BY <1>1, FileAt

\* A torn file is one of the paths.
LEMMA TearStep ==
  ASSUME ProtogenInv, next <= Len(files), Tear
  PROVE  gen' \in [Paths -> {Absent, Torn} \cup Readings(0, MaxEdits)]
BY NextFile DEF ProtogenInv, TypeOK, Tear

LEMMA WriteFileStep ==
  ASSUME ProtogenInv, WriteFile
  PROVE  ProtogenInv'
<1>1. pc = "write" /\ next <= Len(files) /\ UNCHANGED <<src, cancelled, began, before>>
  BY DEF WriteFile
<1>2. CASE (Tear \/ UNCHANGED gen) /\ Exit(exitCode("errWrite"))
  <2>1. gen' \in [Paths -> {Absent, Torn} \cup Readings(0, MaxEdits)]
    BY <1>1, <1>2, TearStep DEF ProtogenInv, TypeOK
  <2>2. before' \in [Paths -> {Absent, Torn} \cup Readings(0, MaxEdits)]
    BY <1>1 DEF ProtogenInv, TypeOK
  <2>3. began' \in 0..src /\ cancelled' \in BOOLEAN
    BY <1>1 DEF ProtogenInv, TypeOK
  <2> QED
    BY <1>1, <1>2, <2>1, <2>2, <2>3, ExitStep, ExitCodes
<1>3. CASE /\ gen' = [gen EXCEPT ![files[next].path] = files[next].version]
           /\ next' = next + 1
           /\ UNCHANGED <<pc, code, request, imports, stack, visited, ordered, files>>
  <2>1. /\ next \in DOMAIN files /\ files[next].path \in Paths
        /\ files[next].version = request /\ request \in Readings(0, MaxEdits)
    BY <1>1, NextFile
  <2>2. gen' \in [Paths -> {Absent, Torn} \cup Readings(0, MaxEdits)]
    BY <1>3, <2>1 DEF ProtogenInv, TypeOK
  <2>3. next \in Nat /\ Len(files) \in Nat /\ next' \in 1..(Len(files') + 1)
    BY <1>1, <1>3 DEF ProtogenInv, TypeOK
  <2>4. TypeOK'
    BY <1>1, <1>3, <2>2, <2>3 DEF ProtogenInv, TypeOK
  <2>5. ASSUME NEW i \in 1..next
        PROVE  gen'[files[i].path] = request
    <3>1. i \in 1..Len(files)
      BY <1>1, <2>3
    <3>4. files[i].path \in Paths
      BY <3>1, FileAt
    <3>2. CASE files[i].path = files[next].path
      BY <1>3, <2>1, <3>2 DEF ProtogenInv, TypeOK
    <3>3. CASE files[i].path # files[next].path
      <4>1. i \in 1..(next - 1)
        BY <2>3, <3>3
      <4> QED
        BY <1>1, <1>3, <3>3, <3>4, <4>1 DEF ProtogenInv, TypeOK, WriteInv
    <3> QED
      BY <3>2, <3>3
  <2>6. WriteInv'
    BY <1>1, <1>3, <2>3, <2>5 DEF ProtogenInv, WriteInv, checkOutputs
  <2> QED
    BY <1>1, <1>3, <2>4, <2>6
       DEF ProtogenInv, OrderInv, ExitZeroIsWhole, FailureTouchesNothing
<1> QED
  BY <1>2, <1>3 DEF WriteFile

\* The end of the loop: every wanted file is there, of the compilation at hand.
LEMMA FinishStep ==
  ASSUME ProtogenInv, Finish
  PROVE  ProtogenInv'
<1>1. pc = "write" /\ next > Len(files) /\ UNCHANGED <<src, gen, cancelled, began, before>>
  BY DEF Finish
<1>2. /\ request \in Readings(began, src) /\ checkOutputs(Wanted, files)
      /\ \A i \in 1..(next - 1) : gen[files[i].path] = request
  BY <1>1 DEF ProtogenInv, WriteInv
<1>3. Len(files) \in Nat /\ DOMAIN files = 1..Len(files) /\ next \in Nat
  BY DEF ProtogenInv, TypeOK
<1>4. ASSUME NEW name \in Wanted
      PROVE  \E p \in Paths : p.base = name /\ gen[p] = request
  <2>1. PICK i \in DOMAIN files : files[i].path.base = name
    BY <1>2, ChecksEveryName
  <2>2. files[i].path \in Paths /\ i \in 1..(next - 1)
    BY <1>1, <1>3, FileAt
  <2> QED
    BY <1>2, <2>1, <2>2
<1>5. \E v \in Readings(began', src) : \A name \in Wanted : \E p \in Paths : p.base = name /\ gen'[p] = v
  BY <1>1, <1>2, <1>4
<1>6. /\ began' \in 0..src /\ cancelled' \in BOOLEAN
      /\ {gen', before'} \subseteq [Paths -> {Absent, Torn} \cup Readings(0, MaxEdits)]
  BY <1>1 DEF ProtogenInv, TypeOK
<1>7. Exit(0)
  BY ExitCodes DEF Finish
<1> QED
  BY <1>1, <1>5, <1>6, <1>7, ExitStep

-----------------------------------------------------------------------------
(***************************************************************************)
(* The surroundings.                                                       *)
(***************************************************************************)

LEMMA EditStep ==
  ASSUME ProtogenInv, Edit
  PROVE  ProtogenInv'
<1>1. /\ src' = src + 1 /\ src < MaxEdits /\ src \in Nat
      /\ UNCHANGED <<gen, pc, code, cancelled, began, before>>
  BY ProtogenAssumption DEF Edit, ProtogenInv, TypeOK
<1>2. UNCHANGED <<request, imports, stack, visited, ordered, files, next>>
  BY DEF Edit, runVars
<1>3. files \in Seq([path: Paths, version: Readings(0, src')])
  <2> DEFINE File == [path: Paths, version: Readings(0, src)]
             Later == [path: Paths, version: Readings(0, src + 1)]
  <2>1. File \subseteq Later
    BY <1>1, ReadingsGrow
  <2>2. files \in Seq(File)
    BY DEF ProtogenInv, TypeOK
  <2> HIDE DEF File, Later
  <2>3. files \in Seq(Later)
    BY <2>1, <2>2, SeqMonotonic
  <2> QED
    BY <1>1, <2>3 DEF Later
<1>4. TypeOK'
  <2>1. src' \in 0..MaxEdits /\ began' \in 0..src' /\ request' \in {Absent} \cup Readings(0, src')
    BY <1>1, <1>2, ProtogenAssumption, ReadingsGrow DEF ProtogenInv, TypeOK
  <2> QED
    BY <1>1, <1>2, <1>3, <2>1 DEF ProtogenInv, TypeOK
<1>5. Readings(began, src) \subseteq Readings(began', src')
  <2>1. began \in Int /\ src \in Int /\ src <= src + 1
    BY <1>1, ProtogenAssumption DEF ProtogenInv, TypeOK
  <2> QED
    BY <1>1, <2>1, ReadingsGrow
<1>6. WriteInv'
  BY <1>1, <1>2, <1>5 DEF ProtogenInv, WriteInv, checkOutputs
<1>7. ExitZeroIsWhole'
  BY <1>1, <1>5 DEF ProtogenInv, ExitZeroIsWhole
<1>8. OrderInv'
  BY <1>1, <1>2 DEF ProtogenInv, OrderInv, VisitInv, ReachedBy
<1> QED
  BY <1>1, <1>4, <1>6, <1>7, <1>8 DEF ProtogenInv, FailureTouchesNothing

LEMMA SignalStep ==
  ASSUME ProtogenInv, Signal \/ UNCHANGED vars
  PROVE  ProtogenInv'
<1>1. UNCHANGED <<src, gen, pc, code, began, before>> /\ (cancelled' = TRUE \/ cancelled' = cancelled)
  BY DEF Signal, vars
<1>2. UNCHANGED <<request, imports, stack, visited, ordered, files, next>>
  BY DEF Signal, vars, runVars
<1>3. cancelled' \in BOOLEAN
  BY <1>1 DEF ProtogenInv, TypeOK
<1>4. TypeOK'
  BY <1>1, <1>2, <1>3 DEF ProtogenInv, TypeOK
<1>5. WriteInv' /\ ExitZeroIsWhole'
  BY <1>1, <1>2 DEF ProtogenInv, WriteInv, checkOutputs, ExitZeroIsWhole
<1>6. OrderInv'
  BY <1>1, <1>2 DEF ProtogenInv, OrderInv, VisitInv, ReachedBy
<1> QED
  BY <1>1, <1>4, <1>5, <1>6 DEF ProtogenInv, FailureTouchesNothing

LEMMA KillStep ==
  ASSUME ProtogenInv, Kill
  PROVE  ProtogenInv'
<1>1. Exit(Killed) /\ UNCHANGED <<src, cancelled, began, before>>
  BY DEF Kill
<1>2. gen' \in [Paths -> {Absent, Torn} \cup Readings(0, MaxEdits)]
  BY TearStep DEF Kill, ProtogenInv, TypeOK
<1>3. before' \in [Paths -> {Absent, Torn} \cup Readings(0, MaxEdits)]
  BY <1>1 DEF ProtogenInv, TypeOK
<1>4. began' \in 0..src /\ cancelled' \in BOOLEAN
  BY <1>1 DEF ProtogenInv, TypeOK
<1>5. Killed \notin {0, 1, 2, 66}
  BY DEF Killed
<1> QED
  BY <1>1, <1>2, <1>3, <1>4, <1>5, ExitStep

-----------------------------------------------------------------------------
(***************************************************************************)
(* descriptorsInDependencyOrder.                                           *)
(***************************************************************************)

LEMMA OpenProtoStep ==
  ASSUME ProtogenInv, OpenProto
  PROVE  ProtogenInv'
<1>1. pc = "compile" /\ UNCHANGED <<src, gen, cancelled, began, before>>
  BY DEF OpenProto
<1>2. CASE Exit(exitCode("errCompile"))
  BY <1>1, <1>2, FailEarly, ExitCodes
<1>3. CASE /\ pc' = "imports" /\ request' = <<src, src>>
           /\ UNCHANGED <<code, imports, stack, visited, ordered, files, next>>
  <2>1. src \in 0..MaxEdits /\ began \in 0..src
    BY DEF ProtogenInv, TypeOK
  <2>2. request' \in Readings(0, src') /\ request' \in Readings(began', src')
    BY <1>1, <1>3, <2>1, ProtogenAssumption DEF Readings
  <2>3. TypeOK'
    BY <1>1, <1>3, <2>2 DEF ProtogenInv, TypeOK
  <2>4. WriteInv'
    BY <1>1, <1>3, <2>2 DEF ProtogenInv, WriteInv
  <2> QED
    BY <1>3, <2>3, <2>4 DEF ProtogenInv, OrderInv, ExitZeroIsWhole, FailureTouchesNothing
<1> QED
  BY <1>2, <1>3 DEF OpenProto

LEMMA CompileStep ==
  ASSUME ProtogenInv, Compile
  PROVE  ProtogenInv'
<1>1. pc = "imports" /\ UNCHANGED <<src, gen, cancelled, began, before>>
  BY DEF Compile
<1>2. CASE Exit(exitCode("errCompile"))
  BY <1>1, <1>2, FailEarly, ExitCodes
<1>3. CASE /\ pc' = "order" /\ imports' \in Graphs /\ visited' = {1}
           /\ request' = IF imports'[1] = <<>> THEN request ELSE <<request[1], src>>
           /\ stack' = <<<<1, 1>>>> /\ UNCHANGED <<code, ordered, files, next>>
  <2>1. ordered = <<>> /\ files = <<>> /\ next = 1 /\ gen = before
    BY <1>1 DEF ProtogenInv, WriteInv
  <2>2. 1 \in Protos /\ <<1, 1>> \in Protos \X (1..Depth)
    BY ProtogenAssumption DEF Protos
  <2>3. stack' \in Seq(Protos \X (1..Depth)) /\ Len(stack') = 1 /\ stack'[1] = <<1, 1>>
    BY <1>3, <2>2
  <2>4. src \in 0..MaxEdits /\ request' \in Readings(0, src') /\ request' \in Readings(began', src')
    <3>1. src \in 0..MaxEdits /\ began \in 0..src /\ request \in Readings(began, src)
      BY <1>1 DEF ProtogenInv, TypeOK, WriteInv
    <3>2. request[1] \in began..src /\ src \in began..src
      BY <3>1, ProtogenAssumption DEF Readings
    <3>3. <<request[1], src>> \in Readings(began, src)
      BY <3>2 DEF Readings
    <3>4. request' \in Readings(began, src)
      BY <1>3, <3>1, <3>3
    <3> QED
      BY <1>1, <3>1, <3>4, ProtogenAssumption, ReadingsGrow
  <2>5. TypeOK'
    BY <1>1, <1>3, <2>2, <2>3, <2>4 DEF ProtogenInv, TypeOK
  <2>6. WriteInv'
    BY <1>1, <1>3, <2>1, <2>4 DEF WriteInv
  <2>7. ReachedBy(1)'
    <3> DEFINE path == [j \in 1..1 |-> 1]
    <3>1. path \in [1..1 -> Protos] /\ path[1] = 1
      BY <2>2
    <3> HIDE DEF path
    <3>2. \A j \in 1..(1 - 1) : path[j + 1] \in ToSet(imports'[path[j]])
      OBVIOUS
    <3> QED
      BY <3>1, <3>2 DEF ReachedBy
  <2>8. DOMAIN stack' = {1} /\ DOMAIN ordered' = {} /\ ToSet(ordered') = {}
    BY <1>3, <2>1 DEF ToSet
  <2>9. Len(imports'[1]) \in Nat
    BY <1>3, <2>2, GraphFacts
  <2>10. \A k \in DOMAIN stack' : VisitInv(k)'
    BY <2>3, <2>8, <2>9 DEF VisitInv
  <2>11. visited' = ToSet(ordered') \cup {stack'[k][1] : k \in DOMAIN stack'}
    BY <1>3, <2>3, <2>8
  <2>12. OrderInv'
    BY <1>3, <2>7, <2>8, <2>10, <2>11 DEF OrderInv, IsInjective
  <2> QED
    BY <1>3, <2>5, <2>6, <2>12 DEF ProtogenInv, ExitZeroIsWhole, FailureTouchesNothing
<1> QED
  BY <1>2, <1>3 DEF Compile

LEMMA MarshalStep ==
  ASSUME ProtogenInv, Marshal
  PROVE  ProtogenInv'
<1>1. pc = "order" /\ UNCHANGED <<src, gen, cancelled, began, before>>
  BY DEF Marshal
<1>2. CASE Exit(exitCode("errPlugin"))
  BY <1>1, <1>2, FailEarly, ExitCodes
<1>3. CASE /\ pc' = "protoc-gen-go" /\ imports' = <<>> /\ visited' = {} /\ ordered' = <<>>
           /\ UNCHANGED <<code, request, stack, files, next>>
  <2>1. ordered' \in Seq(Protos)
    BY <1>3, EmptySeq
  <2>2. TypeOK'
    BY <1>1, <1>3, <2>1 DEF ProtogenInv, TypeOK
  <2>3. WriteInv'
    BY <1>1, <1>3 DEF ProtogenInv, WriteInv
  <2> QED
    BY <1>3, <2>2, <2>3 DEF ProtogenInv, OrderInv, ExitZeroIsWhole, FailureTouchesNothing
<1> QED
  BY <1>2, <1>3 DEF Marshal

\* The topmost call of visit, in a state of the search.
LEMMA TopFacts ==
  ASSUME ProtogenInv, pc = "order", stack # <<>>
  PROVE  /\ imports \in Graphs /\ Len(stack) \in Nat \ {0} /\ DOMAIN stack = 1..Len(stack)
         /\ \A k \in 1..Len(stack) : /\ stack[k][1] \in Protos /\ stack[k][2] \in 1..Depth
                                     /\ stack[k] = <<stack[k][1], stack[k][2]>>
                                     /\ stack[k][1] <= Last(stack)[1]
         /\ Last(stack) = stack[Len(stack)]
<1>1. /\ stack \in Seq(Protos \X (1..Depth)) /\ imports \in Graphs
      /\ \A k \in DOMAIN stack : VisitInv(k)
  BY DEF ProtogenInv, TypeOK, OrderInv
<1>2. Len(stack) \in Nat \ {0} /\ DOMAIN stack = 1..Len(stack)
  BY <1>1, EmptySeq, LenProperties
<1>3. \A k \in 1..Len(stack) : stack[k] \in Protos \X (1..Depth)
  BY <1>1, ElementOfSeq
<1>4. \A k \in 1..Len(stack) : /\ stack[k][1] \in Protos /\ stack[k][2] \in 1..Depth
                               /\ stack[k] = <<stack[k][1], stack[k][2]>>
  BY <1>3
<1>5. \A l \in 1..(Len(stack) - 1) : stack[l][1] < stack[Len(stack)][1]
  <2>1. Len(stack) \in DOMAIN stack
    BY <1>2
  <2> QED
    BY <1>1, <2>1, Zenon DEF VisitInv
<1>6. \A k \in 1..Len(stack) : stack[k][1] <= stack[Len(stack)][1]
  <2> SUFFICES ASSUME NEW k \in 1..Len(stack)
               PROVE  stack[k][1] <= stack[Len(stack)][1]
    OBVIOUS
  <2>1. stack[k][1] \in Nat /\ stack[Len(stack)][1] \in Nat
    BY <1>2, <1>4, ProtogenAssumption DEF Protos
  <2>2. CASE k = Len(stack)
    BY <2>1, <2>2
  <2>3. CASE k # Len(stack)
    <3>1. k \in 1..(Len(stack) - 1)
      <4>1. \A a \in Int, b \in Int : a \in 1..b /\ a # b => a \in 1..(b - 1)
        OBVIOUS
      <4>2. k \in Int /\ Len(stack) \in Int
        BY <1>2
      <4> QED
        BY <2>3, <4>1, <4>2
    <3>2. stack[k][1] < stack[Len(stack)][1]
      BY <1>5, <3>1
    <3> QED
      BY <2>1, <3>2
  <2> QED
    BY <2>2, <2>3
<1> QED
  BY <1>1, <1>2, <1>4, <1>6 DEF Last

\* An import of a file that is reached is reached, along a path no longer than it.
LEMMA ReachedImport ==
  ASSUME imports \in Graphs, NEW f \in Protos, ReachedBy(f), NEW i \in 1..Len(imports[f])
  PROVE  ReachedBy(imports[f][i])
<1> DEFINE g == imports[f][i]
<1>1. g \in Protos /\ g > f /\ f \in Nat /\ g \in Nat
  BY GraphFacts, ProtogenAssumption DEF Protos
<1>2. PICK n \in 1..f : \E path \in [1..n -> Protos] :
        /\ path[1] = 1 /\ path[n] = f
        /\ \A j \in 1..(n - 1) : path[j + 1] \in ToSet(imports[path[j]])
  BY DEF ReachedBy
<1>3. PICK path \in [1..n -> Protos] :
        /\ path[1] = 1 /\ path[n] = f
        /\ \A j \in 1..(n - 1) : path[j + 1] \in ToSet(imports[path[j]])
  BY <1>2
<1>4. n \in Nat /\ n >= 1 /\ n + 1 \in 1..g
  BY <1>1
<1> DEFINE longer == [j \in 1..(n + 1) |-> IF j <= n THEN path[j] ELSE g]
<1>5. longer \in [1..(n + 1) -> Protos]
  BY <1>1, <1>4
<1>6. longer[1] = 1 /\ longer[n + 1] = g /\ \A j \in 1..n : longer[j] = path[j]
  BY <1>3, <1>4
<1>7. g \in ToSet(imports[f])
  BY GraphFacts DEF ToSet
<1> HIDE DEF longer, g
<1>8. \A j \in 1..((n + 1) - 1) : longer[j + 1] \in ToSet(imports[longer[j]])
  <2> SUFFICES ASSUME NEW j \in 1..n
               PROVE  longer[j + 1] \in ToSet(imports[longer[j]])
    BY <1>4
  <2>1. CASE j = n
    BY <1>3, <1>4, <1>6, <1>7, <2>1
  <2>2. CASE j # n
    <3>1. j \in 1..(n - 1) /\ j + 1 \in 1..n
      BY <1>4, <2>2
    <3> QED
      BY <1>3, <1>6, <3>1
  <2> QED
    BY <2>1, <2>2
<1>9. ReachedBy(g)
  BY <1>4, <1>5, <1>6, <1>8 DEF ReachedBy
<1> QED
  BY <1>9 DEF g

\* A step of the search leaves everything but the search alone.
LEMMA SearchFrame ==
  ASSUME ProtogenInv, Visit, OrderInv',
         stack' \in Seq(Protos \X (1..Depth)), visited' \subseteq Protos, ordered' \in Seq(Protos)
  PROVE  ProtogenInv'
<1>1. /\ pc = "order"
      /\ UNCHANGED <<src, gen, pc, code, cancelled, began, before, request, imports, files, next>>
  BY DEF Visit
<1>2. TypeOK'
  BY <1>1 DEF ProtogenInv, TypeOK
<1>3. WriteInv'
  BY <1>1 DEF ProtogenInv, WriteInv
<1> QED
  BY <1>1, <1>2, <1>3 DEF ProtogenInv, ExitZeroIsWhole, FailureTouchesNothing

\* Below the topmost call there is a next one.
LEMMA BelowTop ==
  ASSUME NEW n \in Nat, NEW k \in 1..n, k # n
  PROVE  k \in 1..(n - 1) /\ k + 1 \in 1..n /\ k < n
OBVIOUS

\* The files of a stack with one call more.
LEMMA FilesExtended ==
  ASSUME NEW n \in Nat, NEW a, NEW b, \A k \in 1..n : b[k][1] = a[k][1]
  PROVE  {b[k][1] : k \in 1..(n + 1)} = {a[k][1] : k \in 1..n} \cup {b[n + 1][1]}
<1>1. 1..(n + 1) = (1..n) \cup {n + 1}
  OBVIOUS
<1>2. {b[k][1] : k \in (1..n) \cup {n + 1}} = {b[k][1] : k \in 1..n} \cup {b[n + 1][1]}
  BY Zenon
<1>3. {b[k][1] : k \in 1..n} = {a[k][1] : k \in 1..n}
  BY Zenon
<1> QED
  BY <1>1, <1>2, <1>3, Zenon

\* On to the next import, which was visited: it is listed, since the files that are
\* being visited come before the one that imports it.
LEMMA SkipStep ==
  ASSUME ProtogenInv, Visit, Last(stack)[2] <= Len(imports[Last(stack)[1]]),
         imports[Last(stack)[1]][Last(stack)[2]] \in visited
  PROVE  ProtogenInv'
<1> DEFINE f == Last(stack)[1]
           i == Last(stack)[2]
           g == imports[f][i]
           n == Len(stack)
<1>1. pc = "order" /\ stack # <<>> /\ UNCHANGED <<pc, imports>>
  BY DEF Visit
<1>2. /\ n \in Nat \ {0} /\ DOMAIN stack = 1..n /\ stack[n] = <<f, i>>
      /\ f \in Protos /\ i \in 1..Depth /\ imports \in Graphs
      /\ \A k \in 1..n : stack[k][1] \in Protos /\ stack[k][1] <= f
  BY <1>1, TopFacts
<1>3. i \in 1..Len(imports[f]) /\ g \in Protos /\ g > f /\ Len(imports[f]) \in 0..(Depth - 1)
  BY <1>2, GraphFacts
<1>4. ~(i > Len(imports[f]))
  BY <1>3
<1>5. ordered' = ordered /\ visited' = visited \cup {g} /\ stack' = Front(stack) \o <<<<f, i + 1>>>>
  BY <1>4, Zenon DEF Visit
<1>6. <<f, i + 1>> \in Protos \X (1..Depth)
  BY <1>2, <1>3, ProtogenAssumption
<1>7. n = Len(stack) /\ <<f, i>> = Last(stack) /\ g = imports[f][i] /\ g \in visited
  BY <1>2 DEF Last
<1> HIDE DEF f, i, g, n
<1>8. /\ stack' \in Seq(Protos \X (1..Depth)) /\ Len(stack') = n /\ stack'[n] = <<f, i + 1>>
      /\ \A k \in 1..(n - 1) : stack'[k] = stack[k]
  <2> DEFINE Calls == Protos \X (1..Depth)
             e == <<f, i + 1>>
  <2>1. stack \in Seq(Calls) /\ e \in Calls /\ stack' = Front(stack) \o <<e>>
    BY <1>5, <1>6 DEF ProtogenInv, TypeOK
  <2> HIDE DEF Calls, e
  <2>2. /\ stack' \in Seq(Calls) /\ Len(stack') = Len(stack)
        /\ \A k \in 1..(Len(stack) - 1) : stack'[k] = stack[k]
        /\ stack'[Len(stack)] = e
    BY <1>1, <2>1, RestFacts
  <2> QED
    BY <1>7, <2>2 DEF Calls, e
<1>9. DOMAIN stack' = 1..n
  BY <1>8, LenProperties
<1>10. \A k \in 1..n : stack'[k][1] = stack[k][1]
  <2> SUFFICES ASSUME NEW k \in 1..n
               PROVE  stack'[k][1] = stack[k][1]
    OBVIOUS
  <2>1. CASE k = n
    BY <1>2, <1>8, <2>1
  <2>2. CASE k # n
    BY <1>2, <1>8, <2>2, BelowTop
  <2> QED
    BY <2>1, <2>2
<1>11. OrderInv
  BY DEF ProtogenInv
<1>12. g \in ToSet(ordered)
  <2>1. g \notin {stack[k][1] : k \in DOMAIN stack}
    BY <1>2, <1>3, ProtogenAssumption DEF Protos
  <2> QED
    BY <1>1, <1>7, <1>11, <2>1 DEF OrderInv
<1>13. ASSUME NEW k \in 1..n
       PROVE  VisitInv(k)'
  <2>1. VisitInv(k)
    BY <1>1, <1>2, <1>11 DEF OrderInv
  <2>2. /\ stack'[k][1] \notin ToSet(ordered)
        /\ \A l \in 1..(k - 1) : stack'[l][1] < stack'[k][1]
    BY <1>2, <1>10, <2>1 DEF VisitInv
  <2>3. CASE k = n
    <3>1. stack'[k][1] = f /\ stack'[k][2] = i + 1 /\ stack[k][1] = f /\ stack[k][2] = i
      BY <1>2, <1>8, <2>3
    <3>2. \A j \in 1..i : imports[f][j] \in ToSet(ordered)
      BY <1>2, <1>7, <1>12, <2>1, <2>3, <3>1 DEF VisitInv
    <3>3. i + 1 <= Len(imports[f]) + 1 /\ (i + 1) - 1 = i
      BY <1>3
    <3> QED
      BY <1>1, <1>5, <2>2, <3>1, <3>2, <3>3 DEF VisitInv
  <2>4. CASE k # n
    <3>1. k \in 1..(n - 1) /\ k + 1 \in 1..n
      BY <1>2, <2>4, BelowTop
    <3>2. stack'[k] = stack[k] /\ stack'[k + 1][1] = stack[k + 1][1] /\ Len(stack') = Len(stack)
      BY <1>7, <1>8, <1>10, <3>1
    <3> QED
      BY <1>1, <1>5, <2>1, <2>2, <3>2 DEF VisitInv
  <2> QED
    BY <2>3, <2>4
<1>14. \A k \in DOMAIN stack' : VisitInv(k)'
  BY <1>9, <1>13
<1>15. visited' = visited /\ {stack'[k][1] : k \in DOMAIN stack'} = {stack[k][1] : k \in DOMAIN stack}
  <2>1. visited' = visited
    BY <1>5, <1>7
  <2>2. {stack'[k][1] : k \in 1..n} = {stack[k][1] : k \in 1..n}
    BY <1>10, Zenon
  <2> QED
    BY <1>2, <1>9, <2>1, <2>2
<1>16. \A h \in visited' : ReachedBy(h)'
  BY <1>1, <1>11, <1>15 DEF OrderInv, ReachedBy
<1>17. OrderInv'
  BY <1>1, <1>5, <1>11, <1>14, <1>15, <1>16 DEF OrderInv
<1> QED
  BY <1>5, <1>8, <1>15, <1>17, SearchFrame DEF ProtogenInv, TypeOK

\* On to the next import and into it: it is visited for the first time.
LEMMA DescendStep ==
  ASSUME ProtogenInv, Visit, Last(stack)[2] <= Len(imports[Last(stack)[1]]),
         imports[Last(stack)[1]][Last(stack)[2]] \notin visited
  PROVE  ProtogenInv'
<1> DEFINE f == Last(stack)[1]
           i == Last(stack)[2]
           g == imports[f][i]
           n == Len(stack)
<1>1. pc = "order" /\ stack # <<>> /\ UNCHANGED <<pc, imports>>
  BY DEF Visit
<1>2. /\ n \in Nat \ {0} /\ DOMAIN stack = 1..n /\ stack[n] = <<f, i>>
      /\ f \in Protos /\ i \in 1..Depth /\ imports \in Graphs
      /\ \A k \in 1..n : stack[k][1] \in Protos /\ stack[k][1] <= f
  BY <1>1, TopFacts
<1>3. i \in 1..Len(imports[f]) /\ g \in Protos /\ g > f /\ Len(imports[f]) \in 0..(Depth - 1)
  BY <1>2, GraphFacts
<1>4. ~(i > Len(imports[f]))
  BY <1>3
<1>5. /\ ordered' = ordered /\ visited' = visited \cup {g}
      /\ stack' = Append(Front(stack) \o <<<<f, i + 1>>>>, <<g, 1>>)
  BY <1>4, Zenon DEF Visit
<1>6. <<f, i + 1>> \in Protos \X (1..Depth) /\ <<g, 1>> \in Protos \X (1..Depth)
  BY <1>2, <1>3, ProtogenAssumption
<1>7. n = Len(stack) /\ <<f, i>> = Last(stack) /\ g = imports[f][i] /\ g \notin visited
  BY <1>2 DEF Last
<1> HIDE DEF f, i, g, n
<1>8. /\ stack' \in Seq(Protos \X (1..Depth)) /\ Len(stack') = n + 1
      /\ stack'[n + 1] = <<g, 1>> /\ stack'[n] = <<f, i + 1>>
      /\ \A k \in 1..(n - 1) : stack'[k] = stack[k]
  <2> DEFINE Calls == Protos \X (1..Depth)
             e == <<f, i + 1>>
             rest == Front(stack) \o <<e>>
  <2>1. stack \in Seq(Calls) /\ e \in Calls /\ <<g, 1>> \in Calls /\ stack' = Append(rest, <<g, 1>>)
    BY <1>5, <1>6 DEF ProtogenInv, TypeOK
  <2> HIDE DEF Calls, e
  <2>2. /\ rest \in Seq(Calls) /\ Len(rest) = n /\ rest[n] = e
        /\ \A k \in 1..(n - 1) : rest[k] = stack[k]
    BY <1>1, <1>7, <2>1, RestFacts
  <2> HIDE DEF rest
  <2>3. /\ stack' \in Seq(Calls) /\ Len(stack') = n + 1 /\ stack'[n + 1] = <<g, 1>>
        /\ \A k \in 1..n : stack'[k] = rest[k]
    BY <2>1, <2>2, AppendFacts
  <2>4. stack'[n] = e /\ \A k \in 1..(n - 1) : stack'[k] = stack[k]
    BY <1>2, <2>2, <2>3
  <2> QED
    BY <2>3, <2>4 DEF Calls, e
<1>9. DOMAIN stack' = 1..(n + 1)
  BY <1>8, LenProperties
<1>10. \A k \in 1..n : stack'[k][1] = stack[k][1]
  <2> SUFFICES ASSUME NEW k \in 1..n
               PROVE  stack'[k][1] = stack[k][1]
    OBVIOUS
  <2>1. CASE k = n
    BY <1>2, <1>8, <2>1
  <2>2. CASE k # n
    BY <1>2, <1>8, <2>2, BelowTop
  <2> QED
    BY <2>1, <2>2
<1>11. OrderInv
  BY DEF ProtogenInv
<1>12. g \notin ToSet(ordered)
  BY <1>1, <1>7, <1>11 DEF OrderInv
<1>13. ASSUME NEW k \in 1..n
       PROVE  VisitInv(k)'
  <2>1. VisitInv(k)
    BY <1>1, <1>2, <1>11 DEF OrderInv
  <2>2. /\ stack'[k][1] \notin ToSet(ordered)
        /\ \A l \in 1..(k - 1) : stack'[l][1] < stack'[k][1]
    BY <1>2, <1>10, <2>1 DEF VisitInv
  <2>3. CASE k = n
    <3>1. stack'[k][1] = f /\ stack'[k][2] = i + 1 /\ stack[k][1] = f /\ stack[k][2] = i
      BY <1>2, <1>8, <2>3
    <3>2. \A j \in 1..i : imports[f][j] \in ToSet(ordered) \/ j = i
      BY <1>2, <1>7, <2>1, <2>3, <3>1 DEF VisitInv
    <3>3. i + 1 <= Len(imports[f]) + 1 /\ (i + 1) - 1 = i
      BY <1>3
    <3>4. k < Len(stack') /\ stack'[k + 1][1] = imports[f][i]
      BY <1>2, <1>7, <1>8, <2>3
    <3> QED
      BY <1>1, <1>5, <2>2, <3>1, <3>2, <3>3, <3>4 DEF VisitInv
  <2>4. CASE k # n
    <3>1. k \in 1..(n - 1) /\ k + 1 \in 1..n /\ k < n
      BY <1>2, <2>4, BelowTop
    <3>2. stack'[k] = stack[k] /\ stack'[k + 1][1] = stack[k + 1][1]
      BY <1>8, <1>10, <3>1
    <3>3. k < Len(stack')
      BY <1>2, <1>8
    <3> QED
      BY <1>1, <1>5, <2>1, <2>2, <3>2, <3>3 DEF VisitInv
  <2> QED
    BY <2>3, <2>4
<1>14. ASSUME NEW k \in Nat, k = n + 1
       PROVE  VisitInv(k)'
  <2>1. stack'[k][1] = g /\ stack'[k][2] = 1
    BY <1>8, <1>14
  <2>2. ASSUME NEW l \in 1..n
        PROVE  stack'[l][1] < g
    <3>1. stack'[l][1] = stack[l][1] /\ stack[l][1] \in Protos /\ stack[l][1] <= f
      BY <1>2, <1>10
    <3>2. f \in Protos /\ g \in Protos /\ f < g
      BY <1>2, <1>3
    <3>3. \A x \in Protos : x \in Int
      BY ProtogenAssumption DEF Protos
    <3> QED
      BY <3>1, <3>2, <3>3
  <2>3. Len(imports[g]) \in Nat /\ k - 1 = n
    BY <1>2, <1>3, <1>14, GraphFacts
  <2>4. imports' = imports
    BY <1>1
  <2>5. stack'[k][2] <= Len(imports'[stack'[k][1]]) + 1
    BY <2>1, <2>3, <2>4
  <2>6. stack'[k][1] \notin ToSet(ordered')
    BY <1>5, <1>12, <2>1
  <2>7. \A l \in 1..(k - 1) : stack'[l][1] < stack'[k][1]
    BY <2>1, <2>2, <2>3
  <2>8. \A j \in 1..(stack'[k][2] - 1) : FALSE
    BY <2>1
  <2> QED
    BY <2>5, <2>6, <2>7, <2>8 DEF VisitInv
<1>15. \A k \in DOMAIN stack' : VisitInv(k)'
  <2>1. \A k \in 1..(n + 1) : k \in 1..n \/ (k = n + 1 /\ k \in Nat)
    BY <1>2
  <2> QED
    BY <1>9, <1>13, <1>14, <2>1
<1>16. visited' = ToSet(ordered') \cup {stack'[k][1] : k \in DOMAIN stack'}
  <2>1. visited = ToSet(ordered) \cup {stack[k][1] : k \in 1..n}
    BY <1>1, <1>2, <1>11 DEF OrderInv
  <2>2. {stack'[k][1] : k \in 1..(n + 1)} = {stack[k][1] : k \in 1..n} \cup {g}
    BY <1>2, <1>8, <1>10, FilesExtended
  <2> QED
    BY <1>5, <1>9, <2>1, <2>2
<1>17. \A h \in visited' : ReachedBy(h)'
  <2>1. f \in visited
    BY <1>1, <1>2, <1>11 DEF OrderInv
  <2>2. ReachedBy(g)
    BY <1>1, <1>2, <1>3, <1>7, <1>11, <2>1, ReachedImport DEF OrderInv
  <2>3. \A h \in visited' : ReachedBy(h)
    BY <1>1, <1>5, <1>11, <2>2 DEF OrderInv
  <2> QED
    BY <1>1, <2>3 DEF ReachedBy
<1>18. OrderInv'
  BY <1>1, <1>5, <1>11, <1>15, <1>16, <1>17 DEF OrderInv
<1>19. visited' \subseteq Protos /\ ordered' \in Seq(Protos)
  BY <1>3, <1>5 DEF ProtogenInv, TypeOK
<1> QED
  BY <1>8, <1>18, <1>19, SearchFrame

\* Back to the caller: the file is listed, behind its imports and ahead of those
\* that import it.
LEMMA BackStep ==
  ASSUME ProtogenInv, Visit, Last(stack)[2] > Len(imports[Last(stack)[1]])
  PROVE  ProtogenInv'
<1> DEFINE f == Last(stack)[1]
           i == Last(stack)[2]
           n == Len(stack)
<1>1. pc = "order" /\ stack # <<>> /\ UNCHANGED <<pc, imports>>
  BY DEF Visit
<1>2. /\ n \in Nat \ {0} /\ DOMAIN stack = 1..n /\ stack[n] = <<f, i>>
      /\ f \in Protos /\ i \in 1..Depth /\ imports \in Graphs
      /\ \A k \in 1..n : stack[k][1] \in Protos /\ stack[k][1] <= f
  BY <1>1, TopFacts
<1>3. Len(imports[f]) \in Nat /\ DOMAIN imports[f] = 1..Len(imports[f])
  BY <1>2, GraphFacts
<1>4. ~(i <= Len(imports[f]))
  BY <1>2, <1>3
<1>5. ordered' = Append(ordered, f) /\ visited' = visited /\ stack' = Front(stack)
  BY <1>4, Zenon DEF Visit
<1>6. n = Len(stack) /\ <<f, i>> = Last(stack)
  BY <1>2 DEF Last
<1> HIDE DEF f, i, n
<1>7. /\ stack' \in Seq(Protos \X (1..Depth)) /\ Len(stack') = n - 1
      /\ \A k \in 1..(n - 1) : stack'[k] = stack[k]
  <2> DEFINE Calls == Protos \X (1..Depth)
  <2>1. stack \in Seq(Calls)
    BY DEF ProtogenInv, TypeOK
  <2> HIDE DEF Calls
  <2>2. /\ stack' \in Seq(Calls) /\ Len(stack') = Len(stack) - 1
        /\ \A k \in 1..(Len(stack) - 1) : stack'[k] = stack[k]
    BY <1>1, <1>5, <2>1, FrontFacts
  <2> QED
    BY <1>6, <2>2 DEF Calls
<1>8. DOMAIN stack' = 1..(n - 1)
  BY <1>7, LenProperties
<1>9. OrderInv /\ VisitInv(n)
  BY <1>1, <1>2 DEF ProtogenInv, OrderInv
<1>10. ordered \in Seq(Protos) /\ Len(ordered) \in Nat /\ DOMAIN ordered = 1..Len(ordered)
  BY LenProperties DEF ProtogenInv, TypeOK
<1>11. /\ ordered' \in Seq(Protos) /\ Len(ordered') = Len(ordered) + 1
       /\ \A k \in 1..Len(ordered) : ordered'[k] = ordered[k]
       /\ ordered'[Len(ordered) + 1] = f
       /\ DOMAIN ordered' = 1..(Len(ordered) + 1)
       /\ ToSet(ordered') = ToSet(ordered) \cup {f}
  BY <1>2, <1>5, <1>10, AppendFacts, ToSetFacts, LenProperties
<1>12. f \notin ToSet(ordered) /\ \A j \in 1..Len(imports[f]) : imports[f][j] \in ToSet(ordered)
  <2>1. stack[n][1] = f /\ stack[n][2] = i /\ ~(n < Len(stack))
    BY <1>2, <1>6
  <2>2. f \notin ToSet(ordered) /\ \A j \in 1..(i - 1) : imports[f][j] \in ToSet(ordered)
    BY <1>9, <2>1 DEF VisitInv
  <2>3. \A j \in 1..Len(imports[f]) : j \in 1..(i - 1)
    BY <1>2, <1>3, <1>4
  <2> QED
    BY <2>2, <2>3
<1>13. ASSUME NEW k \in 1..(n - 1)
       PROVE  VisitInv(k)'
  <2>1. VisitInv(k) /\ k \in 1..n /\ k # n
    BY <1>1, <1>2, <1>9 DEF OrderInv
  <2>2. /\ stack'[k] = stack[k] /\ \A l \in 1..(k - 1) : stack'[l] = stack[l]
    BY <1>2, <1>7
  <2>3. stack[k][1] # f
    <3>1. k \in 1..(n - 1) /\ stack[n][1] = f /\ stack[k][1] \in Protos
      BY <1>2, <2>1
    <3> QED
      BY <1>2, <1>9, <3>1, ProtogenAssumption DEF VisitInv, Protos
  <2>4. stack'[k][1] \notin ToSet(ordered')
    BY <1>11, <2>1, <2>2, <2>3 DEF VisitInv
  <2>5. ASSUME NEW j \in 1..(stack[k][2] - 1)
        PROVE  \/ imports[stack[k][1]][j] \in ToSet(ordered')
               \/ /\ j = stack[k][2] - 1 /\ k < Len(stack')
                  /\ imports[stack[k][1]][j] = stack'[k + 1][1]
    <3>1. CASE imports[stack[k][1]][j] \in ToSet(ordered)
      BY <1>11, <3>1
    <3>2. CASE j = stack[k][2] - 1 /\ imports[stack[k][1]][j] = stack[k + 1][1]
      <4>1. CASE k + 1 = n
        BY <1>2, <1>11, <3>2, <4>1
      <4>2. CASE k + 1 # n
        <5>1. k + 1 \in 1..(n - 1) /\ k < n - 1
          BY <1>2, <4>2
        <5> QED
          BY <1>7, <3>2, <5>1
      <4> QED
        BY <4>1, <4>2
    <3> QED
      BY <2>1, <3>1, <3>2 DEF VisitInv
  <2> QED
    BY <1>1, <2>1, <2>2, <2>4, <2>5 DEF VisitInv
<1>14. visited' = ToSet(ordered') \cup {stack'[k][1] : k \in DOMAIN stack'}
  <2>1. visited = ToSet(ordered) \cup {stack[k][1] : k \in 1..n}
    BY <1>1, <1>2, <1>9 DEF OrderInv
  <2>2. {stack[k][1] : k \in 1..n} = {stack'[k][1] : k \in 1..(n - 1)} \cup {f}
    <3>1. n - 1 \in Nat /\ (n - 1) + 1 = n /\ stack[n][1] = f
      BY <1>2
    <3>2. \A k \in 1..(n - 1) : stack[k][1] = stack'[k][1]
      BY <1>7
    <3> QED
      BY <3>1, <3>2, FilesExtended
  <2> QED
    BY <1>5, <1>8, <1>11, <2>1, <2>2
<1>15. IsInjective(ordered')
  <2>1. \A k \in 1..Len(ordered) : ordered[k] # f
    BY <1>10, <1>12 DEF ToSet
  <2>2. IsInjective(ordered)
    BY <1>1, <1>9 DEF OrderInv
  <2> SUFFICES ASSUME NEW a \in DOMAIN ordered', NEW b \in DOMAIN ordered', ordered'[a] = ordered'[b]
               PROVE  a = b
    BY DEF IsInjective
  <2>3. \A c \in DOMAIN ordered' : c \in 1..Len(ordered) \/ c = Len(ordered) + 1
    BY <1>10, <1>11
  <2> QED
    BY <1>10, <1>11, <2>1, <2>2, <2>3 DEF IsInjective
<1>16. ASSUME NEW k \in DOMAIN ordered'
       PROVE  ToSet(imports'[ordered'[k]]) \subseteq ToSet(SubSeq(ordered', 1, k - 1))
  <2>1. ToSet(SubSeq(ordered', 1, k - 1)) = {ordered'[j] : j \in 1..(k - 1)}
    <3>1. k \in 1..(Len(ordered') + 1)
      BY <1>10, <1>11
    <3> QED
      BY <1>11, <3>1, ToSetFacts
  <2>2. CASE k \in 1..Len(ordered)
    <3>1. ToSet(SubSeq(ordered, 1, k - 1)) = {ordered[j] : j \in 1..(k - 1)}
      <4>1. k \in 1..(Len(ordered) + 1)
        BY <1>10, <2>2
      <4> QED
        BY <1>10, <4>1, ToSetFacts
    <3>2. \A j \in 1..(k - 1) : ordered'[j] = ordered[j]
      BY <1>10, <1>11, <2>2
    <3>3. {ordered[j] : j \in 1..(k - 1)} = {ordered'[j] : j \in 1..(k - 1)}
      BY <3>2
    <3>4. ToSet(imports[ordered[k]]) \subseteq ToSet(SubSeq(ordered, 1, k - 1))
      BY <1>1, <1>9, <1>10, <2>2 DEF OrderInv
    <3> QED
      BY <1>1, <1>11, <2>1, <2>2, <3>1, <3>3, <3>4
  <2>3. CASE k = Len(ordered) + 1
    <3>1. {ordered'[j] : j \in 1..(k - 1)} = ToSet(ordered)
      BY <1>10, <1>11, <2>3 DEF ToSet
    <3>2. ToSet(imports[f]) \subseteq ToSet(ordered)
      BY <1>3, <1>12 DEF ToSet
    <3> QED
      BY <1>1, <1>11, <2>1, <2>3, <3>1, <3>2
  <2> QED
    BY <1>10, <1>11, <2>2, <2>3
<1>17. \A h \in visited' : ReachedBy(h)'
  BY <1>1, <1>5, <1>9 DEF OrderInv, ReachedBy
<1>18. OrderInv'
  BY <1>1, <1>5, <1>8, <1>9, <1>13, <1>14, <1>15, <1>16, <1>17 DEF OrderInv
<1> QED
  BY <1>5, <1>7, <1>11, <1>18, SearchFrame DEF ProtogenInv, TypeOK

LEMMA VisitStep ==
  ASSUME ProtogenInv, Visit
  PROVE  ProtogenInv'
<1>1. Last(stack)[2] <= Len(imports[Last(stack)[1]]) \/ Last(stack)[2] > Len(imports[Last(stack)[1]])
  BY DEF Visit
<1> QED
  BY <1>1, SkipStep, DescendStep, BackStep

-----------------------------------------------------------------------------
\* The inductive invariant holds of every behaviour.
THEOREM Invariance == Spec => []ProtogenInv
<1>1. ASSUME ProtogenInv, [Next]_vars
      PROVE  ProtogenInv'
  <2>1. CASE RunStep
    BY <1>1, <2>1, ReadProtoStep, OpenProtoStep, CompileStep, VisitStep, MarshalStep, ResponseStep,
       CheckOutputsStep, WriteFileStep, FinishStep DEF RunStep
  <2> QED
    BY <1>1, <2>1, ParseArgsStep, EditStep, SignalStep, KillStep DEF Next
<1> QED
  BY InitProtogen, <1>1, PTL DEF Spec

\* Every variable of Protogen keeps its type; of the exit codes, none is invented.
THEOREM TypeCorrect == Spec => []TypeOK
<1>1. ProtogenInv => TypeOK
  BY DEF ProtogenInv
<1> QED
  BY Invariance, <1>1, PTL

\* main: exit code 0 means that all wanted files are there, in one version of the
\* sources, whatever was edited, signalled or torn before.
THEOREM ZeroMeansWhole == Spec => []ExitZeroIsWhole
<1>1. ProtogenInv => ExitZeroIsWhole
  BY DEF ProtogenInv
<1> QED
  BY Invariance, <1>1, PTL

\* run: a failure before the writes leaves the generated files alone.
THEOREM EarlyFailuresTouchNothing == Spec => []FailureTouchesNothing
<1>1. ProtogenInv => FailureTouchesNothing
  BY DEF ProtogenInv
<1> QED
  BY Invariance, <1>1, PTL

\* What is closed under imports and holds file 1 holds every file that is needed.
LEMMA NeededIsClosed ==
  ASSUME imports \in Graphs, NEW T, 1 \in T,
         \A f \in T \cap Protos : ToSet(imports[f]) \subseteq T
  PROVE  Needed \subseteq T
<1> SUFFICES ASSUME NEW f \in Needed
             PROVE  f \in T
  OBVIOUS
<1>1. PICK n \in 1..Depth : \E path \in [1..n -> Protos] :
        /\ path[1] = 1 /\ path[n] = f
        /\ \A i \in 1..(n - 1) : path[i + 1] \in ToSet(imports[path[i]])
  BY DEF Needed
<1>2. PICK path \in [1..n -> Protos] :
        /\ path[1] = 1 /\ path[n] = f
        /\ \A i \in 1..(n - 1) : path[i + 1] \in ToSet(imports[path[i]])
  BY <1>1
<1>3. n \in Nat /\ n >= 1
  BY ProtogenAssumption
<1> DEFINE Out == {i \in 1..n : path[i] \notin T}
<1>4. CASE Out = {}
  BY <1>2, <1>3, <1>4
<1>5. CASE Out # {}
  <2>1. Out \in SUBSET Nat
    BY <1>3
  <2> HIDE DEF Out
  <2>2. PICK m \in Out : \A k \in Out : m <= k
    BY <1>5, <2>1, LeastNatural
  <2>3. m \in 1..n /\ path[m] \notin T
    BY <2>2 DEF Out
  <2>4. m # 1
    BY <1>2, <2>3
  <2>5. m - 1 \in 1..(n - 1) /\ m - 1 \in 1..n /\ (m - 1) + 1 = m /\ ~(m <= m - 1)
    BY <1>3, <2>3, <2>4
  <2>6. m - 1 \notin Out
    BY <2>2, <2>5
  <2>7. path[m - 1] \in T \cap Protos
    BY <1>2, <2>5, <2>6 DEF Out
  <2>8. path[m] \in ToSet(imports[path[m - 1]])
    BY <1>2, <2>5
  <2> QED
    BY <2>3, <2>7, <2>8
<1> QED
  BY <1>4, <1>5

\* descriptorsInDependencyOrder: for every graph of imports, the plugins are given
\* each needed file once, behind all of its imports.
THEOREM DescriptorsAreOrdered == Spec => []DependencyOrder
<1>1. ASSUME ProtogenInv, pc = "order", stack = <<>>
      PROVE  /\ IsInjective(ordered) /\ ToSet(ordered) = Needed
             /\ \A i \in DOMAIN ordered :
                  ToSet(imports[ordered[i]]) \subseteq ToSet(SubSeq(ordered, 1, i - 1))
  <2>1. /\ imports \in Graphs /\ IsInjective(ordered)
        /\ \A i \in DOMAIN ordered :
             ToSet(imports[ordered[i]]) \subseteq ToSet(SubSeq(ordered, 1, i - 1))
        /\ 1 \in visited /\ \A f \in visited : ReachedBy(f)
    BY <1>1 DEF ProtogenInv, OrderInv
  <2>2. visited = ToSet(ordered) /\ visited \subseteq Protos
    <3>1. {stack[k][1] : k \in DOMAIN stack} = {}
      BY <1>1
    <3>2. visited \subseteq Protos
      BY <1>1 DEF ProtogenInv, TypeOK
    <3>3. OrderInv
      BY <1>1 DEF ProtogenInv
    <3>4. visited = ToSet(ordered) \cup {stack[k][1] : k \in DOMAIN stack}
      BY <1>1, <3>3, Zenon DEF OrderInv
    <3> QED
      BY <3>1, <3>2, <3>4
  <2>3. ordered \in Seq(Protos) /\ Len(ordered) \in Nat /\ DOMAIN ordered = 1..Len(ordered)
    BY <1>1, LenProperties DEF ProtogenInv, TypeOK
  <2>4. ASSUME NEW i \in DOMAIN ordered
        PROVE  ToSet(SubSeq(ordered, 1, i - 1)) \subseteq ToSet(ordered)
    <3>1. i \in 1..(Len(ordered) + 1) /\ \A j \in 1..(i - 1) : j \in 1..Len(ordered)
      BY <2>3
    <3>2. ToSet(SubSeq(ordered, 1, i - 1)) = {ordered[j] : j \in 1..(i - 1)}
      BY <2>3, <3>1, ToSetFacts
    <3> QED
      BY <2>3, <3>1, <3>2 DEF ToSet
  <2>5. \A f \in ToSet(ordered) : ToSet(imports[f]) \subseteq ToSet(ordered)
    <3> SUFFICES ASSUME NEW i \in DOMAIN ordered
                 PROVE  ToSet(imports[ordered[i]]) \subseteq ToSet(ordered)
      BY DEF ToSet
    <3> QED
      BY <2>1, <2>4
  <2>6. Needed \subseteq ToSet(ordered)
    BY <2>1, <2>2, <2>5, NeededIsClosed
  <2>7. ASSUME NEW f \in ToSet(ordered)
        PROVE  f \in Needed
    <3>1. f \in Protos /\ ReachedBy(f)
      BY <2>1, <2>2
    <3>2. 1..f \subseteq 1..Depth
      BY <3>1, ProtogenAssumption DEF Protos
    <3> QED
      BY <3>1, <3>2 DEF ReachedBy, Needed
  <2> QED
    BY <2>1, <2>6, <2>7
<1>2. ProtogenInv => DependencyOrder
  BY <1>1 DEF DependencyOrder
<1> QED
  BY Invariance, <1>2, PTL
=============================================================================
