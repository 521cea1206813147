------------------------ MODULE WorkflowRunnerProofs ------------------------
(***************************************************************************)
(* Theorems about WorkflowRunner, for any nodes, triggers and edges, and   *)
(* whatever the conditions and the outcomes of the nodes are.              *)
(***************************************************************************)
EXTENDS WorkflowRunner, FiniteSetTheorems, TLAPS

\* Before the levels are known nothing runs, a run that is over has nothing at
\* work, and one that is reported completed has no failure.
Phases ==
  /\ phase = "levels" => \A n \in Nodes : out[n] \in {"completed", "idle"}
  /\ phase \in {"completed", "failed"} => Busy = {}
  /\ phase = "completed" => Failed = {}

\* The inductive invariant: JoinsWait makes InputsArePresent inductive, since a
\* node that has started waits for nothing that could still complete.
RunnerInv == TypeOK /\ Phases /\ JoinsWait /\ InputsArePresent

-----------------------------------------------------------------------------
\* A node that goes on depends on the same edges as before.
LEMMA NothingBeforeChanges ==
  ASSUME edges' = edges, NEW n \in Nodes
  PROVE  Before(n)' = Before(n)
BY DEF Before

\* The initial states: a node has as many incoming edges as it has, a number.
LEMMA InitHolds == Init => RunnerInv
<1> SUFFICES ASSUME Init PROVE RunnerInv
  OBVIOUS
<1> USE RunnerAssumption DEF Init
<1>1. indeg \in [Nodes -> Nat]
  <2>1. \A n \in Nodes : IsFiniteSet(Before(n))
    BY FS_Subset DEF Before
  <2> QED
    BY <2>1, FS_CardinalityType
<1>2. TypeOK
  <2>1. edges \subseteq Nodes \X Nodes /\ cur \in Depth /\ queue \subseteq Nodes \X Depth
    BY DEF Depth
  <2>2. level \in [Nodes -> Depth \cup {NotAny}]
    BY DEF Depth, NotAny
  <2>3. out \in [Nodes -> Outcome] /\ sees \in [Nodes -> SUBSET Nodes] /\ taken \subseteq edges
    BY DEF Outcome, Started, Settled
  <2> QED
    BY <1>1, <2>1, <2>2, <2>3 DEF TypeOK
<1>3. Phases
  BY DEF Phases
<1>4. JoinsWait /\ InputsArePresent
  BY DEF JoinsWait, InputsArePresent, Started
<1> QED
  BY <1>2, <1>3, <1>4 DEF RunnerInv

-----------------------------------------------------------------------------
\* A node's level is computed within bounds.
LEMMA RaisedType ==
  ASSUME TypeOK, NEW m \in Nodes, NEW l \in Depth
  PROVE  Raised(m, l) \in Depth
BY RunnerAssumption DEF TypeOK, Raised, Depth, NotAny

\* Computing levels keeps every variable within its type.
LEMMA VisitTypes ==
  ASSUME TypeOK, NEW n \in Nodes, NEW l \in Depth, Visit(n, l)
  PROVE  TypeOK'
<1>1. level' \in [Nodes -> Depth \cup {NotAny}]
  <2>1. level' = [m \in Nodes |-> IF m \in After(n) THEN Raised(m, l) ELSE level[m]]
    BY DEF Visit
  <2>2. level \in [Nodes -> Depth \cup {NotAny}]
    BY DEF TypeOK
  <2>3. \A m \in Nodes : Raised(m, l) \in Depth
    BY RaisedType
  <2> QED
    BY <2>1, <2>2, <2>3
<1>2. indeg' \in [Nodes -> Nat]
  <2>1. indeg' = [m \in Nodes |-> IF m \in After(n) THEN OneLess(indeg[m]) ELSE indeg[m]]
    BY DEF Visit
  <2>2. \A d \in Nat : OneLess(d) \in Nat
    BY DEF OneLess
  <2>3. indeg \in [Nodes -> Nat]
    BY DEF TypeOK
  <2> QED
    BY <2>1, <2>2, <2>3
<1>3. queue' \subseteq Nodes \X Depth
  <2>1. \A m \in After(n) : m \in Nodes /\ level'[m] \in Depth
    <3>1. level' = [m \in Nodes |-> IF m \in After(n) THEN Raised(m, l) ELSE level[m]]
      BY DEF Visit
    <3>2. \A m \in Nodes : Raised(m, l) \in Depth
      BY RaisedType
    <3> QED
      BY <3>1, <3>2 DEF After
  <2>2. queue' = (queue \ {<<n, l>>})
                   \cup {<<m, level'[m]>> : m \in {k \in After(n) : indeg'[k] = 0}}
    BY DEF Visit
  <2>3. queue \subseteq Nodes \X Depth
    BY DEF TypeOK
  <2> QED
    BY <2>1, <2>2, <2>3
<1>4. UNCHANGED <<edges, phase, cur, out, taken, sees>>
  BY DEF Visit
<1> QED
  BY <1>1, <1>2, <1>3, <1>4 DEF TypeOK

\* A level begins: only idle nodes change, and they start or are skipped.
LEMMA BeginLevelHolds ==
  ASSUME RunnerInv, BeginLevel
  PROVE  RunnerInv'
<1>0. PICK l \in LevelsLeft :
        /\ cur' = l
        /\ \E T \in SUBSET Open(Eligible(l)) :
             /\ taken' = taken \cup T
             /\ out' = [n \in Nodes |-> IF n \notin Eligible(l) THEN out[n]
                          ELSE IF \E e \in T : e[2] = n THEN "running" ELSE "skipped"]
  BY DEF BeginLevel
<1>1. PICK T \in SUBSET Open(Eligible(l)) :
        /\ cur' = l /\ taken' = taken \cup T
        /\ out' = [n \in Nodes |-> IF n \notin Eligible(l) THEN out[n]
                     ELSE IF \E e \in T : e[2] = n THEN "running" ELSE "skipped"]
  BY <1>0
<1>2. UNCHANGED <<edges, level, indeg, queue, phase, sees>> /\ phase = "run"
  BY DEF BeginLevel, graphVars
<1>3. \A n \in Nodes : out[n] # "idle" => out'[n] = out[n]
  BY <1>1 DEF Eligible
<1>4. \A n \in Nodes : out'[n] = out[n] \/ out'[n] = "running" \/ out'[n] = "skipped"
  BY <1>1
<1>5. TypeOK'
  <2>1. out' \in [Nodes -> Outcome]
    BY <1>1 DEF RunnerInv, TypeOK, Outcome, Started, Settled
  <2>2. taken' \subseteq edges' /\ cur' \in Depth
    BY <1>1, <1>2 DEF RunnerInv, TypeOK, Open, LevelsLeft
  <2> QED
    BY <1>2, <2>1, <2>2 DEF RunnerInv, TypeOK
<1>6. Phases'
  BY <1>2 DEF Phases
<1>7. JoinsWait'
  <2> SUFFICES ASSUME NEW n \in Nodes \ Triggers, out'[n] \in Started
               PROVE  /\ \A m \in Before(n) : out'[m] \in Settled
                      /\ \E m \in Before(n) : <<m, n>> \in taken' /\ out'[m] \in {"completed", "tolerated"}
    BY <1>2, NothingBeforeChanges DEF JoinsWait
  <2>1. \A m \in Nodes : out[m] \in Settled => out'[m] = out[m]
    BY <1>3 DEF Settled
  <2>2. Before(n) \subseteq Nodes
    BY DEF Before
  <2>3. CASE out'[n] = out[n]
    <3>1. /\ \A m \in Before(n) : out[m] \in Settled
          /\ \E m \in Before(n) : <<m, n>> \in taken /\ out[m] \in {"completed", "tolerated"}
      BY <2>3 DEF RunnerInv, JoinsWait
    <3> QED
      BY <1>1, <2>1, <2>2, <3>1
  <2>4. CASE out'[n] # out[n]
    <3>1. n \in Eligible(l)
      BY <1>1, <2>4
    <3>2. \A m \in Before(n) : out[m] \in Settled
      BY <3>1 DEF Eligible
    <3>3. out'[n] # "skipped"
      BY DEF Started
    <3>4. PICK e \in T : e[2] = n
      BY <1>1, <3>1, <3>3
    <3>5. e \in edges /\ out[e[1]] \in {"completed", "tolerated"}
      BY <1>1, <3>4 DEF Open
    <3>6. e[1] \in Before(n) /\ e = <<e[1], n>>
      BY <3>4, <3>5 DEF RunnerInv, TypeOK, Before
    <3>7. \A m \in Before(n) : out'[m] \in Settled
      BY <2>1, <2>2, <3>2
    <3>8. out'[e[1]] \in {"completed", "tolerated"} /\ <<e[1], n>> \in taken'
      BY <1>1, <2>1, <2>2, <3>4, <3>5, <3>6 DEF Settled
    <3> QED
      BY <3>6, <3>7, <3>8
  <2> QED
    BY <2>3, <2>4
<1>8. InputsArePresent'
  <2> SUFFICES ASSUME NEW n \in Nodes \ Triggers, out'[n] \in Started \ {"running"},
                      NEW m \in Before(n), out'[m] = "completed"
               PROVE  m \in sees[n]
    BY <1>2, NothingBeforeChanges DEF InputsArePresent
  <2>1. out'[n] = out[n]
    BY <1>4 DEF Started
  <2>2. m \in Nodes /\ out[m] = "completed"
    BY <1>4 DEF Before
  <2> QED
    BY <2>1, <2>2 DEF RunnerInv, InputsArePresent
<1> QED
  BY <1>5, <1>6, <1>7, <1>8 DEF RunnerInv

\* Computing levels touches nothing the other parts of the invariant speak of.
LEMMA LevelStepsHold ==
  ASSUME RunnerInv, (\E n \in Nodes, l \in Depth : Visit(n, l)) \/ LevelsDone
  PROVE  RunnerInv'
<1>1. TypeOK' /\ UNCHANGED <<edges, cur, out, taken, sees>>
      /\ phase = "levels" /\ phase' \in {"levels", "run"}
  <2>1. CASE \E n \in Nodes, l \in Depth : Visit(n, l)
    <3>1. PICK n \in Nodes, l \in Depth : Visit(n, l)
      BY <2>1
    <3> QED
      BY <3>1, VisitTypes DEF RunnerInv, Visit
  <2>2. CASE LevelsDone
    BY <2>2 DEF RunnerInv, TypeOK, LevelsDone, graphVars
  <2> QED
    BY <2>1, <2>2
<1>2. Phases'
  BY <1>1 DEF RunnerInv, Phases
<1>3. JoinsWait' /\ InputsArePresent'
  BY <1>1, NothingBeforeChanges DEF RunnerInv, JoinsWait, InputsArePresent
<1> QED
  BY <1>1, <1>2, <1>3 DEF RunnerInv

\* A node fills in its configuration: whatever was before it has settled, so it
\* has all it will ever have.
LEMMA InterpolateHolds ==
  ASSUME RunnerInv, NEW k \in Nodes, Interpolate(k)
  PROVE  RunnerInv'
<1>1. /\ out[k] = "running" /\ out' = [out EXCEPT ![k] = "working"]
      /\ sees' = [sees EXCEPT ![k] = {m \in Nodes : out[m] = "completed"}]
      /\ UNCHANGED <<edges, level, indeg, queue, phase, cur, taken>>
  BY DEF Interpolate, graphVars
<1>2. out \in [Nodes -> Outcome] /\ sees \in [Nodes -> SUBSET Nodes]
  BY DEF RunnerInv, TypeOK
<1>3. TypeOK'
  BY <1>1, <1>2 DEF RunnerInv, TypeOK, Outcome, Started, Settled
<1>4. \A m \in Nodes : /\ out[m] \in Settled <=> out'[m] \in Settled
                       /\ out[m] \in Settled => out'[m] = out[m]
                       /\ out[m] \in Started <=> out'[m] \in Started
                       /\ out'[m] = "completed" <=> out[m] = "completed"
                       /\ out'[m] = "failed" <=> out[m] = "failed"
  <2>1. out'[k] = "working" /\ \A m \in Nodes \ {k} : out'[m] = out[m]
    BY <1>1, <1>2
  <2>2. /\ {"running", "working"} \subseteq Started
        /\ {"running", "working"} \cap Settled = {}
    BY DEF Settled, Started
  <2> QED
    BY <1>1, <2>1, <2>2
<1>5. Phases'
  <2>1. phase \notin {"levels", "completed", "failed"}
    BY <1>1, <1>2 DEF RunnerInv, Phases, Busy
  <2> QED
    BY <1>1, <2>1 DEF Phases
<1>6. JoinsWait'
  <2> SUFFICES ASSUME NEW n \in Nodes \ Triggers, out'[n] \in Started
               PROVE  /\ \A m \in Before(n) : out'[m] \in Settled
                      /\ \E m \in Before(n) : <<m, n>> \in taken /\ out'[m] \in {"completed", "tolerated"}
    BY <1>1, NothingBeforeChanges DEF JoinsWait
  <2>1. /\ \A m \in Before(n) : out[m] \in Settled
        /\ \E m \in Before(n) : <<m, n>> \in taken /\ out[m] \in {"completed", "tolerated"}
    BY <1>4 DEF RunnerInv, JoinsWait
  <2>2. \A m \in Before(n) : out'[m] = out[m]
    BY <1>4, <2>1 DEF Before
  <2> QED
    BY <2>1, <2>2
<1>7. InputsArePresent'
  <2> SUFFICES ASSUME NEW n \in Nodes \ Triggers, out'[n] \in Started \ {"running"},
                      NEW m \in Before(n), out'[m] = "completed"
               PROVE  m \in sees'[n]
    BY <1>1, NothingBeforeChanges DEF InputsArePresent
  <2>1. m \in Nodes /\ out[m] = "completed"
    BY <1>4 DEF Before
  <2>2. CASE n = k
    BY <1>1, <1>2, <2>1, <2>2
  <2>3. CASE n # k
    BY <1>1, <1>2, <2>1, <2>3 DEF RunnerInv, InputsArePresent
  <2> QED
    BY <2>2, <2>3
<1> QED
  BY <1>3, <1>5, <1>6, <1>7 DEF RunnerInv

\* A node finishes: no node that has started waits for it.
LEMMA FinishNodeHolds ==
  ASSUME RunnerInv, NEW k \in Nodes, FinishNode(k)
  PROVE  RunnerInv'
<1>1. PICK v \in {"completed", "failed", "tolerated"} : out' = [out EXCEPT ![k] = v]
  BY DEF FinishNode
<1>2. out[k] = "working" /\ UNCHANGED <<edges, level, indeg, queue, phase, cur, taken, sees>>
  BY DEF FinishNode, graphVars
<1>3. out \in [Nodes -> Outcome]
  BY DEF RunnerInv, TypeOK
<1>4. TypeOK'
  BY <1>1, <1>2, <1>3 DEF RunnerInv, TypeOK, Outcome, Started, Settled
<1>5. \A m \in Nodes : /\ out[m] \in Settled => out'[m] = out[m]
                       /\ out'[m] \in Started => out[m] \in Started
                       /\ out'[m] \in Started \ {"running"} => out[m] \in Started \ {"running"}
  <2>1. out'[k] \in (Settled \cap Started) \ {"running"} /\ \A m \in Nodes \ {k} : out'[m] = out[m]
    BY <1>1, <1>3 DEF Settled, Started
  <2>2. out[k] \notin Settled /\ out[k] \in Started \ {"running"}
    BY <1>2 DEF Settled, Started
  <2> QED
    BY <2>1, <2>2
<1>6. Phases'
  <2>1. phase \notin {"levels", "completed", "failed"}
    BY <1>2 DEF RunnerInv, Phases, Busy
  <2> QED
    BY <1>2, <2>1 DEF Phases
<1>7. \A n \in Nodes \ Triggers : out'[n] \in Started =>
        /\ \A m \in Before(n) : out[m] \in Settled /\ out'[m] = out[m]
        /\ \E m \in Before(n) : <<m, n>> \in taken /\ out[m] \in {"completed", "tolerated"}
  BY <1>5 DEF RunnerInv, JoinsWait, Before
<1>8. JoinsWait'
  BY <1>2, <1>7, NothingBeforeChanges DEF JoinsWait
<1>9. InputsArePresent'
  BY <1>2, <1>5, <1>7, NothingBeforeChanges DEF RunnerInv, InputsArePresent, Started
<1> QED
  BY <1>4, <1>6, <1>8, <1>9 DEF RunnerInv

\* A run ends when nothing is at work, and as completed only without a failure.
LEMMA EndRunHolds ==
  ASSUME RunnerInv, EndRun
  PROVE  RunnerInv'
<1>1. UNCHANGED <<edges, level, indeg, queue, cur, out, taken, sees>>
  BY DEF EndRun, graphVars
<1>2. Busy = {} /\ (phase' = "failed" \/ (Failed = {} /\ phase' = "completed"))
  BY DEF EndRun
<1>3. TypeOK'
  BY <1>1, <1>2 DEF RunnerInv, TypeOK
<1>4. Phases'
  BY <1>1, <1>2 DEF Phases, Busy, Failed
<1>5. JoinsWait' /\ InputsArePresent'
  BY <1>1, NothingBeforeChanges DEF RunnerInv, JoinsWait, InputsArePresent
<1> QED
  BY <1>3, <1>4, <1>5 DEF RunnerInv

-----------------------------------------------------------------------------
\* The parts of the invariant hold together, in every run.
THEOREM RunnerInvariant == Spec => []RunnerInv
<1>1. Init => RunnerInv
  BY InitHolds
<1>2. RunnerInv /\ [Next]_vars => RunnerInv'
  <2> SUFFICES ASSUME RunnerInv, [Next]_vars PROVE RunnerInv'
    OBVIOUS
  <2>1. CASE (\E n \in Nodes, l \in Depth : Visit(n, l)) \/ LevelsDone
    BY <2>1, LevelStepsHold
  <2>2. CASE BeginLevel
    BY <2>2, BeginLevelHolds
  <2>3. CASE EndRun
    BY <2>3, EndRunHolds
  <2>4. CASE \E n \in Nodes : Interpolate(n)
    BY <2>4, InterpolateHolds
  <2>5. CASE \E n \in Nodes : FinishNode(n)
    BY <2>5, FinishNodeHolds
  <2>6. CASE UNCHANGED vars
    <3>1. TypeOK' /\ Phases'
      BY <2>6 DEF RunnerInv, TypeOK, Phases, Busy, Failed, vars
    <3>2. JoinsWait' /\ InputsArePresent'
      BY <2>6, NothingBeforeChanges DEF RunnerInv, JoinsWait, InputsArePresent, vars
    <3> QED
      BY <3>1, <3>2 DEF RunnerInv
  <2> QED
    BY <2>1, <2>2, <2>3, <2>4, <2>5, <2>6 DEF Next
<1> QED
  BY <1>1, <1>2, PTL DEF Spec

\* Every variable stays within its type.
THEOREM RunnerTypeCorrect == Spec => []TypeOK
<1>1. RunnerInv => TypeOK
  BY DEF RunnerInv
<1> QED
  BY <1>1, RunnerInvariant, PTL

\* A node starts only when everything before it has settled, and an edge from
\* a node that did run lets it.
THEOREM NodesWait == Spec => []JoinsWait
<1>1. RunnerInv => JoinsWait
  BY DEF RunnerInv
<1> QED
  BY <1>1, RunnerInvariant, PTL

\* A node at work has the outputs of everything before it that completed.
THEOREM InputsPresent == Spec => []InputsArePresent
<1>1. RunnerInv => InputsArePresent
  BY DEF RunnerInv
<1> QED
  BY <1>1, RunnerInvariant, PTL

\* After a failure nothing starts, and the run is not reported completed.
THEOREM FailuresStop == Spec => FailureStops
<1>1. RunnerInv /\ [Next]_vars =>
        [Failed # {} => /\ \A n \in Nodes : out[n] = "idle" => out'[n] = "idle"
                        /\ phase' # "completed"]_vars
  <2> SUFFICES ASSUME RunnerInv, Next, Failed # {}
               PROVE  /\ \A n \in Nodes : out[n] = "idle" => out'[n] = "idle"
                      /\ phase' # "completed"
    OBVIOUS
  <2>1. phase \in {"levels", "run", "failed"}
    BY DEF RunnerInv, Phases, TypeOK
  <2>2. CASE (\E n \in Nodes, l \in Depth : Visit(n, l)) \/ LevelsDone
    BY <2>1, <2>2 DEF Visit, LevelsDone
  <2>3. CASE BeginLevel
    BY <2>3 DEF BeginLevel
  <2>4. CASE EndRun
    BY <2>4 DEF EndRun
  <2>5. CASE \E n \in Nodes : Interpolate(n)
    BY <2>1, <2>5 DEF Interpolate, RunnerInv, TypeOK
  <2>6. CASE \E n \in Nodes : FinishNode(n)
    BY <2>1, <2>6 DEF FinishNode, RunnerInv, TypeOK
  <2> QED
    BY <2>2, <2>3, <2>4, <2>5, <2>6 DEF Next
<1> QED
  BY <1>1, RunnerInvariant, PTL DEF Spec, FailureStops

-----------------------------------------------------------------------------
(* computeExecutionLevels is Kahn's algorithm.  Its inductive invariant      *)
(* speaks of the nodes that have been taken from the queue: a node's inDegree*)
(* counts those before it that have not, and its level is one more than the  *)
(* highest level of those that have.                                         *)

\* The runner's workflows: no edge leads into a trigger, and the bound MaxLevel
\* is as large as a level can be.
TriggersStart == \A G \in Graphs : \A e \in G : e[2] \notin Triggers
DepthSuffices == Cardinality(Nodes) <= MaxLevel + 1

InQueue == {n \in Nodes : \E l \in Depth : <<n, l>> \in queue}
Visited == {n \in Nodes \ InQueue : indeg[n] = 0 /\ level[n] # NotAny}

QueueHasLevels == \A n \in Nodes, l \in Depth : <<n, l>> \in queue => level[n] = l /\ indeg[n] = 0
IndegCounts == \A n \in Nodes : indeg[n] = Cardinality(Before(n) \ Visited)

\* The level of node n is one more than the highest level before it, of the
\* visited nodes V.
LevelIsNext(n, V) ==
  IF Before(n) \cap V = {} THEN level[n] = NotAny
  ELSE /\ level[n] # NotAny
       /\ \A m \in Before(n) \cap V : level[m] < level[n]
       /\ \E m \in Before(n) \cap V : level[m] + 1 = level[n]

KahnInv ==
  /\ edges \in Graphs
  /\ phase # "levels" => queue = {}
  /\ QueueHasLevels
  /\ IndegCounts
  /\ \A n \in Triggers : level[n] = 0
  /\ \A n \in Nodes \ Triggers : LevelIsNext(n, Visited)
  /\ \A n \in Nodes : level[n] # NotAny => level[n] <= Cardinality(Visited)

\* The nodes before a node are finitely many.
LEMMA FiniteBefore ==
  ASSUME NEW n \in Nodes, NEW V
  PROVE  IsFiniteSet(Before(n) \ V) /\ Cardinality(Before(n) \ V) \in Nat
         /\ (Cardinality(Before(n) \ V) = 0 <=> Before(n) \subseteq V)
<1>1. IsFiniteSet(Before(n) \ V)
  BY RunnerAssumption, FS_Subset DEF Before
<1>2. Cardinality(Before(n) \ V) = 0 <=> Before(n) \ V = {}
  BY <1>1, FS_EmptySet
<1> QED
  BY <1>1, <1>2, FS_CardinalityType

\* Nothing is visited at first.
LEMMA KahnInit == TriggersStart /\ Init => KahnInv
<1> SUFFICES ASSUME TriggersStart, Init PROVE KahnInv
  OBVIOUS
<1> USE RunnerAssumption
<1>1. Visited = {}
  BY DEF Init, Visited, InQueue, Depth, NotAny
<1>2. \A n \in Triggers : Before(n) = {} /\ n \in Nodes
  BY DEF TriggersStart, Init, Before
<1>3. \A n \in Triggers : indeg[n] = 0
  BY <1>2, FS_EmptySet DEF Init
<1>4. QueueHasLevels
  BY <1>3 DEF QueueHasLevels, Init
<1>5. IndegCounts
  <2>1. \A n \in Nodes : Before(n) \ {} = Before(n)
    OBVIOUS
  <2> QED
    BY <1>1, <2>1 DEF IndegCounts, Init
<1>6. \A n \in Nodes \ Triggers : LevelIsNext(n, Visited)
  BY <1>1 DEF LevelIsNext, Init
<1>7. Cardinality({}) = 0
  BY FS_EmptySet
<1> QED
  BY <1>1, <1>4, <1>5, <1>6, <1>7 DEF KahnInv, Init

\* What a visit of node n at level l does: n is visited, the nodes after it have
\* one edge less to wait for and a level above l, and the rest stays.
LEMMA VisitMoves ==
  ASSUME TypeOK, KahnInv, TriggersStart, DepthSuffices,
         NEW n \in Nodes, NEW l \in Depth, Visit(n, l)
  PROVE  /\ l = level[n] /\ n \notin Visited /\ n \notin After(n) /\ After(n) \cap Visited = {}
         /\ \A k \in InQueue : k \notin After(n)
         /\ \A k \in After(n) : k \in Nodes \ Triggers /\ indeg[k] # 0 /\ n \in Before(k)
         /\ After(n) # {} => l < MaxLevel
         /\ Visited' = Visited \cup {n}
         /\ UNCHANGED <<edges, phase>> /\ phase = "levels"
<1> USE DEF TypeOK
<1>1. /\ level' = [m \in Nodes |-> IF m \in After(n) THEN Raised(m, l) ELSE level[m]]
      /\ indeg' = [m \in Nodes |-> IF m \in After(n) THEN OneLess(indeg[m]) ELSE indeg[m]]
      /\ queue' = (queue \ {<<n, l>>}) \cup {<<m, level'[m]>> : m \in {k \in After(n) : indeg'[k] = 0}}
      /\ <<n, l>> \in queue /\ UNCHANGED <<edges, phase>> /\ phase = "levels"
  BY DEF Visit
<1>2. l = level[n] /\ indeg[n] = 0 /\ n \in InQueue /\ n \notin Visited
  BY <1>1 DEF KahnInv, QueueHasLevels, InQueue, Visited
<1>3. ASSUME NEW k \in After(n)
      PROVE  k \in Nodes \ Triggers /\ indeg[k] # 0 /\ n \in Before(k)
  <2>1. k \in Nodes /\ n \in Before(k) /\ <<n, k>> \in edges
    BY <1>3 DEF After, Before
  <2>2. k \notin Triggers
    BY <2>1 DEF KahnInv, TriggersStart
  <2>3. indeg[k] # 0
    BY <1>2, <2>1, FiniteBefore DEF KahnInv, IndegCounts
  <2> QED
    BY <2>1, <2>2, <2>3
<1>4. /\ n \notin After(n) /\ After(n) \cap Visited = {}
      /\ \A k \in InQueue : k \notin After(n)
  BY <1>2, <1>3 DEF KahnInv, QueueHasLevels, InQueue, Visited
<1>5. ASSUME After(n) # {} PROVE l < MaxLevel
  <2>1. PICK k \in After(n) : TRUE
    BY <1>5
  <2>2. k \in Nodes /\ k # n /\ k \notin Visited /\ Visited \subseteq Nodes
    BY <1>3, <1>4 DEF Visited
  <2>3. Visited \in SUBSET ((Nodes \ {n}) \ {k})
    BY <1>2, <2>2
  <2>4. /\ IsFiniteSet((Nodes \ {n}) \ {k})
        /\ Cardinality((Nodes \ {n}) \ {k}) = Cardinality(Nodes) - 2
    <3>1. IsFiniteSet(Nodes \ {n}) /\ Cardinality(Nodes \ {n}) = Cardinality(Nodes) - 1
      BY RunnerAssumption, FS_RemoveElement
    <3>2. Cardinality((Nodes \ {n}) \ {k}) = Cardinality(Nodes \ {n}) - 1
      BY <2>2, <3>1, FS_RemoveElement
    <3>3. Cardinality(Nodes) \in Nat
      BY RunnerAssumption, FS_CardinalityType
    <3> QED
      BY <3>1, <3>2, <3>3, FS_RemoveElement
  <2>5. Cardinality(Visited) <= Cardinality(Nodes) - 2 /\ Cardinality(Visited) \in Nat
    BY <2>3, <2>4, FS_Subset, FS_CardinalityType
  <2>6. l <= Cardinality(Visited)
    BY <1>2, RunnerAssumption DEF KahnInv, Depth, NotAny
  <2>7. Cardinality(Nodes) \in Nat /\ l \in Nat /\ MaxLevel \in Nat
    BY RunnerAssumption, FS_CardinalityType DEF Depth
  <2> QED
    BY <2>5, <2>6, <2>7 DEF DepthSuffices
<1>6. Visited' = Visited \cup {n}
  <2>1. \A k \in Nodes : k \in InQueue' <=> (k \in InQueue /\ k # n) \/ (k \in After(n) /\ indeg'[k] = 0)
    <3>1. ASSUME NEW k \in Nodes, k \in InQueue' PROVE (k \in InQueue /\ k # n) \/ (k \in After(n) /\ indeg'[k] = 0)
      <4>1. PICK d \in Depth : <<k, d>> \in queue'
        BY <3>1 DEF InQueue
      <4>2. CASE <<k, d>> \in queue \ {<<n, l>>}
        <5>1. k \in InQueue /\ level[k] = d
          BY <4>2 DEF InQueue, KahnInv, QueueHasLevels
        <5> QED
          BY <1>2, <4>2, <5>1
      <4>3. CASE <<k, d>> \in {<<m, level'[m]>> : m \in {j \in After(n) : indeg'[j] = 0}}
        BY <4>3
      <4> QED
        BY <1>1, <4>1, <4>2, <4>3
    <3>2. ASSUME NEW k \in Nodes, k \in InQueue, k # n PROVE k \in InQueue'
      BY <1>1, <3>2 DEF InQueue
    <3>3. ASSUME NEW k \in After(n), indeg'[k] = 0 PROVE k \in InQueue'
      <4>1. k \in Nodes /\ level'[k] \in Depth
        BY <1>1, <1>3, RaisedType
      <4> QED
        BY <1>1, <3>3, <4>1 DEF InQueue
    <3> QED
      BY <3>1, <3>2, <3>3
  <2>2. \A k \in Nodes \ After(n) : level'[k] = level[k] /\ indeg'[k] = indeg[k]
    BY <1>1
  <2>3. n \in Visited'
    BY <1>2, <1>4, <2>1, <2>2, RunnerAssumption DEF Visited, NotAny, Depth
  <2>4. ASSUME NEW k \in Nodes, k # n PROVE k \in Visited' <=> k \in Visited
    BY <1>3, <1>4, <2>1, <2>2, <2>4 DEF Visited
  <2>5. Visited \subseteq Nodes /\ Visited' \subseteq Nodes
    BY DEF Visited
  <2> QED
    BY <2>3, <2>4, <2>5
<1> QED
  BY <1>1, <1>2, <1>3, <1>4, <1>5, <1>6

\* A visit keeps the invariant of the algorithm.
LEMMA VisitKahn ==
  ASSUME TypeOK, KahnInv, TriggersStart, DepthSuffices,
         NEW n \in Nodes, NEW l \in Depth, Visit(n, l)
  PROVE  KahnInv'
<1> USE DEF TypeOK
<1>1. /\ level' = [m \in Nodes |-> IF m \in After(n) THEN Raised(m, l) ELSE level[m]]
      /\ indeg' = [m \in Nodes |-> IF m \in After(n) THEN OneLess(indeg[m]) ELSE indeg[m]]
      /\ queue' = (queue \ {<<n, l>>}) \cup {<<m, level'[m]>> : m \in {k \in After(n) : indeg'[k] = 0}}
  BY DEF Visit
<1>2. /\ l = level[n] /\ n \notin Visited /\ n \notin After(n) /\ After(n) \cap Visited = {}
      /\ \A k \in InQueue : k \notin After(n)
      /\ \A k \in After(n) : k \in Nodes \ Triggers /\ indeg[k] # 0 /\ n \in Before(k)
      /\ After(n) # {} => l < MaxLevel
      /\ Visited' = Visited \cup {n}
      /\ UNCHANGED <<edges, phase>> /\ phase = "levels"
  BY VisitMoves
<1>3. \A k \in Nodes \ After(n) : level'[k] = level[k] /\ indeg'[k] = indeg[k] /\ n \notin Before(k)
  BY <1>1 DEF After, Before
<1>4. \A k \in Nodes : Before(k)' = Before(k)
  BY <1>2, NothingBeforeChanges
<1>5. \A k \in After(n) : level'[k] = IF level[k] = NotAny \/ l + 1 > level[k] THEN l + 1 ELSE level[k]
  BY <1>1, <1>2 DEF Raised
<1>6. QueueHasLevels'
  <2> SUFFICES ASSUME NEW k \in Nodes, NEW d \in Depth, <<k, d>> \in queue'
               PROVE  level'[k] = d /\ indeg'[k] = 0
    BY DEF QueueHasLevels
  <2>1. CASE <<k, d>> \in queue
    BY <1>2, <1>3, <2>1 DEF KahnInv, QueueHasLevels, InQueue
  <2>2. CASE <<k, d>> \in {<<m, level'[m]>> : m \in {j \in After(n) : indeg'[j] = 0}}
    BY <2>2
  <2> QED
    BY <1>1, <2>1, <2>2
<1>7. IndegCounts'
  <2> SUFFICES ASSUME NEW k \in Nodes PROVE indeg'[k] = Cardinality(Before(k) \ Visited')
    BY <1>4 DEF IndegCounts
  <2>0. indeg[k] = Cardinality(Before(k) \ Visited)
    BY DEF KahnInv, IndegCounts
  <2>1. CASE k \in After(n)
    <3>1. Before(k) \ Visited' = (Before(k) \ Visited) \ {n} /\ n \in Before(k) \ Visited
      BY <1>2, <2>1
    <3>2. Cardinality((Before(k) \ Visited) \ {n}) = Cardinality(Before(k) \ Visited) - 1
      BY <3>1, FiniteBefore, FS_RemoveElement
    <3>3. indeg'[k] = indeg[k] - 1
      BY <1>1, <1>2, <2>1 DEF OneLess
    <3> QED
      BY <2>0, <3>1, <3>2, <3>3
  <2>2. CASE k \notin After(n)
    <3>1. Before(k) \ Visited' = Before(k) \ Visited
      BY <1>2, <1>3, <2>2
    <3> QED
      BY <1>3, <2>0, <2>2, <3>1
  <2> QED
    BY <2>1, <2>2
<1>8. \A k \in Triggers : level'[k] = 0
  BY <1>2, <1>3, RunnerAssumption DEF KahnInv
<1>9. \A k \in Nodes \ Triggers : LevelIsNext(k, Visited)'
  <2> SUFFICES ASSUME NEW k \in Nodes \ Triggers
               PROVE  IF Before(k) \cap Visited' = {} THEN level'[k] = NotAny
                      ELSE /\ level'[k] # NotAny
                           /\ \A m \in Before(k) \cap Visited' : level'[m] < level'[k]
                           /\ \E m \in Before(k) \cap Visited' : level'[m] + 1 = level'[k]
    BY <1>4 DEF LevelIsNext
  <2>1. LevelIsNext(k, Visited) /\ Visited \subseteq Nodes
    BY DEF KahnInv, Visited
  <2>2. \A m \in Visited' : level'[m] = level[m] /\ m \in Nodes /\ level[m] \in Nat
    <3>1. \A m \in Visited' : m \in Nodes /\ m \notin After(n) /\ level[m] # NotAny
      BY <1>2, RunnerAssumption DEF Visited, Depth, NotAny
    <3> QED
      BY <1>3, <3>1, RunnerAssumption DEF Depth
  <2>3. CASE k \notin After(n)
    <3>1. Before(k) \cap Visited' = Before(k) \cap Visited /\ level'[k] = level[k]
      BY <1>2, <1>3, <2>3
    <3> QED
      BY <2>1, <2>2, <3>1 DEF LevelIsNext
  <2>4. CASE k \in After(n)
    <3>1. Before(k) \cap Visited' = (Before(k) \cap Visited) \cup {n} /\ level[n] = l /\ level'[n] = l
      BY <1>2, <1>3, <2>4
    <3>2. l \in Nat /\ l < MaxLevel /\ level[k] \in Nat /\ MaxLevel \in Nat
      BY <1>2, <2>4, RunnerAssumption DEF Depth, NotAny
    <3>3. CASE Before(k) \cap Visited = {}
      <4>1. level'[k] = l + 1
        BY <1>5, <2>1, <2>4, <3>3 DEF LevelIsNext
      <4> QED
        BY <3>1, <3>2, <3>3, <4>1 DEF NotAny
    <3>4. CASE Before(k) \cap Visited # {}
      <4>1. /\ level[k] # NotAny
            /\ \A m \in Before(k) \cap Visited : level[m] < level[k]
            /\ \E m \in Before(k) \cap Visited : level[m] + 1 = level[k]
        BY <2>1, <3>4 DEF LevelIsNext
      <4>2. level'[k] = IF l + 1 > level[k] THEN l + 1 ELSE level[k]
        BY <1>5, <2>4, <4>1
      <4>3. level'[k] # NotAny
        BY <3>2, <4>1, <4>2 DEF NotAny
      <4>4. \A m \in Before(k) \cap Visited' : level'[m] < level'[k]
        BY <2>2, <3>1, <3>2, <4>1, <4>2
      <4>5. \E m \in Before(k) \cap Visited' : level'[m] + 1 = level'[k]
        BY <2>2, <3>1, <3>2, <4>1, <4>2
      <4> QED
        BY <3>1, <4>3, <4>4, <4>5
    <3> QED
      BY <3>3, <3>4
  <2> QED
    BY <2>3, <2>4
<1>10. \A k \in Nodes : level'[k] # NotAny => level'[k] <= Cardinality(Visited')
  <2>1. IsFiniteSet(Visited) /\ Cardinality(Visited) \in Nat
    BY RunnerAssumption, FS_Subset, FS_CardinalityType DEF Visited
  <2>2. Cardinality(Visited') = Cardinality(Visited) + 1
    BY <1>2, <2>1, FS_AddElement
  <2>3. level[n] # NotAny /\ l \in Nat
    BY <1>2, RunnerAssumption DEF Depth, NotAny
  <2>4. \A k \in Nodes : level[k] \in Nat
    BY RunnerAssumption DEF Depth, NotAny
  <2>5. l <= Cardinality(Visited)
    BY <1>2, <2>3 DEF KahnInv
  <2> QED
    BY <1>3, <1>5, <2>1, <2>2, <2>3, <2>4, <2>5 DEF KahnInv
<1> QED
  BY <1>2, <1>6, <1>7, <1>8, <1>9, <1>10 DEF KahnInv

\* Only a visit changes what the algorithm computes.
LEMMA KahnNext == TriggersStart /\ DepthSuffices /\ RunnerInv /\ KahnInv /\ [Next]_vars => KahnInv'
<1> SUFFICES ASSUME TriggersStart, DepthSuffices, RunnerInv, KahnInv, [Next]_vars PROVE KahnInv'
  OBVIOUS
<1>1. ASSUME UNCHANGED graphVars, phase = "levels" => phase' = "levels" \/ queue = {} PROVE KahnInv'
  <2>1. Visited' = Visited /\ \A n \in Nodes : Before(n)' = Before(n)
    BY <1>1, NothingBeforeChanges DEF graphVars, Visited, InQueue
  <2>2. QueueHasLevels' /\ IndegCounts' /\ \A n \in Nodes \ Triggers : LevelIsNext(n, Visited)'
    BY <1>1, <2>1 DEF graphVars, KahnInv, QueueHasLevels, IndegCounts, LevelIsNext
  <2> QED
    BY <1>1, <2>1, <2>2 DEF KahnInv, graphVars
<1>2. ASSUME NEW n \in Nodes, NEW l \in Depth, Visit(n, l) PROVE KahnInv'
  BY <1>2, VisitKahn DEF RunnerInv
<1>3. CASE LevelsDone \/ BeginLevel \/ EndRun
  BY <1>1, <1>3 DEF LevelsDone, BeginLevel, EndRun
<1>4. ASSUME NEW n \in Nodes, Interpolate(n) \/ FinishNode(n) PROVE KahnInv'
  BY <1>1, <1>4 DEF Interpolate, FinishNode
<1>5. CASE UNCHANGED vars
  BY <1>1, <1>5 DEF vars, graphVars
<1> QED
  BY <1>2, <1>3, <1>4, <1>5 DEF Next

\* When the queue is empty, every node that depends on triggers alone has been
\* visited: the first of a set of such nodes that had not been would wait for
\* nothing.
LEMMA ReachableVisited ==
  ASSUME TypeOK, KahnInv, TriggersStart, queue = {}, NEW S \in SUBSET Nodes, SelfContained(S)
  PROVE  S \subseteq Visited
<1> SUFFICES ASSUME S \ Visited # {} PROVE FALSE
  OBVIOUS
<1>1. PICK n \in S \ Visited : Before(n) \cap (S \ Visited) = {}
  BY DEF SelfContained
<1>2. n \in Nodes /\ Before(n) \subseteq Nodes
  BY DEF Before
<1>3. Before(n) \subseteq Visited
  <2>1. CASE n \in Triggers
    BY <2>1 DEF KahnInv, TriggersStart, Before
  <2>2. CASE n \notin Triggers
    BY <1>1, <2>2 DEF SelfContained
  <2> QED
    BY <2>1, <2>2
<1>4. indeg[n] = 0
  BY <1>2, <1>3, FiniteBefore DEF KahnInv, IndegCounts
<1>5. level[n] # NotAny
  <2>1. CASE n \in Triggers
    BY <2>1, RunnerAssumption DEF KahnInv, NotAny
  <2>2. CASE n \notin Triggers
    <3>1. Before(n) # {}
      BY <1>1, <2>2 DEF SelfContained
    <3> QED
      BY <1>2, <1>3, <2>2, <3>1 DEF KahnInv, LevelIsNext
  <2> QED
    BY <2>1, <2>2
<1> QED
  BY <1>1, <1>2, <1>4, <1>5 DEF Visited, InQueue

\* What the levels are once they have been computed.
LEMMA LevelsHold ==
  ASSUME TypeOK, KahnInv, TriggersStart, queue = {}, NEW n \in Reachable
  PROVE  /\ n \in Nodes /\ level[n] \in Depth
         /\ n \in Triggers => level[n] = 0
         /\ n \notin Triggers =>
              /\ Before(n) \subseteq Reachable
              /\ \A m \in Before(n) : level[m] < level[n]
              /\ \E m \in Before(n) : level[m] + 1 = level[n]
<1>1. PICK S \in SUBSET Nodes : SelfContained(S) /\ n \in S
  BY DEF Reachable
<1>2. S \subseteq Visited /\ S \subseteq Reachable
  BY <1>1, ReachableVisited DEF Reachable
<1>3. n \in Nodes /\ level[n] \in Depth
  BY <1>1, <1>2 DEF Visited, TypeOK
<1>4. ASSUME n \notin Triggers
      PROVE  /\ Before(n) \subseteq Reachable
             /\ \A m \in Before(n) : level[m] < level[n]
             /\ \E m \in Before(n) : level[m] + 1 = level[n]
  <2>1. Before(n) # {} /\ Before(n) \subseteq S
    BY <1>1, <1>4 DEF SelfContained
  <2>2. Before(n) \cap Visited = Before(n)
    BY <1>2, <2>1
  <2>3. LevelIsNext(n, Visited)
    BY <1>3, <1>4 DEF KahnInv
  <2> QED
    BY <1>2, <2>1, <2>2, <2>3 DEF LevelIsNext
<1> QED
  BY <1>3, <1>4 DEF KahnInv

\* The theorems below are about these facts together.
LEMMA KahnInvariant == ASSUME TriggersStart, DepthSuffices PROVE Spec => [](RunnerInv /\ KahnInv)
<1>1. Init => KahnInv
  BY KahnInit
<1>2. RunnerInv /\ KahnInv /\ [Next]_vars => KahnInv'
  BY KahnNext
<1> QED
  BY <1>1, <1>2, RunnerInvariant, PTL DEF Spec

\* computeExecutionLevels gives every node that depends on triggers alone the
\* length of the longest way to it as its level, in whatever order the queue is
\* served and whatever cycles there are elsewhere in the workflow.
THEOREM LevelsLongest == ASSUME TriggersStart, DepthSuffices PROVE Spec => []LevelsAreLongest
<1>1. RunnerInv /\ KahnInv => LevelsAreLongest
  BY LevelsHold DEF RunnerInv, KahnInv, LevelsAreLongest
<1> QED
  BY <1>1, KahnInvariant, PTL

-----------------------------------------------------------------------------
(* No node is forgotten: at every moment each node with a level up to the    *)
(* current one that depends on triggers alone has begun or has been skipped. *)

ReachedLevels ==
  /\ phase = "levels" => cur = 0 /\ \A n \in Triggers : out[n] = "completed"
  /\ phase # "levels" => \A n \in Reachable : level[n] <= cur => out[n] # "idle"

\* What depends on triggers alone is a matter of the edges.
LEMMA ReachableStays == edges' = edges => Reachable' = Reachable
<1> SUFFICES ASSUME edges' = edges PROVE Reachable' = Reachable
  OBVIOUS
<1>1. \A n : Before(n)' = Before(n)
  BY DEF Before
<1>2. \A S : SelfContained(S)' <=> SelfContained(S)
  BY <1>1 DEF SelfContained
<1> QED
  BY <1>2 DEF Reachable

\* The next level: every node of it that depends on triggers alone is eligible,
\* and so starts or is skipped.
LEMMA BeginLevelReaches ==
  ASSUME RunnerInv, KahnInv, TriggersStart, ReachedLevels, BeginLevel
  PROVE  ReachedLevels'
<1>1. PICK l \in LevelsLeft :
        /\ \A k \in LevelsLeft : l <= k
        /\ cur' = l
        /\ \E T \in SUBSET Open(Eligible(l)) :
             out' = [n \in Nodes |-> IF n \notin Eligible(l) THEN out[n]
                       ELSE IF \E e \in T : e[2] = n THEN "running" ELSE "skipped"]
  BY DEF BeginLevel
<1>2. phase = "run" /\ queue = {} /\ Busy = {} /\ Failed = {} /\ UNCHANGED <<edges, level, phase>>
  BY DEF BeginLevel, graphVars, KahnInv
<1>3. \A n \in Nodes : IF n \in Eligible(l) THEN out'[n] # "idle" ELSE out'[n] = out[n]
  BY <1>1
<1>4. l \in Nat /\ cur \in Nat /\ cur < l
  BY <1>1, RunnerAssumption DEF LevelsLeft, Depth, RunnerInv, TypeOK
<1>5. \A n \in Reachable : level[n] \in Nat /\ n \in Nodes /\ (level[n] <= cur => out[n] # "idle")
        /\ (level[n] > cur => l <= level[n])
  BY <1>1, <1>2, LevelsHold, RunnerAssumption DEF RunnerInv, ReachedLevels, LevelsLeft, Depth
<1>6. ASSUME NEW n \in Reachable, level[n] <= l PROVE out'[n] # "idle"
  <2>1. CASE level[n] <= cur
    BY <1>3, <1>5, <2>1
  <2>2. CASE level[n] > cur /\ out[n] # "idle"
    BY <1>3, <1>5, <2>2
  <2>3. CASE level[n] > cur /\ out[n] = "idle"
    <3>1. level[n] = l /\ n \notin Triggers
      BY <1>2, <1>4, <1>5, <1>6, <2>3, LevelsHold DEF RunnerInv
    <3>2. /\ Before(n) \subseteq Reachable
          /\ \A m \in Before(n) : level[m] < level[n]
      BY <1>2, <3>1, LevelsHold DEF RunnerInv
    <3>3. \A m \in Before(n) : out[m] # "idle" /\ m \in Nodes
      BY <1>4, <1>5, <3>1, <3>2
    <3>4. \A m \in Before(n) : out[m] \in Settled
      BY <1>2, <3>3 DEF RunnerInv, TypeOK, Outcome, Started, Settled, Busy, Failed
    <3>5. n \in Eligible(l)
      BY <1>5, <2>3, <3>1, <3>4 DEF Eligible
    <3> QED
      BY <1>3, <1>5, <3>5
  <2> QED
    BY <1>4, <1>5, <2>1, <2>2, <2>3
<1> QED
  BY <1>1, <1>2, <1>6, ReachableStays DEF ReachedLevels

\* Every step keeps the nodes of the levels begun so far reached.
LEMMA ReachedNext ==
  ASSUME RunnerInv, KahnInv, TriggersStart, ReachedLevels, [Next]_vars
  PROVE  ReachedLevels'
<1>1. ASSUME UNCHANGED <<edges, level, cur, phase>>, \A n \in Nodes : out'[n] = out[n] \/ (out[n] # "idle" /\ out'[n] # "idle"),
             phase # "levels"
      PROVE  ReachedLevels'
  <2>1. Reachable \subseteq Nodes
    BY DEF Reachable
  <2> QED
    BY <1>1, <2>1, ReachableStays DEF ReachedLevels
<1>2. ASSUME NEW n \in Nodes, NEW l \in Depth, Visit(n, l) PROVE ReachedLevels'
  BY <1>2 DEF Visit, ReachedLevels
<1>3. CASE LevelsDone
  <2>1. /\ phase' = "run" /\ cur' = 0 /\ queue = {} /\ UNCHANGED <<edges, out, level>>
        /\ \A n \in Triggers : out[n] = "completed"
    BY <1>3 DEF LevelsDone, graphVars, ReachedLevels
  <2>2. ASSUME NEW n \in Reachable, level[n] <= 0 PROVE out[n] # "idle"
    <3>1. CASE n \in Triggers
      BY <2>1, <3>1
    <3>2. CASE n \notin Triggers
      <4>1. PICK m \in Before(n) : level[m] + 1 = level[n]
        BY <2>1, <3>2, LevelsHold DEF RunnerInv
      <4>2. m \in Reachable
        BY <2>1, <3>2, LevelsHold DEF RunnerInv
      <4>3. level[m] \in Nat
        BY <2>1, <4>2, LevelsHold, RunnerAssumption DEF RunnerInv, Depth
      <4> QED
        BY <2>2, <4>1, <4>3
    <3> QED
      BY <3>1, <3>2
  <2> QED
    BY <2>1, <2>2, ReachableStays DEF ReachedLevels
<1>4. CASE BeginLevel
  BY <1>4, BeginLevelReaches
<1>5. CASE EndRun
  <2>1. phase # "levels" /\ phase' # "levels" /\ UNCHANGED <<edges, level, cur, out>>
    BY <1>5 DEF EndRun, graphVars
  <2> QED
    BY <2>1, ReachableStays DEF ReachedLevels
<1>6. ASSUME NEW n \in Nodes, Interpolate(n) \/ FinishNode(n) PROVE ReachedLevels'
  <2>1. phase # "levels"
    BY <1>6 DEF RunnerInv, Phases, Interpolate, FinishNode
  <2>2. UNCHANGED <<edges, level, cur, phase>>
    BY <1>6 DEF Interpolate, FinishNode, graphVars
  <2>3. \A m \in Nodes : out'[m] = out[m] \/ (out[m] # "idle" /\ out'[m] # "idle")
    BY <1>6 DEF Interpolate, FinishNode, RunnerInv, TypeOK
  <2> QED
    BY <1>1, <2>1, <2>2, <2>3
<1>7. CASE UNCHANGED vars
  BY <1>7, ReachableStays DEF vars, ReachedLevels
<1> QED
  BY <1>2, <1>3, <1>4, <1>5, <1>6, <1>7 DEF Next

\* A run that reports "completed" has run or skipped every node that depends on
\* triggers alone, however the conditions and the order of the nodes turn out.
THEOREM NoneForgotten == ASSUME TriggersStart, DepthSuffices PROVE Spec => []NothingForgotten
<1>1. Init => ReachedLevels
  BY RunnerAssumption DEF Init, ReachedLevels
<1>2. RunnerInv /\ KahnInv /\ ReachedLevels /\ [Next]_vars => ReachedLevels'
  BY ReachedNext
<1> DEFINE Ended == phase = "completed" => LevelsLeft = {}
<1>3. Init => Ended
  BY DEF Init
<1>4. RunnerInv /\ Ended /\ [Next]_vars => Ended'
  <2> SUFFICES ASSUME RunnerInv, Ended, [Next]_vars, phase' = "completed" PROVE LevelsLeft' = {}
    OBVIOUS
  <2>1. UNCHANGED <<level, cur>> /\ LevelsLeft = {}
    <3>1. CASE (\E n \in Nodes, l \in Depth : Visit(n, l)) \/ LevelsDone \/ BeginLevel
      BY <3>1 DEF Visit, LevelsDone, BeginLevel
    <3>2. CASE EndRun
      BY <3>2 DEF EndRun, graphVars
    <3>3. ASSUME NEW n \in Nodes, Interpolate(n) \/ FinishNode(n) PROVE UNCHANGED <<level, cur>> /\ LevelsLeft = {}
      BY <3>3 DEF Interpolate, FinishNode, graphVars
    <3>4. CASE UNCHANGED vars
      BY <3>4 DEF vars
    <3> QED
      BY <3>1, <3>2, <3>3, <3>4 DEF Next
  <2> QED
    BY <2>1 DEF LevelsLeft
<1>5. RunnerInv /\ KahnInv /\ ReachedLevels /\ Ended => NothingForgotten
  <2> SUFFICES ASSUME RunnerInv, KahnInv, ReachedLevels, Ended, phase = "completed", NEW n \in Reachable
               PROVE  out[n] \in Settled \ {"failed"}
    BY DEF NothingForgotten
  <2>1. n \in Nodes /\ level[n] \in Depth
    BY LevelsHold DEF RunnerInv, KahnInv
  <2>2. level[n] <= cur
    BY <2>1, RunnerAssumption DEF LevelsLeft, Depth, RunnerInv, TypeOK
  <2>3. out[n] # "idle" /\ out[n] \notin {"running", "working", "failed"}
    BY <2>1, <2>2 DEF ReachedLevels, RunnerInv, Phases, Busy, Failed
  <2> QED
    BY <2>1, <2>3 DEF RunnerInv, TypeOK, Outcome, Started, Settled
<1> QED
  BY <1>1, <1>2, <1>3, <1>4, <1>5, KahnInvariant, PTL DEF Spec
-----------------------------------------------------------------------------
(* What is safety of RunEnds: a run only goes forward. *)

\* How far the run and a node of it are.
PhaseAt == CASE phase = "levels" -> 0 [] phase = "run" -> 1 [] OTHER -> 2
NodeAt(n) == CASE out[n] = "idle" -> 0 [] out[n] = "running" -> 1 [] out[n] = "working" -> 2 [] OTHER -> 3

\* A step takes nothing back, and takes one thing further: the nodes the
\* algorithm has visited, the phase, the level, or what has become of a node.
StepForward ==
  /\ Visited \subseteq Visited' /\ PhaseAt <= PhaseAt' /\ cur <= cur'
  /\ \A n \in Nodes : NodeAt(n) <= NodeAt(n)'
  /\ Visited # Visited' \/ PhaseAt < PhaseAt' \/ cur < cur' \/ \E n \in Nodes : NodeAt(n) < NodeAt(n)'

LEMMA NextGoesForward ==
  ASSUME RunnerInv, KahnInv, TriggersStart, DepthSuffices, Next
  PROVE  StepForward
<1> USE DEF RunnerInv, TypeOK
<1>1. PhaseAt \in Nat /\ cur \in Nat /\ \A n \in Nodes : NodeAt(n) \in Nat
  BY RunnerAssumption DEF PhaseAt, NodeAt, Depth
<1>2. ASSUME UNCHANGED graphVars PROVE Visited' = Visited
  BY <1>2 DEF graphVars, Visited, InQueue
<1>3. ASSUME NEW n \in Nodes, NEW l \in Depth, Visit(n, l) PROVE StepForward
  <2>1. n \notin Visited /\ Visited' = Visited \cup {n}
    BY <1>3, VisitMoves
  <2>2. UNCHANGED <<phase, cur, out>>
    BY <1>3 DEF Visit
  <2>3. PhaseAt' = PhaseAt /\ \A m \in Nodes : NodeAt(m)' = NodeAt(m)
    BY <2>2 DEF PhaseAt, NodeAt
  <2> QED
    BY <1>1, <2>1, <2>2, <2>3 DEF StepForward
<1>4. CASE LevelsDone \/ EndRun
  <2>1. Visited' = Visited /\ UNCHANGED <<cur, out>>
    BY <1>2, <1>4 DEF LevelsDone, EndRun
  <2>2. \A m \in Nodes : NodeAt(m)' = NodeAt(m)
    BY <2>1 DEF NodeAt
  <2>3. PhaseAt' \in Nat /\ PhaseAt < PhaseAt'
    BY <1>4 DEF LevelsDone, EndRun, PhaseAt
  <2> QED
    BY <1>1, <2>1, <2>2, <2>3 DEF StepForward
<1>5. CASE BeginLevel
  <2>1. PICK l \in LevelsLeft :
          /\ cur' = l
          /\ \E T \in SUBSET Open(Eligible(l)) :
               out' = [n \in Nodes |-> IF n \notin Eligible(l) THEN out[n]
                         ELSE IF \E e \in T : e[2] = n THEN "running" ELSE "skipped"]
    BY <1>5 DEF BeginLevel
  <2>2. Visited' = Visited /\ PhaseAt' = PhaseAt
    BY <1>2, <1>5 DEF BeginLevel, PhaseAt
  <2>3. cur' \in Nat /\ cur < cur'
    BY <1>1, <2>1, RunnerAssumption DEF LevelsLeft, Depth
  <2>4. \A n \in Nodes : out'[n] = out[n] \/ (out[n] = "idle" /\ out'[n] \in {"running", "skipped"})
    BY <2>1 DEF Eligible
  <2>5. \A n \in Nodes : NodeAt(n) <= NodeAt(n)'
    BY <2>4 DEF NodeAt
  <2> QED
    BY <1>1, <2>2, <2>3, <2>5 DEF StepForward
<1>6. ASSUME NEW n \in Nodes, Interpolate(n) \/ FinishNode(n) PROVE StepForward
  <2>1. Visited' = Visited /\ UNCHANGED <<cur, phase>>
    BY <1>2, <1>6 DEF Interpolate, FinishNode
  <2>2. PhaseAt' = PhaseAt
    BY <2>1 DEF PhaseAt
  <2>3. /\ \A m \in Nodes : m # n => out'[m] = out[m]
        /\ \/ out[n] = "running" /\ out'[n] = "working"
           \/ out[n] = "working" /\ out'[n] \in {"completed", "failed", "tolerated"}
    BY <1>6 DEF Interpolate, FinishNode
  <2>4. /\ \A m \in Nodes : m # n => NodeAt(m)' = NodeAt(m)
        /\ NodeAt(n)' \in Nat /\ NodeAt(n) < NodeAt(n)'
    BY <2>3 DEF NodeAt
  <2>5. \A m \in Nodes : NodeAt(m) <= NodeAt(m)'
    BY <1>1, <2>4
  <2> QED
    BY <1>1, <2>1, <2>2, <2>4, <2>5 DEF StepForward
<1> QED
  BY <1>3, <1>4, <1>5, <1>6 DEF Next

\* A run never goes back or in circles, whatever cycles its workflow has: no
\* node is visited or run twice and no level begins again.  As the nodes, the
\* levels and what becomes of a node are finitely many, a run has finitely many
\* steps, which leaves of RunEnds that one is taken as long as there is one.
THEOREM RunsGoForward == ASSUME TriggersStart, DepthSuffices PROVE Spec => [][StepForward]_vars
<1>1. RunnerInv /\ KahnInv /\ [Next]_vars => [StepForward]_vars
  BY NextGoesForward
<1> QED
  BY <1>1, KahnInvariant, PTL DEF Spec
=============================================================================
