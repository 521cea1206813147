--------------------------- MODULE WorkflowRunner ---------------------------
(***************************************************************************)
(* The workflow runner of the executor image (workflow-runner/src/         *)
(* runner.ts): it gives every node of a workflow a level with Kahn's       *)
(* algorithm, runs the levels in order and the nodes of a level in         *)
(* parallel, and skips a node that no incoming edge allows.                *)
(*                                                                         *)
(* An edge is a pair of nodes.  What its condition evaluates to, and       *)
(* whether a node fails (and is then tolerated by its onError), is open.   *)
(* An operator right before the action whose name it begins with is that   *)
(* action with a plausible bug; it tests the properties.                   *)
(***************************************************************************)
EXTENDS Naturals, FiniteSets

CONSTANTS Nodes,     \* definition.nodes
          Triggers,  \* those of a type trigger:*
          Graphs,    \* the sets of edges a workflow may have
          MaxLevel   \* no level beyond is told apart (a bound)

ASSUME RunnerAssumption ==
  /\ IsFiniteSet(Nodes)
  /\ Triggers \subseteq Nodes /\ Triggers # {}
  /\ \A G \in Graphs : G \subseteq Nodes \X Nodes
  /\ MaxLevel \in Nat

Depth    == 0..MaxLevel
NotAny   == MaxLevel + 1      \* the level of a node that got none
Started  == {"running", "working", "completed", "failed", "tolerated"}
Settled  == {"completed", "failed", "tolerated", "skipped"}
Outcome  == {"idle"} \cup Started \cup Settled

VARIABLES
  edges,   \* definition.edges
  phase,   \* computing levels, running, or how the run ended
  level,   \* levels: the level of each node
  indeg,   \* inDegree: the incoming edges not processed yet
  queue,   \* the nodes to process, each with its level
  cur,     \* the level that runs
  out,     \* what has become of each node
  taken,   \* the edges that have let their target run
  sees     \* the nodes whose output a node could use when it began

graphVars == <<edges, level, indeg, queue>>
vars == <<edges, phase, level, indeg, queue, cur, out, taken, sees>>

Before(n) == {m \in Nodes : <<m, n>> \in edges}
After(n)  == {m \in Nodes : <<n, m>> \in edges}

Init ==
  /\ edges \in Graphs
  /\ phase = "levels"
  /\ level = [n \in Nodes |-> IF n \in Triggers THEN 0 ELSE NotAny]
  /\ indeg = [n \in Nodes |-> Cardinality(Before(n))]
  /\ queue = Triggers \X {0}
  /\ cur = 0
  /\ out = [n \in Nodes |-> IF n \in Triggers THEN "completed" ELSE "idle"]
  /\ taken = {}
  /\ sees = [n \in Nodes |-> {}]

-----------------------------------------------------------------------------
(* computeExecutionLevels.  The queue is served in any order.              *)

\* (inDegree.get(neighbor) || 1) - 1
OneLess(d) == IF d = 0 THEN 0 ELSE d - 1

\* The level node m gets from a node of level l.
Raised(m, l) ==
  LET new == IF l < MaxLevel THEN l + 1 ELSE l
  IN  IF level[m] = NotAny \/ new > level[m] THEN new ELSE level[m]

VisitKeepingLevels(n, l) ==
  /\ phase = "levels" /\ <<n, l>> \in queue
  /\ level' = [m \in Nodes |-> IF m \in After(n) /\ level[m] = NotAny THEN Raised(m, l) ELSE level[m]]
  /\ indeg' = [m \in Nodes |-> IF m \in After(n) THEN OneLess(indeg[m]) ELSE indeg[m]]
  /\ queue' = (queue \ {<<n, l>>})
                \cup {<<m, level'[m]>> : m \in {k \in After(n) : indeg'[k] = 0}}
  /\ UNCHANGED <<edges, phase, cur, out, taken, sees>>
VisitEagerly(n, l) ==
  /\ phase = "levels" /\ <<n, l>> \in queue
  /\ level' = [m \in Nodes |-> IF m \in After(n) THEN Raised(m, l) ELSE level[m]]
  /\ indeg' = [m \in Nodes |-> IF m \in After(n) THEN OneLess(indeg[m]) ELSE indeg[m]]
  /\ queue' = (queue \ {<<n, l>>}) \cup {<<m, level'[m]>> : m \in After(n)}
  /\ UNCHANGED <<edges, phase, cur, out, taken, sees>>
Visit(n, l) ==
  /\ phase = "levels" /\ <<n, l>> \in queue
  /\ level' = [m \in Nodes |-> IF m \in After(n) THEN Raised(m, l) ELSE level[m]]
  /\ indeg' = [m \in Nodes |-> IF m \in After(n) THEN OneLess(indeg[m]) ELSE indeg[m]]
  /\ queue' = (queue \ {<<n, l>>})
                \cup {<<m, level'[m]>> : m \in {k \in After(n) : indeg'[k] = 0}}
  /\ UNCHANGED <<edges, phase, cur, out, taken, sees>>

LevelsDone ==
  /\ phase = "levels" /\ queue = {}
  /\ phase' = "run"
  /\ UNCHANGED <<graphVars, cur, out, taken, sees>>

-----------------------------------------------------------------------------
(* executeWorkflow. *)

Busy == {n \in Nodes : out[n] \in {"running", "working"}}
Failed == {n \in Nodes : out[n] = "failed"}
LevelsLeft == {l \in Depth : l > cur /\ \E n \in Nodes : level[n] = l}

\* The eligible nodes of level l: what they depend on has been processed.
Eligible(l) ==
  {n \in Nodes : level[n] = l /\ out[n] = "idle" /\ \A m \in Before(n) : out[m] \in Settled}

\* The incoming edges that are evaluated at all: their source was not skipped,
\* and did not fail unless that is tolerated.
Open(N) == {e \in edges : e[2] \in N /\ out[e[1]] \in {"completed", "tolerated"}}

\* The next level: all conditions are evaluated before the first await of any
\* of its nodes, and every node either starts or is skipped.
BeginLevelUnfiltered ==
  /\ phase = "run" /\ Busy = {} /\ Failed = {}
  /\ \E l \in LevelsLeft :
       LET N == {n \in Nodes : level[n] = l /\ out[n] = "idle"}
       IN  /\ \A k \in LevelsLeft : l <= k
           /\ cur' = l
           /\ \E T \in SUBSET Open(N) :
                /\ taken' = taken \cup T
                /\ out' = [n \in Nodes |-> IF n \notin N THEN out[n]
                             ELSE IF \E e \in T : e[2] = n THEN "running" ELSE "skipped"]
  /\ UNCHANGED <<graphVars, phase, sees>>
BeginLevel ==
  /\ phase = "run" /\ Busy = {} /\ Failed = {}
  /\ \E l \in LevelsLeft :
       /\ \A k \in LevelsLeft : l <= k
       /\ cur' = l
       /\ \E T \in SUBSET Open(Eligible(l)) :
            /\ taken' = taken \cup T
            /\ out' = [n \in Nodes |-> IF n \notin Eligible(l) THEN out[n]
                         ELSE IF \E e \in T : e[2] = n THEN "running" ELSE "skipped"]
  /\ UNCHANGED <<graphVars, phase, sees>>

\* Past the await of node:started, the configuration of the node is filled in
\* with the outputs there are by now.
Interpolate(n) ==
  /\ out[n] = "running"
  /\ out' = [out EXCEPT ![n] = "working"]
  /\ sees' = [sees EXCEPT ![n] = {m \in Nodes : out[m] = "completed"}]
  /\ UNCHANGED <<graphVars, phase, cur, taken>>

\* The executor returns or throws.
FinishNode(n) ==
  /\ out[n] = "working"
  /\ \E v \in {"completed", "failed", "tolerated"} : out' = [out EXCEPT ![n] = v]
  /\ UNCHANGED <<graphVars, phase, cur, taken, sees>>

\* The run is over: a level has failed, or none is left.
EndRunOneLevelEarly ==
  /\ phase = "run" /\ Busy = {}
  /\ \/ Failed # {} /\ phase' = "failed"
     \/ Failed = {} /\ Cardinality(LevelsLeft) <= 1 /\ phase' = "completed"
  /\ UNCHANGED <<graphVars, cur, out, taken, sees>>
EndRun ==
  /\ phase = "run" /\ Busy = {}
  /\ \/ Failed # {} /\ phase' = "failed"
     \/ Failed = {} /\ LevelsLeft = {} /\ phase' = "completed"
  /\ UNCHANGED <<graphVars, cur, out, taken, sees>>

Next ==
  \/ \E n \in Nodes, l \in Depth : Visit(n, l)
  \/ LevelsDone \/ BeginLevel \/ EndRun
  \/ \E n \in Nodes : Interpolate(n) \/ FinishNode(n)

Spec == Init /\ [][Next]_vars

\* One process, which does not stop by itself; the executors of the nodes
\* return in the end.
FairSpec == Spec /\ WF_vars(Next)

-----------------------------------------------------------------------------
\* Every variable stays within its type.
TypeOK ==
  /\ edges \subseteq Nodes \X Nodes
  /\ phase \in {"levels", "run", "completed", "failed"}
  /\ level \in [Nodes -> Depth \cup {NotAny}]
  /\ indeg \in [Nodes -> Nat]
  /\ queue \subseteq Nodes \X Depth
  /\ cur \in Depth
  /\ out \in [Nodes -> Outcome]
  /\ taken \subseteq edges
  /\ sees \in [Nodes -> SUBSET Nodes]

\* "This node waits for all incoming edges (handled by runner)": a node that
\* has started has nothing before it that could still run, and an edge from a
\* node that did run has let it start.
JoinsWait ==
  \A n \in Nodes \ Triggers : out[n] \in Started =>
    /\ \A m \in Before(n) : out[m] \in Settled
    /\ \E m \in Before(n) : <<m, n>> \in taken /\ out[m] \in {"completed", "tolerated"}

\* A node at work has the outputs of everything before it that completed: no
\* output is late, although the nodes of a level finish in any order.
InputsArePresent ==
  \A n \in Nodes \ Triggers : out[n] \in Started \ {"running"} =>
    \A m \in Before(n) : out[m] = "completed" => m \in sees[n]

\* A set of nodes that needs nothing outside of it and has no cycle.
SelfContained(S) ==
  /\ \A n \in S : n \in Triggers \/ (Before(n) # {} /\ Before(n) \subseteq S)
  /\ \A C \in SUBSET S \ {{}} : \E n \in C : Before(n) \cap C = {}

\* The nodes that depend on triggers alone, without a cycle.
Reachable == UNION {S \in SUBSET Nodes : SelfContained(S)}

\* Kahn's algorithm: the level of such a node is the length of the longest way
\* to it from a trigger.
LevelsAreLongest ==
  phase # "levels" =>
    \A n \in Reachable :
      IF n \in Triggers THEN level[n] = 0
      ELSE /\ \A m \in Before(n) : level[m] < level[n]
           /\ \E m \in Before(n) : level[m] + 1 = level[n]

\* A run that reports "completed" has run or skipped every node that depends
\* on triggers alone.
NothingForgotten ==
  phase = "completed" => \A n \in Reachable : out[n] \in Settled \ {"failed"}

\* After a failure that is not tolerated no further node starts, and the run
\* is not reported completed.
FailureStops ==
  [][Failed # {} => /\ \A n \in Nodes : out[n] = "idle" => out'[n] = "idle"
                    /\ phase' # "completed"]_vars

\* Every run ends.
RunEnds == <>(phase \in {"completed", "failed"})
=============================================================================
