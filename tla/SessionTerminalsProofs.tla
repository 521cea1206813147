----------------------- MODULE SessionTerminalsProofs -----------------------
(***************************************************************************)
(* What SessionTerminals keeps, for any number of starts, requests,        *)
(* containers and restarts.  The session is opaque here: of a step of it   *)
(* only what it does to the terminal is used, and that a step of the       *)
(* terminal leaves the session alone brings over what is proved of it.     *)
(***************************************************************************)
EXTENDS SessionTerminals, SessionLifecycleProofs

tall == <<vars, tvars>>

Live == {"open", "closing", "cut"}
Busy(s) == at[s] = "exec" \/ stream[s] \in Live

\* A start opens its stream once.
NotYet == \A s \in Starts : at[s] \in {"new", "read", "check", "exec"} => stream[s] = "none"

\* Without a race, one start or stream at a time.
Alone == ~raced => \A s, x \in Starts : s # x => ~(Busy(s) /\ Busy(x))

TInv == TerminalTypeOK /\ TableIsLive /\ NotYet /\ Alone /\ OneStream

-----------------------------------------------------------------------------
\* close, on what is registered or not, only marks an open stream as closing.
LEMMA EndOfMarks ==
  ASSUME TerminalTypeOK
  PROVE  /\ EndOf(table, stream) \in [Starts -> {"none", "open", "closing", "cut", "ended"}]
         /\ \A s \in Starts :
              EndOf(table, stream)[s] = IF s = table /\ stream[s] = "open" THEN "closing" ELSE stream[s]
  BY TerminalAssumption DEF EndOf, TerminalTypeOK

\* The death of a container only turns streams that are being read into cut ones.
LEMMA CutMarks ==
  ASSUME NEW str \in [Starts -> {"none", "open", "closing", "cut", "ended"}]
  PROVE  /\ Cut(str) \in [Starts -> {"none", "open", "closing", "cut", "ended"}]
         /\ \A s \in Starts : /\ Cut(str)[s] = "open" => str[s] = "open"
                              /\ Cut(str)[s] \in Live <=> str[s] \in Live
                              /\ str[s] \in {"none", "cut", "ended"} => Cut(str)[s] = str[s]
                              /\ str[s] = "open" => Cut(str)[s] \in {"open", "cut"}
  BY DEF Cut, Live

LEMMA TInitInv == TInit => TInv
  BY TerminalAssumption DEF TInit, TInv, TerminalTypeOK, TableIsLive, NotYet, Alone, OneStream, Busy, Live, Stages

\* Every operation of the terminal keeps the invariant.
LEMMA TerminalKeeps ==
  ASSUME TInv, NEW s \in Starts, Terminal(s), vars' = vars, TypeOK
  PROVE  TInv'
<1> USE DEF TInv, NotYet, TerminalTypeOK, TableIsLive, Alone, OneStream, Busy, Live, Stages, Move
<1>1. CASE LookFirst(s)
  BY <1>1 DEF LookFirst, tvars
<1>2. CASE ReadRow(s)
  <2>1. row.cid \in Boxes \cup {NoBox}
    BY DEF TypeOK
  <2> QED BY <1>2, <2>1 DEF ReadRow
<1>3. CASE FindActive(s)
  BY <1>3 DEF FindActive
<1>4. CASE BeginExec(s)
  <2>1. /\ stream' \in [Starts -> {"none", "open", "closing", "cut", "ended"}]
        /\ \A x \in Starts : stream'[x] = IF x = table /\ stream[x] = "open" THEN "closing" ELSE stream[x]
        /\ table' = NoStart
    BY <1>4, EndOfMarks DEF BeginExec, Close
  <2>2. /\ at' = [at EXCEPT ![s] = "exec"] /\ to' = to
        /\ raced' = (raced \/ \E x \in Starts \ {s} : at[x] = "exec" \/ stream[x] \in Live)
        /\ at[s] = "check"
    BY <1>4 DEF BeginExec
  <2>3. TerminalTypeOK' /\ TableIsLive' /\ NotYet'
    BY <2>1, <2>2, TerminalAssumption
  <2>4. Alone'
    BY <2>1, <2>2
  <2>5. OneStream'
    BY <2>1, <2>2, TerminalAssumption
  <2> QED BY <2>3, <2>4, <2>5
<1>5. CASE OpenStream(s)
  <2>1. TerminalTypeOK' /\ TableIsLive' /\ NotYet'
    BY <1>5, TerminalAssumption DEF OpenStream
  <2>2. Alone' /\ OneStream'
    BY <1>5 DEF OpenStream
  <2> QED BY <2>1, <2>2
<1>6. CASE FailExec(s)
  BY <1>6 DEF FailExec
<1>7. CASE StreamEnds(s)
  <2>1. TerminalTypeOK' /\ TableIsLive' /\ NotYet'
    BY <1>7, TerminalAssumption DEF StreamEnds
  <2>2. Alone' /\ OneStream'
    BY <1>7 DEF StreamEnds
  <2> QED BY <2>1, <2>2
<1> QED BY <1>1, <1>2, <1>3, <1>4, <1>5, <1>6, <1>7 DEF Terminal

\* So does closing it.
LEMMA CloseKeeps ==
  ASSUME TInv, CloseTerminal
  PROVE  TInv'
<1> USE DEF TInv, NotYet, TerminalTypeOK, TableIsLive, Alone, OneStream, Busy, Live
<1>1. /\ stream' \in [Starts -> {"none", "open", "closing", "cut", "ended"}]
      /\ \A x \in Starts : stream'[x] = IF x = table /\ stream[x] = "open" THEN "closing" ELSE stream[x]
      /\ table' = NoStart
  BY EndOfMarks DEF CloseTerminal, Close
<1>2. at' = at /\ to' = to /\ raced' = raced
  BY DEF CloseTerminal
<1> QED BY <1>1, <1>2, TerminalAssumption

\* And every step of the session, with what it does to the terminal.
LEMMA SessionKeeps ==
  ASSUME TInv, SessionStep
  PROVE  TInv'
<1> USE DEF TInv, NotYet, TerminalTypeOK, TableIsLive, Alone, OneStream, Busy
<1>1. CASE Forget
  BY <1>1, TerminalAssumption DEF Forget, Stages, Live
<1>2. CASE /\ table' = NoStart /\ stream' = Cut(EndOf(table, stream))
           /\ UNCHANGED <<at, to, raced>>
  <2> DEFINE str == EndOf(table, stream)
  <2>1. /\ str \in [Starts -> {"none", "open", "closing", "cut", "ended"}]
        /\ \A s \in Starts : str[s] = IF s = table /\ stream[s] = "open" THEN "closing" ELSE stream[s]
    BY EndOfMarks
  <2> HIDE DEF str
  <2>2. \A s \in Starts : /\ stream'[s] = "open" => str[s] = "open"
                          /\ stream'[s] \in Live <=> str[s] \in Live
                          /\ str[s] \in {"none", "cut", "ended"} => stream'[s] = str[s]
    BY <1>2, <2>1, CutMarks DEF str
  <2>3. stream' \in [Starts -> {"none", "open", "closing", "cut", "ended"}]
    BY <1>2, <2>1, CutMarks DEF str
  <2>4. \A s \in Starts : str[s] \in Live <=> stream[s] \in Live
    BY <2>1 DEF Live
  <2>5. TerminalTypeOK' /\ TableIsLive' /\ NotYet'
    BY <1>2, <2>1, <2>2, <2>3, TerminalAssumption
  <2>6. Alone'
    BY <1>2, <2>2, <2>4
  <2>7. OneStream'
    BY <1>2, <2>1, <2>2
  <2> QED BY <2>5, <2>6, <2>7
<1>3. CASE table' = table /\ stream' = Cut(stream) /\ UNCHANGED <<at, to, raced>>
  <2>1. /\ stream' \in [Starts -> {"none", "open", "closing", "cut", "ended"}]
        /\ \A s \in Starts : /\ stream'[s] = "open" => stream[s] = "open"
                             /\ stream'[s] \in Live <=> stream[s] \in Live
                             /\ stream[s] \in {"none", "cut", "ended"} => stream'[s] = stream[s]
                             /\ stream[s] = "open" => stream'[s] \in {"open", "cut"}
    BY <1>3, CutMarks
  <2> QED BY <1>3, <2>1
<1> QED BY <1>1, <1>2, <1>3 DEF SessionStep

-----------------------------------------------------------------------------
\* The terminals leave the session's behaviour as SessionLifecycle has it: every
\* step of the composition is a step of the session or none.
THEOREM TerminalsImplementSession == TSpec => Spec
<1>1. TInit => Init
  BY DEF TInit
<1>2. [TNext]_tall => [Next]_vars
  <2> SUFFICES ASSUME [TNext]_tall PROVE Next \/ vars' = vars
    BY DEF tall
  <2>1. CASE SessionStep
    BY <2>1 DEF SessionStep
  <2>2. CASE CloseTerminal
    BY <2>2 DEF CloseTerminal
  <2>3. CASE \E s \in Starts : Terminal(s)
    BY <2>3 DEF Terminal, LookFirst, ReadRow, FindActive, BeginExec, OpenStream, FailExec, StreamEnds
  <2>4. CASE tall' = tall
    BY <2>4 DEF tall
  <2> QED BY <2>1, <2>2, <2>3, <2>4 DEF TNext
<1> QED BY <1>1, <1>2, PTL DEF TSpec, Spec, tall

\* The inductive invariant of the terminal.
THEOREM TerminalInvariant == TSpec => []TInv
<1>1. TInv /\ TypeOK /\ [TNext]_tall => TInv'
  <2> SUFFICES ASSUME TInv, TypeOK, [TNext]_tall PROVE TInv'
    OBVIOUS
  <2>1. CASE SessionStep
    BY <2>1, SessionKeeps
  <2>2. CASE CloseTerminal
    BY <2>2, CloseKeeps
  <2>3. CASE \E s \in Starts : Terminal(s)
    <3>1. PICK s \in Starts : Terminal(s)
      BY <2>3
    <3>2. vars' = vars
      BY <3>1 DEF Terminal, LookFirst, ReadRow, FindActive, BeginExec, OpenStream, FailExec, StreamEnds
    <3> QED BY <3>1, <3>2, TerminalKeeps
  <2>4. CASE tall' = tall
    BY <2>4 DEF tall, tvars, TInv, TerminalTypeOK, TableIsLive, NotYet, Alone, OneStream, Busy
  <2> QED BY <2>1, <2>2, <2>3, <2>4 DEF TNext
<1>2. TSpec => []TypeOK
  BY TerminalsImplementSession, SessionTypeCorrect, PTL
<1> QED BY <1>1, <1>2, TInitInv, PTL DEF TSpec, tall

\* The table never answers with a stream that was closed or has ended.
THEOREM TableStaysLive == TSpec => []TableIsLive
<1>1. TInv => TableIsLive
  BY DEF TInv
<1> QED BY <1>1, TerminalInvariant, PTL

\* Without a race no stream is left behind.
THEOREM NoStreamLeftBehind == TSpec => []OneStream
<1>1. TInv => OneStream
  BY DEF TInv
<1> QED BY <1>1, TerminalInvariant, PTL

\* What is proved of the session alone holds with its terminals: the work done
\* in it is kept.
THEOREM WorkKeptWithTerminals == TSpec => []WorkKept
  BY TerminalsImplementSession, WorkIsKept, PTL

\* Every variable of the terminals stays within its type.
THEOREM TerminalTypeCorrect == TSpec => []TerminalTypeOK
<1>1. TInv => TerminalTypeOK
  BY DEF TInv
<1> QED BY <1>1, TerminalInvariant, PTL
-----------------------------------------------------------------------------
(* What is safety of EntriesFade. *)

\* A stream that is being read is into a container that runs.
OpenRuns == \A s \in Starts : stream[s] \in {"open", "closing"} => box[to[s]] = "running"

\* An entry of a container that is down is of a stream that is cut, the one that
\* fairness reads to its end.
EntriesAreCut == \A s \in Starts : table = s /\ box[to[s]] # "running" => stream[s] = "cut"

\* A step of the terminal opens a stream into a container that runs only, and
\* chooses the container of a start that has no stream yet.
LEMMA TerminalRuns ==
  ASSUME TInv, OpenRuns, NEW s \in Starts, Terminal(s), vars' = vars
  PROVE  OpenRuns'
<1> USE DEF OpenRuns
<1>1. box' = box
  BY DEF vars
<1>2. CASE ReadRow(s)
  <2>1. stream' = stream /\ stream[s] = "none"
    BY <1>2 DEF ReadRow, TInv, NotYet
  <2>2. \A x \in Starts : x # s => to'[x] = to[x]
    BY <1>2 DEF ReadRow, TInv, TerminalTypeOK
  <2> QED BY <1>1, <2>1, <2>2
<1>3. CASE BeginExec(s)
  <2>1. \A x \in Starts : stream'[x] = IF x = table /\ stream[x] = "open" THEN "closing" ELSE stream[x]
    BY <1>3, EndOfMarks DEF BeginExec, Close, TInv
  <2>2. to' = to
    BY <1>3 DEF BeginExec
  <2> QED BY <1>1, <2>1, <2>2
<1>4. CASE OpenStream(s)
  BY <1>1, <1>4 DEF OpenStream, TInv, TerminalTypeOK
<1>5. CASE StreamEnds(s)
  BY <1>1, <1>5 DEF StreamEnds, TInv, TerminalTypeOK
<1>6. CASE LookFirst(s) \/ FindActive(s) \/ FailExec(s)
  BY <1>1, <1>6 DEF LookFirst, FindActive, FailExec
<1> QED BY <1>2, <1>3, <1>4, <1>5, <1>6 DEF Terminal

\* A step of the session that takes a container down cuts the streams into it.
LEMMA SessionRuns ==
  ASSUME TInv, SessionStep
  PROVE  OpenRuns'
<1>1. CASE Forget
  BY <1>1 DEF Forget, OpenRuns
<1>2. ASSUME NEW str, stream' = Cut(str), UNCHANGED to
      PROVE  OpenRuns'
  BY <1>2 DEF Cut, OpenRuns
<1> QED BY <1>1, <1>2 DEF SessionStep

\* Whatever takes the container of a registered stream down, its entry is one
\* that the end of the stream removes: the run of EntriesFade checks that it
\* does, from here on, under the fairness of the stream.
THEOREM EntriesOfTheDeadAreCut == TSpec => []EntriesAreCut
<1>1. TInit => OpenRuns
  BY DEF TInit, OpenRuns
<1>2. TInv /\ OpenRuns /\ [TNext]_tall => OpenRuns'
  <2> SUFFICES ASSUME TInv, OpenRuns, [TNext]_tall PROVE OpenRuns'
    OBVIOUS
  <2>1. CASE SessionStep
    BY <2>1, SessionRuns
  <2>2. CASE CloseTerminal
    <3>1. \A x \in Starts : stream'[x] = IF x = table /\ stream[x] = "open" THEN "closing" ELSE stream[x]
      BY <2>2, EndOfMarks DEF CloseTerminal, Close, TInv
    <3>2. to' = to /\ box' = box
      BY <2>2 DEF CloseTerminal, vars
    <3> QED BY <3>1, <3>2 DEF OpenRuns
  <2>3. CASE \E s \in Starts : Terminal(s)
    <3>1. PICK s \in Starts : Terminal(s)
      BY <2>3
    <3>2. vars' = vars
      BY <3>1 DEF Terminal, LookFirst, ReadRow, FindActive, BeginExec, OpenStream, FailExec, StreamEnds
    <3> QED BY <3>1, <3>2, TerminalRuns
  <2>4. CASE tall' = tall
    BY <2>4 DEF tall, tvars, vars, OpenRuns
  <2> QED BY <2>1, <2>2, <2>3, <2>4 DEF TNext
<1>3. TInv /\ OpenRuns => EntriesAreCut
  <2> SUFFICES ASSUME TInv, OpenRuns, NEW s \in Starts, table = s, box[to[s]] # "running"
               PROVE  stream[s] = "cut"
    BY DEF EntriesAreCut
  <2>1. stream[s] \in {"open", "cut"}
    BY TerminalAssumption DEF TInv, TableIsLive
  <2> QED BY <2>1 DEF OpenRuns
<1> QED BY <1>1, <1>2, <1>3, TerminalInvariant, PTL DEF TSpec, tall
=============================================================================
