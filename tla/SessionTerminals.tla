-------------------------- MODULE SessionTerminals --------------------------
(***************************************************************************)
(* One terminal of a session, together with the session it belongs to      *)
(* (terminal-manager.service.ts, the terminal routes of                    *)
(* sessions.controller.ts and session:attach of events.gateway.ts).        *)
(*                                                                         *)
(* The API server has one table of terminals by id; a start is a chain of  *)
(* awaits that looks into it before and writes it after, and every stream  *)
(* removes the entry of its id when it ends, whichever stream that entry   *)
(* is of by then.  The session goes on meanwhile: stop, delete and         *)
(* recreate close its terminals at one point of theirs.                    *)
(***************************************************************************)
EXTENDS SessionLifecycle

CONSTANTS Starts,    \* calls that start the terminal, and the streams they open
          Attaches,  \* those of the command line, by session:attach
          NoStart    \* no entry

ASSUME TerminalAssumption == Attaches \subseteq Starts /\ NoStart \notin Starts

VARIABLES
  table,   \* the stream registered for the terminal
  stream,  \* each stream; closing: end() was called, cut: its process is gone
  at,      \* where each start is
  to,      \* the container it read
  raced    \* a start has met another start, or a stream that had not ended

tvars == <<table, stream, at, to, raced>>

Stages == {"new", "read", "check", "exec", "started", "active", "refused", "failed", "lost"}

TInit ==
  /\ Init
  /\ table = NoStart /\ raced = FALSE
  /\ stream = [s \in Starts |-> "none"]
  /\ at = [s \in Starts |-> "new"]
  /\ to = [s \in Starts |-> NoBox]

-----------------------------------------------------------------------------
\* close: the stream is only asked to end; its output may still come.
EndOf(t, str) ==
  IF t # NoStart /\ str[t] = "open" THEN [str EXCEPT ![t] = "closing"] ELSE str

Close == table' = NoStart /\ stream' = EndOf(table, stream)

Move(s, p) == at' = [at EXCEPT ![s] = p]

\* An attach looks into the table before it reads the row.
LookFirst(s) ==
  /\ s \in Attaches /\ at[s] = "new"
  /\ Move(s, IF table # NoStart THEN "active" ELSE "read")
  /\ UNCHANGED <<table, stream, to, raced, vars>>

\* findOne and the checks of the status and the container.
ReadRow(s) ==
  /\ at[s] = IF s \in Attaches THEN "read" ELSE "new"
  /\ IF row.status = "RUNNING" /\ row.cid # NoBox
       THEN Move(s, "check") /\ to' = [to EXCEPT ![s] = row.cid]
       ELSE Move(s, "refused") /\ UNCHANGED to
  /\ UNCHANGED <<table, stream, raced, vars>>

\* isActive, which only the panel's route asks here.
FindActive(s) ==
  /\ at[s] = "check" /\ s \notin Attaches /\ table # NoStart
  /\ Move(s, "active")
  /\ UNCHANGED <<table, stream, to, raced, vars>>

\* start, up to the first await: it closes what is registered.
BeginExec(s) ==
  /\ at[s] = "check" /\ (s \in Attaches \/ table = NoStart)
  /\ Close
  /\ Move(s, "exec")
  /\ raced' = (raced \/ \E x \in Starts \ {s} : at[x] = "exec" \/ stream[x] \in {"open", "closing", "cut"})
  /\ UNCHANGED <<to, vars>>

\* exec and its start in the container; then the entry is written.
OpenStream(s) ==
  /\ at[s] = "exec" /\ box[to[s]] = "running"
  /\ stream' = [stream EXCEPT ![s] = "open"]
  /\ table' = s
  /\ Move(s, "started")
  /\ UNCHANGED <<to, raced, vars>>

FailExecUnnamed(s) ==
  /\ at[s] = "exec"
  /\ Move(s, "error")
  /\ UNCHANGED <<table, stream, to, raced, vars>>
FailExec(s) ==
  /\ at[s] = "exec"
  /\ Move(s, "failed")
  /\ UNCHANGED <<table, stream, to, raced, vars>>

\* The handler of end and error: it deletes the entry of the terminal's id.
StreamEndsQuietly(s) ==
  /\ stream[s] \in {"open", "closing", "cut"}
  /\ stream' = [stream EXCEPT ![s] = "ended"]
  /\ UNCHANGED <<table, at, to, raced, vars>>
StreamEnds(s) ==
  /\ stream[s] \in {"open", "closing", "cut"}
  /\ stream' = [stream EXCEPT ![s] = "ended"]
  /\ table' = NoStart
  /\ UNCHANGED <<at, to, raced, vars>>

\* A person closes the terminal.
CloseTerminalLeaving ==
  /\ table # NoStart
  /\ table' = NoStart
  /\ UNCHANGED <<stream, at, to, raced, vars>>
CloseTerminalKeeping ==
  /\ table # NoStart
  /\ stream' = EndOf(table, stream)
  /\ UNCHANGED <<table, at, to, raced, vars>>
CloseTerminal ==
  /\ table # NoStart
  /\ Close
  /\ UNCHANGED <<at, to, raced, vars>>

Terminal(s) ==
  LookFirst(s) \/ ReadRow(s) \/ FindActive(s) \/ BeginExec(s) \/ OpenStream(s) \/ FailExec(s) \/ StreamEnds(s)

-----------------------------------------------------------------------------
(* The session.  A step of it that stops a container cuts the streams into *)
(* it; one that passes closeByPrefix closes the terminal as well.          *)

\* stop and delete call closeByPrefix right after findOne, recreate after the
\* snapshot.
ClosesTerminals(r) ==
  /\ op'[r] \in {"stop", "delete", "recreate"}
  /\ pc[r] \in {"idle", "apply", "inspect", "commit"}
  /\ pc'[r] \in {"mark", "halt", "erase", "build"}

Cut(str) ==
  [s \in Starts |-> IF str[s] \in {"open", "closing"} /\ box'[to[s]] # "running" THEN "cut" ELSE str[s]]

\* A restart of the server drops its connections and its table.
Forget ==
  /\ table' = NoStart
  /\ stream' = [s \in Starts |-> IF stream[s] = "none" THEN "none" ELSE "ended"]
  /\ at' = [s \in Starts |-> IF at[s] \in {"read", "check", "exec"} THEN "lost" ELSE at[s]]
  /\ UNCHANGED <<to, raced>>

SessionStep ==
  /\ Next
  /\ \/ crashes' # crashes /\ Forget
     \/ /\ crashes' = crashes
        /\ IF \E r \in Requests : ClosesTerminals(r)
             THEN table' = NoStart /\ stream' = Cut(EndOf(table, stream))
             ELSE table' = table /\ stream' = Cut(stream)
        /\ UNCHANGED <<at, to, raced>>

TNext == SessionStep \/ CloseTerminal \/ \E s \in Starts : Terminal(s)

TSpec == TInit /\ [][TNext]_<<vars, tvars>>

\* A stream whose process is gone is read to its end.
FairTSpec == TSpec /\ \A s \in Starts : WF_<<vars, tvars>>(stream[s] = "cut" /\ StreamEnds(s))

-----------------------------------------------------------------------------
\* Every variable of the terminal stays within its type.
TerminalTypeOK ==
  /\ table \in Starts \cup {NoStart}
  /\ stream \in [Starts -> {"none", "open", "closing", "cut", "ended"}]
  /\ at \in [Starts -> Stages]
  /\ to \in [Starts -> Boxes \cup {NoBox}]
  /\ raced \in BOOLEAN

\* What the table answers with is never a stream that was closed or has ended:
\* whatever starts, closes, ends and session operations overlap, input of a
\* terminal does not go into a stream nobody reads.
TableIsLive == table # NoStart => stream[table] \in {"open", "cut"}

\* As long as no start has met another one, or a stream that had not ended, an
\* open stream is the one in the table: none is left behind that doubles the
\* output and that closing the terminal would miss.
OneStream == ~raced => \A s \in Starts : stream[s] = "open" => table = s

\* An entry whose container is down does not stay, so that the next start is
\* not answered "already_active" for good, whatever becomes of the session.
EntriesFade ==
  \A s \in Starts : (table = s /\ box[to[s]] # "running") ~> table # s
=============================================================================
