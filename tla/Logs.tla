-------------------------------- MODULE Logs --------------------------------
(***************************************************************************)
(* logging.rs: the three log streams a statement's result depends on.      *)
(* The slow-SQL and error logs are written after the result is known and   *)
(* their errors are dropped, so they are left out.                         *)
(*                                                                         *)
(* An append returns Ok, or fails having written nothing, or fails in the  *)
(* flush or sync with its line already in the file.  Each operator below   *)
(* is the set of the outcomes [ok, log] that a call can have.              *)
(***************************************************************************)
EXTENDS Catalog

CONSTANTS Streams,      \* the streams with a path (and, for redo, wal_mode RedoLog)
          LogFaults     \* the streams whose appends may fail

ASSUME LogsAssumption == Streams \subseteq {"undo", "redo", "bin"} /\ LogFaults \subseteq Streams

EmptyLog == [undo |-> <<>>, redo |-> <<>>, bin |-> <<>>]

append_optional_line(log, stream, line) ==
    LET written == [log EXCEPT ![stream] = Append(log[stream], line)]
    IN IF stream \notin Streams THEN {[ok |-> TRUE, log |-> log]}
       ELSE {[ok |-> TRUE, log |-> written]} \cup
            (IF stream \in LogFaults
             THEN {[ok |-> FALSE, log |-> log], [ok |-> FALSE, log |-> written]} ELSE {})

\* An append, and what follows it only if it succeeded (the ? operator).
Then(outcomes, Rest(_)) == UNION {IF o.ok THEN Rest(o.log) ELSE {o} : o \in outcomes}

append_undolog(log, s, snapshot) == append_optional_line(log, "undo", <<s, snapshot>>)
append_redolog(log, event, s) == append_optional_line(log, "redo", <<event, s>>)

\* Before the statement: a mutation's undo snapshot and redo BEGIN, a
\* COMMIT's redo BEGIN.  A failure here returns before anything is executed.
LogBefore(log, s, snapshot) ==
    IF mutates_catalog(s)
    THEN Then(append_undolog(log, s, snapshot),
              LAMBDA l : append_redolog(l, "BEGIN", s))
    ELSE IF commits(s) THEN append_redolog(log, "BEGIN", s)
    ELSE {[ok |-> TRUE, log |-> log]}

\* (mutant) Transaction control leaves no binlog line.
append_binlog_mutations(log, s) ==
    IF mutates_catalog(s) THEN append_optional_line(log, "bin", s)
    ELSE {[ok |-> TRUE, log |-> log]}

\* After a statement that succeeded: its binlog line ...
append_binlog(log, s) ==
    IF mutates_catalog(s) \/ transaction_control(s)
    THEN append_optional_line(log, "bin", s)
    ELSE {[ok |-> TRUE, log |-> log]}

\* (mutant) A failed statement leaves no ABORT.
LogOutcomeNoAbort(log, s, ok) ==
    IF ok /\ (mutates_catalog(s) \/ commits(s)) THEN append_redolog(log, "COMMIT", s)
    ELSE {[ok |-> ok, log |-> log]}

\* ... then redo COMMIT.  After one that failed, redo ABORT, whose own
\* failure is ignored.
LogOutcome(log, s, ok) ==
    IF ~(mutates_catalog(s) \/ commits(s)) THEN {[ok |-> ok, log |-> log]}
    ELSE IF ok THEN append_redolog(log, "COMMIT", s)
    ELSE {[ok |-> FALSE, log |-> o.log] : o \in append_redolog(log, "ABORT", s)}

LogAfter(log, s, ok) ==
    IF ok THEN Then(append_binlog(log, s), LAMBDA l : LogOutcome(l, s, TRUE))
    ELSE LogOutcome(log, s, FALSE)
=============================================================================
