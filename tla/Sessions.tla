------------------------------- MODULE Sessions -------------------------------
(***************************************************************************)
(* One session over a web socket: exec with and without a terminal         *)
(* (pkg/server/exec.go), attach and port-forward (pkg/server/server.go).   *)
(* The socket, the processes and the listener in the pod are external.     *)
(*                                                                         *)
(* An exec'd command may leave a child behind that keeps its output open.  *)
(* What reads a session's input may be slow: its pipe or connection fills  *)
(* up, and the copier of the input is blocked in a write.                  *)
(***************************************************************************)
EXTENDS Naturals, Sequences, FiniteSets

CONSTANTS
    SessionKinds,   \* the sessions a client may open
    MaxLines        \* bound: lines of output

ASSUME SessionsAssumption ==
    /\ SessionKinds \subseteq {"command", "tty", "attach", "forward"}
    /\ MaxLines \in Nat

VARIABLES
    kind,           \* the kind of the session, or "none"
    spc,            \* the handler: where it is
    ws,             \* the socket: "open" or "closed"
    sent,           \* the messages the client got: their channels
    proc,           \* the command, unit or listener: "none", "running" or "ended"
    child,          \* a child of it keeps its output open
    piped,          \* per stream: lines that were written and not copied
    lines,          \* lines written so far
    copier,         \* per stream: "none", "copying", "blocked" or "done"
    joiner          \* the goroutine of waitForFinished: "none", "copiers",
                    \* "process" or "done"

sessionVars == <<kind, spc, ws, sent, proc, child, piped, lines, copier, joiner>>

Streams == {"in", "out", "err"}

\* The output streams that have a pipe of their own.
Outputs == IF kind = "command" THEN {"out", "err"} ELSE {"out"}

Execs == {"command", "tty"}

\* WriteMsg fails on a closed socket, and the message is lost.
Write(channels) == sent' = IF ws = "open" THEN sent \o channels ELSE sent

\* (Mutant: the socket stays open.)
Return_NoCleanup == spc' = "returned" /\ ws' = ws

\* The handlers close the socket when they return.
Return == spc' = "returned" /\ ws' = "closed"

Holds == proc = "running" \/ child

-------------------------------------------------------------------------------
(* Opening a session: the parameters are the first message.                *)

GetInitialParams ==
    /\ spc = "params"
    /\ \/ ws = "closed" /\ Return /\ UNCHANGED sent
       \/ ws = "open" /\ Write(<<"err">>) /\ Return
       \/ ws = "open" /\ spc' = "open" /\ UNCHANGED <<ws, sent>>
    /\ UNCHANGED <<kind, proc, child, piped, lines, copier, joiner>>

ErrorExitcode == <<"err", "code">>

\* runExec: no command, unit, user or process, or one that cannot be started.
ExecFails ==
    /\ spc = "open" /\ kind \in Execs
    /\ Write(ErrorExitcode)
    /\ Return
    /\ UNCHANGED <<kind, proc, child, piped, lines, copier, joiner>>

\* (Mutant: the copier of stderr is not counted.)
Counted_OnlyStdout == {"out"}

\* The copiers the wait group counts.
WaitGroup == Outputs

\* Only an interactive session copies input.
StartExec ==
    /\ spc = "open" /\ kind \in Execs
    /\ proc' = "running"
    /\ \E in \in {"none", "copying"} :
          copier' = [s \in Streams |-> IF s = "in" THEN in
                                      ELSE IF s \in Outputs THEN "copying" ELSE "none"]
    /\ joiner' = "copiers"
    /\ spc' = "wait"
    /\ UNCHANGED <<kind, ws, sent, child, piped, lines>>

\* runAttach: no unit, process, log buffer or input.
AttachFails ==
    /\ spc = "open" /\ kind = "attach"
    /\ Write(<<"err">>)
    /\ Return
    /\ UNCHANGED <<kind, proc, child, piped, lines, copier, joiner>>

\* The unit has a process; an interactive session goes on to the unit's stdin.
StartAttach ==
    /\ spc = "open" /\ kind = "attach"
    /\ proc' = "running"
    /\ spc' \in {"wait", "stdin"}
    /\ UNCHANGED <<kind, ws, sent, child, piped, lines, copier, joiner>>

\* OpenStdinWriter blocks until the pipe has a reader. While it does nobody looks
\* at the socket.
OpenStdinWriter ==
    /\ spc = "stdin" /\ proc = "running"
    /\ copier' = [copier EXCEPT !["in"] = "copying"]
    /\ spc' = "wait"
    /\ UNCHANGED <<kind, ws, sent, proc, child, piped, lines, joiner>>

DialFails ==
    /\ spc = "open" /\ kind = "forward"
    /\ Write(<<"err">>)
    /\ Return
    /\ UNCHANGED <<kind, proc, child, piped, lines, copier, joiner>>

StartForward ==
    /\ spc = "open" /\ kind = "forward"
    /\ proc' = "running"
    /\ Write(<<"out">>)
    /\ copier' = [copier EXCEPT !["in"] = "copying", !["out"] = "copying"]
    /\ spc' = "wait"
    /\ UNCHANGED <<kind, ws, child, piped, lines, joiner>>

-------------------------------------------------------------------------------
(* The command, and the client.                                            *)

WriteLine ==
    /\ Holds
    /\ lines < MaxLines
    /\ lines' = lines + 1
    /\ \E s \in Outputs : piped' = [piped EXCEPT ![s] = @ + 1]
    /\ UNCHANGED <<kind, spc, ws, sent, proc, child, copier, joiner>>

Fork ==
    /\ proc = "running" /\ kind \in Execs
    /\ child' = TRUE
    /\ UNCHANGED <<kind, spc, ws, sent, proc, piped, lines, copier, joiner>>

ProcessEnds ==
    /\ proc = "running"
    /\ proc' = "ended"
    /\ UNCHANGED <<kind, spc, ws, sent, child, piped, lines, copier, joiner>>

ChildEnds ==
    /\ child
    /\ child' = FALSE
    /\ UNCHANGED <<kind, spc, ws, sent, proc, piped, lines, copier, joiner>>

ClientLeaves ==
    /\ ws = "open"
    /\ ws' = "closed"
    /\ UNCHANGED <<kind, spc, sent, proc, child, piped, lines, copier, joiner>>

\* The client sends more than what is at the other end reads, and less again.
InputFillsUp ==
    /\ copier["in"] = "copying" /\ ws = "open" /\ Holds
    /\ copier' = [copier EXCEPT !["in"] = "blocked"]
    /\ UNCHANGED <<kind, spc, ws, sent, proc, child, piped, lines, joiner>>

InputIsRead ==
    /\ copier["in"] = "blocked" /\ Holds
    /\ copier' = [copier EXCEPT !["in"] = "copying"]
    /\ UNCHANGED <<kind, spc, ws, sent, proc, child, piped, lines, joiner>>

\* What the client still sends to a command or listener that has ended cannot be
\* written; a port-forward closes the socket then.
InputFails ==
    /\ copier["in"] = "copying" /\ proc = "ended" /\ ws = "open"
    /\ copier' = [copier EXCEPT !["in"] = "done"]
    /\ ws' = IF kind = "forward" THEN "closed" ELSE ws
    /\ UNCHANGED <<kind, spc, sent, proc, child, piped, lines, joiner>>

-------------------------------------------------------------------------------
(* The copying goroutines.                                                 *)

\* io.Copy of an output: a failing write ends it, and the end of the output.
CopyLine(s) ==
    /\ copier[s] = "copying" /\ piped[s] > 0
    /\ piped' = [piped EXCEPT ![s] = @ - 1]
    /\ Write(<<s>>)
    /\ copier' = [copier EXCEPT ![s] = IF ws = "open" THEN @ ELSE "done"]
    /\ UNCHANGED <<kind, spc, ws, proc, child, lines, joiner>>

\* A handler that returns closes the terminal or the connection it opened.
Severed == kind \in {"forward", "tty"} /\ spc = "returned"

\* The input ends with the socket, but a blocked write only when nobody can read it
\* any more. When a copier of a port-forward ends it closes the socket.
CopierEnds(s) ==
    /\ \/ s = "in" /\ copier[s] = "copying" /\ ws = "closed"
       \/ s = "in" /\ copier[s] = "blocked" /\ (~Holds \/ Severed)
       \/ s # "in" /\ copier[s] = "copying" /\ ((piped[s] = 0 /\ ~Holds) \/ Severed)
    /\ copier' = [copier EXCEPT ![s] = "done"]
    /\ ws' = IF kind = "forward" THEN "closed" ELSE ws
    /\ UNCHANGED <<kind, spc, sent, proc, child, piped, lines, joiner>>

\* The ticker of runAttach: what is in the log buffer, until the unit is seen
\* to have ended; lines that came since the last tick are lost then.
AttachTick ==
    /\ kind = "attach" /\ spc = "wait"
    /\ \/ /\ proc = "ended"
          /\ Write(<<"err">>)
          /\ Return
          /\ UNCHANGED piped
       \/ /\ proc = "running" /\ piped["out"] > 0
          /\ piped' = [piped EXCEPT !["out"] = 0]
          /\ Write([i \in 1 .. piped["out"] |-> "out"])
          /\ IF ws = "open" THEN UNCHANGED <<spc, ws>> ELSE Return
    /\ UNCHANGED <<kind, proc, child, lines, copier, joiner>>

-------------------------------------------------------------------------------
(* waitForFinished, and the end of the other handlers.                     *)

CopiersJoined ==
    /\ joiner = "copiers"
    /\ \A s \in WaitGroup : copier[s] = "done"
    /\ joiner' = "process"
    /\ UNCHANGED <<kind, spc, ws, sent, proc, child, piped, lines, copier>>

\* Whatever the wait returned, an exit code is sent.
ProcessWaited ==
    /\ joiner = "process"
    /\ proc = "ended"
    /\ Write(<<"code">>)
    /\ joiner' = "done"
    /\ UNCHANGED <<kind, spc, ws, proc, child, piped, lines, copier>>

HandlerJoins ==
    /\ spc = "wait" /\ kind \in Execs
    /\ joiner = "done"
    /\ Return
    /\ UNCHANGED <<kind, sent, proc, child, piped, lines, copier, joiner>>

\* (Mutant: the process is left alone.)
KillProcess_Never == proc

\* cmd.Process.Kill; of a process that was waited for it does nothing.
KillProcess == IF proc = "running" THEN "ended" ELSE proc

HandlerSeesClose ==
    /\ spc = "wait"
    /\ ws = "closed"
    /\ Return
    /\ proc' = IF kind \in Execs THEN KillProcess ELSE proc
    /\ UNCHANGED <<kind, sent, child, piped, lines, copier, joiner>>

Session ==
    \/ GetInitialParams \/ ExecFails \/ StartExec
    \/ AttachFails \/ StartAttach \/ OpenStdinWriter \/ DialFails \/ StartForward
    \/ (\E s \in Streams \ {"in"} : CopyLine(s))
    \/ (\E s \in Streams : CopierEnds(s))
    \/ AttachTick \/ CopiersJoined \/ ProcessWaited \/ HandlerJoins \/ HandlerSeesClose

Surroundings ==
    \/ WriteLine \/ Fork \/ ProcessEnds \/ ChildEnds \/ ClientLeaves
    \/ InputFillsUp \/ InputIsRead \/ InputFails

SessionInit(k) ==
    /\ kind = k
    /\ spc = IF k = "none" THEN "returned" ELSE "params"
    /\ ws = IF k = "none" THEN "closed" ELSE "open"
    /\ sent = <<>>
    /\ proc = "none"
    /\ child = FALSE
    /\ piped = [s \in Streams |-> 0]
    /\ lines = 0
    /\ copier = [s \in Streams |-> "none"]
    /\ joiner = "none"

===============================================================================
