-------------------------------- MODULE Server --------------------------------
(***************************************************************************)
(* What the HTTP server of pkg/server/server.go serves: updates of the     *)
(* pod, or a session. Sessions share no state with updates beyond the      *)
(* address of the pod, and so a behaviour has the one or the other.        *)
(***************************************************************************)
EXTENDS PodNetwork, Sessions

vars == <<updateVars, sessionVars>>

Init ==
    /\ UpdateInit
    /\ \E k \in SessionKinds \cup {"none"} : SessionInit(k)

Serve ==
    /\ kind = "none"
    /\ (\E h \in Handlers : UpdateHandler(h)) \/ NetworkAgent
    /\ UNCHANGED sessionVars

Next ==
    \/ Serve
    \/ Session /\ UNCHANGED updateVars
    \/ Surroundings /\ UNCHANGED updateVars

\* Every goroutine of a session is scheduled; nothing is assumed of the client
\* and of the command.
Fairness == WF_vars(Session /\ UNCHANGED updateVars)

Spec == Init /\ [][Next]_vars /\ Fairness

-------------------------------------------------------------------------------
(* Properties.                                                             *)

\* The rules that some update asks for.
AllRules == UNION {ToSet(MasqRules(p.ip)) : p \in Parameters}

TypeOK ==
    /\ primaryIP \in {NoIP, MainIP}
    /\ hpc \in [Handlers -> {"idle", "check", "setup", "primary", "secondary",
                             "address", "agent", "start", "record", "update"}]
    /\ asked \in [Handlers -> Parameters \cup {NoParameters}]
    /\ networkAgentCmd \in 0 .. started
    /\ agents \subseteq 1 .. started /\ waited \subseteq 1 .. started
    /\ veth \in {"none", "host", "pod"}
    /\ spaces \in Nat
    /\ chain \in Seq(AllRules)
    /\ spc \in {"params", "open", "stdin", "wait", "returned"}
    /\ ws \in {"open", "closed"}
    /\ copier \in [Streams -> {"none", "copying", "blocked", "done"}]
    /\ \A s \in Streams : piped[s] \in 0 .. MaxLines
    /\ joiner \in {"none", "copiers", "process", "done"}
    /\ spc = "returned" => ws = "closed"

\* An update only gets to the controller when the network is complete, with
\* the addresses of the update that set it up - unless a handler looked at the
\* addresses while another was still setting them (server.go:187-212).
NetworkIsReady ==
    \A h \in Handlers :
      hpc[h] \in {"agent", "start", "record", "update"} /\ ~raced =>
        /\ primaryIP = MainIP
        /\ secondaryIP = OwnIP(configured)
        /\ podIP = IF configured.host THEN primaryIP ELSE secondaryIP
        /\ netNS <=> ~configured.host /\ configured.ip # NoIP
        /\ configured.ip # NoIP => veth = "pod" /\ routed

\* The rules are the documented ones in the documented order, also after
\* attempts that failed half-way or were for another address: only the pod's
\* traffic is masqueraded, and none to private addresses (masq.go:25-35).
MasqueradesPodOnly ==
    primaryIP # NoIP /\ configured.ip # NoIP /\ ~raced =>
        chain = MasqRules(configured.ip)

\* An agent that runs is the one the server knows or is just about to record:
\* a second one is only started by handlers that overlap (server.go:159-173).
OneNetworkAgent ==
    ~agentRaced =>
        /\ Cardinality(agents) <= 1
        /\ \A a \in agents :
             networkAgentCmd = a \/ \E h \in Handlers : hpc[h] = "record" /\ cmd[h] = a

\* "otherwise we might end up sending the exitcode while there is still
\* outstanding output" (exec.go:252-254): the exit code of a command comes
\* after every line that it and its children wrote.
ExitCodeIsLast ==
    joiner = "done" /\ "code" \in {sent[i] : i \in DOMAIN sent} =>
        Len(sent) = lines + 1 /\ sent[Len(sent)] = "code"

Quiet == /\ \A s \in Streams : copier[s] \in {"none", "done"}
         /\ joiner \in {"none", "done"}

\* An interactive attach hangs in the stdin of its unit: the handler opens the pipe of
\* a unit that ended after the look at its process, or a copier writes to a full pipe
\* of a unit that runs on and does not read (server.go:496,515,523, unit.go:239-246).
HangsInStdin ==
    kind = "attach" /\ \/ spc = "stdin" /\ proc = "ended"
                       \/ copier["in"] = "blocked" /\ proc = "running"

\* When the client leaves or the command, unit or listener ends, the session
\* ends: the handler returns, an exec'd command does not run on, and no
\* goroutine is left. Only a child that keeps the output open holds it up, or
\* an attach that hangs in the unit's stdin.
SessionsEnd ==
    (ws = "closed" \/ proc = "ended") ~>
        \/ spc = "returned" /\ (kind \in Execs => proc # "running") /\ Quiet
        \/ child
        \/ HangsInStdin

===============================================================================
