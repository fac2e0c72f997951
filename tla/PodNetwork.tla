------------------------------ MODULE PodNetwork ------------------------------
(***************************************************************************)
(* updateHandler of pkg/server/server.go up to UpdatePod: the addresses    *)
(* and the network of the pod, which the first update sets up, and the     *)
(* network agent. Handlers run side by side and share the fields of Server *)
(* without a lock. The steps of the set-up are pkg/net; iptables, netlink  *)
(* and the metadata service are external.                                  *)
(***************************************************************************)
EXTENDS Integers, Sequences, FiniteSets, SequencesExt

CONSTANTS
    Handlers,       \* the handlers that may serve updates
    Parameters,     \* what an update says: [ip, host, node]
    MaxPosts,       \* bound: updates posted
    MaxBreaks,      \* bound: steps that fail although nothing is wrong
    MaxAgents       \* bound: network agents started

NoIP == ""

ASSUME ParametersAssumption ==
    /\ \A p \in Parameters :
          p.ip \in STRING /\ p.host \in BOOLEAN /\ p.node \in BOOLEAN
    /\ MaxPosts \in Nat /\ MaxBreaks \in Nat /\ MaxAgents \in Nat

VARIABLES
    primaryIP,      \* the fields of Server
    secondaryIP,
    podIP,
    networkAgentCmd, \* the agent that is known, 0 without one
    netNS,          \* the runtime's name space is the pod's
    hpc,            \* per handler: where it is
    stepOf,         \* per handler: the step of the set-up it is at
    asked,          \* per handler: the parameters it decoded
    cmd,            \* per handler: the agent it has just started
    chain,          \* the rules of POD_MASQ_CHAIN
    spaces,         \* how often the path of the name space is mounted
    veth,           \* "none", "host" or "pod": where the peer of veth0 is
    routed,         \* the addresses and routes in the name space are complete
    agents,         \* the agents that run
    waited,         \* the agents whose goroutine has not cleared the field
    posts,          \* updates posted so far
    breaks,         \* failures so far
    started,        \* agents started so far
    configured,     \* history: the parameters of the set-up that succeeded
    raced,          \* history: a handler passed while another set up
    agentRaced      \* history: and while another started an agent

networkVars == <<chain, spaces, veth, routed>>
fieldVars == <<primaryIP, secondaryIP, podIP, netNS>>
agentVars == <<networkAgentCmd, cmd, agents, waited, started, agentRaced>>
updateVars == <<fieldVars, networkVars, agentVars, hpc, stepOf, asked, posts, breaks,
                configured, raced>>

MainIP == "main"
NoParameters == [ip |-> NoIP, host |-> FALSE, node |-> FALSE]

-------------------------------------------------------------------------------
(* The steps of SetupNetNamespace, in order. EnsurePodMasq empties the     *)
(* chain and appends the rules that are not in it.                         *)

\* A rule by its match and target; the three private networks are one.
Rule(match, value, target) == <<match, value, target>>
NoRule == Rule("", "", "")

MasqRules(ip) ==
    <<Rule("other interface", "", "return"), Rule("not from", ip, "return"),
      Rule("to", "private", "return"), Rule("", "", "masquerade")>>

Step(op) == [op |-> op, rule |-> NoRule]

\* Looking the addresses and the interface up and switching forwarding on can
\* only fail, which is a failure of the next step here.
Steps(ip) ==
    IF ip = NoIP THEN <<Step("metadata")>>
    ELSE <<Step("flush")>>
           \o [i \in DOMAIN MasqRules(ip) |-> [op |-> "ensure", rule |-> MasqRules(ip)[i]]]
           \o <<Step("create"), Step("link"), Step("move"), Step("configure")>>

EnsureRule(rule) ==
    chain' = IF rule \in ToSet(chain) THEN chain ELSE Append(chain, rule)

\* (Mutant: the rules of an earlier attempt stay.)
EnsurePodMasq_NoFlush(step) ==
    IF step.op = "ensure" THEN EnsureRule(step.rule) ELSE UNCHANGED chain

EnsurePodMasq(step) ==
    CASE step.op = "flush" -> chain' = <<>>
      [] step.op = "ensure" -> EnsureRule(step.rule)
      [] OTHER -> UNCHANGED chain

\* A path that is mounted already may or may not be opened and mounted again;
\* the name space on top is empty then.
CreateNamespace(step) ==
    IF step.op = "create" THEN spaces' = spaces + 1 ELSE UNCHANGED spaces

\* The pair is created in the host's name space, and one end moved.
CreateVeth(step) ==
    /\ step.op = "link" => veth = "none"
    /\ veth' = CASE step.op = "link" -> "host"
                 [] step.op = "move" -> "pod"
                 [] OTHER -> veth
    /\ routed' = (routed \/ step.op = "configure")

\* What fails without a fault.
Rejected(step) ==
    \/ step.op = "create" /\ spaces > 0
    \/ step.op = "link" /\ veth # "none"

SettingUp(h) == hpc[h] \in {"setup", "primary", "secondary", "address"}

Goes(h, to) == hpc' = [hpc EXCEPT ![h] = to]

\* The handler returns, and its variables are gone.
Answers(h) ==
    /\ Goes(h, "idle")
    /\ asked' = [asked EXCEPT ![h] = NoParameters]

-------------------------------------------------------------------------------
(* The handler.                                                            *)

PostUpdate(h) ==
    /\ hpc[h] = "idle"
    /\ posts < MaxPosts
    /\ posts' = posts + 1
    /\ \E p \in Parameters : asked' = [asked EXCEPT ![h] = p]
    /\ Goes(h, "check")
    /\ UNCHANGED <<fieldVars, networkVars, agentVars, stepOf, breaks, configured, raced>>

CheckAddresses(h) ==
    /\ hpc[h] = "check"
    /\ Goes(h, IF primaryIP = NoIP /\ secondaryIP = NoIP THEN "setup" ELSE "agent")
    /\ raced' = (raced \/ \E g \in Handlers \ {h} : SettingUp(g))
    /\ UNCHANGED <<fieldVars, networkVars, agentVars, stepOf, asked, posts, breaks,
                   configured>>

\* A step of the set-up; the error of one is answered with a 500.
SetUp(h) ==
    LET ip == asked[h].ip
        steps == Steps(ip) IN
    /\ hpc[h] = "setup"
    /\ LET step == steps[stepOf[h]] IN
       \/ /\ EnsurePodMasq(step)
          /\ CreateNamespace(step)
          /\ CreateVeth(step)
          /\ Goes(h, IF stepOf[h] = Len(steps) THEN "primary" ELSE "setup")
          /\ stepOf' = [stepOf EXCEPT ![h] = IF @ = Len(steps) THEN 1 ELSE @ + 1]
          /\ UNCHANGED <<asked, breaks>>
       \/ /\ \/ Rejected(step) /\ UNCHANGED breaks
             \/ breaks < MaxBreaks /\ breaks' = breaks + 1
          /\ Answers(h)
          /\ stepOf' = [stepOf EXCEPT ![h] = 1]
          /\ UNCHANGED networkVars
    /\ UNCHANGED <<fieldVars, agentVars, posts, configured, raced>>

SetPrimary(h) ==
    /\ hpc[h] = "primary"
    /\ primaryIP' = MainIP
    /\ configured' = asked[h]
    /\ Goes(h, "secondary")
    /\ UNCHANGED <<secondaryIP, podIP, netNS, networkVars, agentVars, stepOf, asked, posts,
                   breaks, raced>>

\* Without an address of its own the pod has the host's.
OwnIP(p) == IF p.ip = NoIP THEN MainIP ELSE p.ip

SetSecondary(h) ==
    /\ hpc[h] = "secondary"
    /\ secondaryIP' = OwnIP(asked[h])
    /\ Goes(h, "address")
    /\ UNCHANGED <<primaryIP, podIP, netNS, networkVars, agentVars, stepOf, asked, posts,
                   breaks, configured, raced>>

\* (Mutant: a pod on the host's network gets the name space all the same.)
SetPodNetwork_IgnoresHost(h) ==
    /\ hpc[h] = "address"
    /\ podIP' = secondaryIP
    /\ netNS' = (asked[h].ip # NoIP)
    /\ Goes(h, "agent")
    /\ UNCHANGED <<primaryIP, secondaryIP, networkVars, agentVars, stepOf, asked, posts,
                   breaks, configured, raced>>

SetPodNetwork(h) ==
    /\ hpc[h] = "address"
    /\ podIP' = IF asked[h].host THEN primaryIP ELSE secondaryIP
    /\ netNS' = IF asked[h].host THEN netNS ELSE asked[h].ip # NoIP
    /\ Goes(h, "agent")
    /\ UNCHANGED <<primaryIP, secondaryIP, networkVars, agentVars, stepOf, asked, posts,
                   breaks, configured, raced>>

CheckAgent(h) ==
    /\ hpc[h] = "agent"
    /\ Goes(h, IF networkAgentCmd = 0 /\ asked[h].node THEN "start" ELSE "update")
    /\ agentRaced' = (agentRaced \/ \E g \in Handlers : hpc[g] \in {"start", "record"})
    /\ UNCHANGED <<fieldVars, networkVars, stepOf, asked, posts, breaks, configured, raced,
                   networkAgentCmd, cmd, agents, waited, started>>

\* Not to find or download the program, or to find no kubeconfig, is no error.
NoAgent(h) == Goes(h, "update") /\ UNCHANGED <<started, agents, cmd>>

EnsureNetworkAgent(h) ==
    /\ started < MaxAgents
    /\ started' = started + 1
    /\ agents' = agents \cup {started'}
    /\ cmd' = [cmd EXCEPT ![h] = started']
    /\ Goes(h, "record")

StartAgent(h) ==
    /\ hpc[h] = "start"
    /\ EnsureNetworkAgent(h) \/ NoAgent(h)
    /\ UNCHANGED <<fieldVars, networkVars, stepOf, asked, posts, breaks, configured, raced,
                   networkAgentCmd, waited, agentRaced>>

RecordAgent(h) ==
    /\ hpc[h] = "record"
    /\ networkAgentCmd' = cmd[h]
    /\ waited' = waited \cup {cmd[h]}
    /\ Goes(h, "update")
    /\ UNCHANGED <<fieldVars, networkVars, stepOf, asked, posts, breaks, configured, raced,
                   cmd, agents, started, agentRaced>>

\* The goroutine clears the field, whichever agent it holds by then.
AgentExits(a) ==
    /\ a \in agents
    /\ agents' = agents \ {a}
    /\ UNCHANGED <<fieldVars, networkVars, stepOf, asked, posts, breaks, configured, raced,
                   hpc, networkAgentCmd, waited, cmd, started, agentRaced>>

\* (Mutant: the field is cleared before the agent was waited for.)
Exited_NoWait(a) == TRUE

Exited(a) == a \notin agents

AgentWaited(a) ==
    /\ a \in waited
    /\ Exited(a)
    /\ waited' = waited \ {a}
    /\ networkAgentCmd' = 0
    /\ UNCHANGED <<fieldVars, networkVars, stepOf, asked, posts, breaks, configured, raced,
                   hpc, agents, cmd, started, agentRaced>>

\* UpdatePod, which PodController models.
UpdatePod(h) ==
    /\ hpc[h] = "update"
    /\ Answers(h)
    /\ cmd' = [cmd EXCEPT ![h] = 0]
    /\ UNCHANGED <<fieldVars, networkVars, stepOf, posts, breaks, configured, raced,
                   networkAgentCmd, agents, waited, started, agentRaced>>

UpdateHandler(h) ==
    \/ PostUpdate(h) \/ CheckAddresses(h) \/ SetUp(h)
    \/ SetPrimary(h) \/ SetSecondary(h) \/ SetPodNetwork(h)
    \/ CheckAgent(h) \/ StartAgent(h) \/ RecordAgent(h) \/ UpdatePod(h)

NetworkAgent == \E a \in 1 .. MaxAgents : AgentExits(a) \/ AgentWaited(a)

UpdateInit ==
    /\ primaryIP = NoIP /\ secondaryIP = NoIP /\ podIP = NoIP
    /\ netNS = FALSE
    /\ networkAgentCmd = 0
    /\ hpc = [h \in Handlers |-> "idle"]
    /\ stepOf = [h \in Handlers |-> 1]
    /\ asked = [h \in Handlers |-> NoParameters]
    /\ cmd = [h \in Handlers |-> 0]
    /\ chain = <<>> /\ spaces = 0 /\ veth = "none" /\ routed = FALSE
    /\ agents = {} /\ waited = {}
    /\ posts = 0 /\ breaks = 0 /\ started = 0
    /\ configured = NoParameters
    /\ raced = FALSE /\ agentRaced = FALSE

===============================================================================
