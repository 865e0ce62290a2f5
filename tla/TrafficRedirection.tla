--------------------------- MODULE TrafficRedirection ---------------------------
(***************************************************************************)
(* The init container (sentinel-init/cmd/main.go): it runs one iptables     *)
(* command after the other in the network namespace of the pod, ignores the *)
(* ones that fail, and is run again, in the same namespace, when it crashes *)
(* or when the kubelet has lost track of it.                                *)
(*                                                                         *)
(* A rule's condition is the set of the packets that meet it.  Packets are  *)
(* told apart by what the rules look at.  Chains are named table/chain.     *)
(***************************************************************************)
EXTENDS Naturals, Sequences, FiniteSetsExt, SequencesExt

CONSTANTS
    ServicePort,    \* -servicePort
    OutboundPort,   \* -outboundPort
    ExcludePorts,   \* the ports an -excludePorts may name, a sequence
    Others,         \* ports that no rule names
    MaxReruns,      \* bound: how often the container is run again
    MaxFaults       \* bound: commands that fail for no reason of their own, in all runs

ASSUME PortsAssumption ==
    /\ {ServicePort, OutboundPort} \subseteq Nat /\ ExcludePorts \in Seq(Nat) /\ Others \subseteq Nat
    /\ {ServicePort, OutboundPort} \cap Others = {}
    /\ ToSet(ExcludePorts) \cap Others = {}
    /\ {443, 9090} \cap Others = {}
    /\ MaxReruns \in Nat /\ MaxFaults \in Nat

Ports == {443, 9090, ServicePort, OutboundPort} \cup ToSet(ExcludePorts) \cup Others

\* A packet that comes in at PREROUTING, or goes out at OUTPUT, sent by the proxy
\* (-m owner --uid-owner 1337) or by the app, to another host or to the pod itself.
Packets ==
    [hook : {"in"}, owner : {"peer"}, to : {"pod"},
     port : Ports, state : {"new", "established"}]
    \cup
    [hook : {"out"}, owner : {"proxy", "app"}, to : {"pod", "elsewhere"},
     port : Ports, state : {"new", "established"}]

Tcp == Packets
OwnedByProxy == {p \in Packets : p.owner = "proxy"}
Established == {p \in Packets : p.state = "established"}
Dport(port) == {p \in Packets : p.port = port}

VARIABLES
    mode,       \* -mode
    dryRun,     \* -dryRun
    exclude,    \* -excludePorts, a sequence of ports
    chains,     \* the chains that exist, and their rules
    routing,    \* what "ip rule" and "ip route" have added
    todo,       \* the commands that are left
    status,     \* "running", or "success" with the last line of the log
    reruns,     \* history: how often the container has been run again
    faults,     \* history: the faults of this run
    earlier     \* history: the faults of the runs before it

vars == <<mode, dryRun, exclude, chains, routing, todo, status, reruns, faults, earlier>>

-----------------------------------------------------------------------------
(* The commands                                                             *)

New(chain) == [op |-> "-N", chain |-> chain]
Flush(table) == [op |-> "-F", table |-> table]
Add(chain, match, target) ==
    [op |-> "-A", chain |-> chain, rule |-> [match |-> match, target |-> target]]
Ip(what) == [op |-> "ip", what |-> what]

\* A command for every port of a sequence.
ForPorts(ports, chain) ==
    [i \in 1 .. Len(ports) |-> Add(chain, Dport(ports[i]), "RETURN")]

\* Mutated form: the rule for the user of the proxy comes last.
BuildRedirectRules_UidLast(excluded) ==
    << Flush("nat"), New("nat/SENTINEL_INBOUND"), New("nat/SENTINEL_REDIRECT"),
       New("nat/SENTINEL_OUTPUT"), New("nat/SENTINEL_IN_REDIRECT") >>
    \o ForPorts(<<9090>> \o excluded, "nat/SENTINEL_OUTPUT")
    \o << Add("nat/PREROUTING", Tcp, "nat/SENTINEL_INBOUND"),
          Add("nat/OUTPUT", Tcp, "nat/SENTINEL_OUTPUT"),
          Add("nat/SENTINEL_INBOUND", Tcp, "nat/SENTINEL_IN_REDIRECT"),
          Add("nat/SENTINEL_IN_REDIRECT", Tcp, "inboundPort"),
          Add("nat/SENTINEL_OUTPUT", Established, "RETURN"),
          Add("nat/SENTINEL_OUTPUT", Packets, "nat/SENTINEL_REDIRECT"),
          Add("nat/SENTINEL_REDIRECT", Tcp, "outboundPort"),
          Add("nat/SENTINEL_OUTPUT", OwnedByProxy, "RETURN") >>

BuildRedirectRules(excluded) ==
    << Flush("nat"), New("nat/SENTINEL_INBOUND"), New("nat/SENTINEL_REDIRECT"),
       New("nat/SENTINEL_OUTPUT"), New("nat/SENTINEL_IN_REDIRECT") >>
    \o ForPorts(<<9090>> \o excluded, "nat/SENTINEL_OUTPUT")
    \o << Add("nat/PREROUTING", Tcp, "nat/SENTINEL_INBOUND"),
          Add("nat/OUTPUT", Tcp, "nat/SENTINEL_OUTPUT"),
          Add("nat/SENTINEL_INBOUND", Tcp, "nat/SENTINEL_IN_REDIRECT"),
          Add("nat/SENTINEL_IN_REDIRECT", Tcp, "inboundPort"),
          Add("nat/SENTINEL_OUTPUT", OwnedByProxy, "RETURN"),
          Add("nat/SENTINEL_OUTPUT", Established, "RETURN"),
          Add("nat/SENTINEL_OUTPUT", Packets, "nat/SENTINEL_REDIRECT"),
          Add("nat/SENTINEL_REDIRECT", Tcp, "outboundPort") >>

\* Mutated form: the catch-all comes before what it must not catch.
BuildTProxyRules_CatchAllFirst(excluded) ==
    << New("mangle/SENTINEL_INBOUND"), Flush("nat"), New("nat/SENTINEL_OUTPUT"),
       Add("nat/SENTINEL_OUTPUT", OwnedByProxy, "RETURN") >>
    \o ForPorts(<<443, 9090>>, "mangle/SENTINEL_INBOUND")
    \o ForPorts(<<ServicePort, 443, 9090>>, "nat/SENTINEL_OUTPUT")
    \o ForPorts(excluded, "mangle/SENTINEL_INBOUND")
    \o ForPorts(excluded, "nat/SENTINEL_OUTPUT")
    \o << Add("mangle/PREROUTING", Tcp, "mangle/SENTINEL_INBOUND"),
          Add("mangle/SENTINEL_INBOUND", Tcp, "TPROXY"),
          Add("mangle/SENTINEL_INBOUND", Established, "RETURN"),
          Add("nat/SENTINEL_OUTPUT", Established, "RETURN"),
          Add("nat/OUTPUT", Dport(443), "RETURN"),
          Add("nat/OUTPUT", Tcp, "nat/SENTINEL_OUTPUT"),
          Add("nat/SENTINEL_OUTPUT", Tcp, "outboundPort") >>

\* Only the nat table is flushed.  (The rules of the custom ports alternate
\* between the two chains; here they follow each other, chain by chain.)
BuildTProxyRules(excluded) ==
    << New("mangle/SENTINEL_INBOUND"), Flush("nat"), New("nat/SENTINEL_OUTPUT"),
       Add("nat/SENTINEL_OUTPUT", OwnedByProxy, "RETURN") >>
    \o ForPorts(<<443, 9090>>, "mangle/SENTINEL_INBOUND")
    \o ForPorts(<<ServicePort, 443, 9090>>, "nat/SENTINEL_OUTPUT")
    \o ForPorts(excluded, "mangle/SENTINEL_INBOUND")
    \o ForPorts(excluded, "nat/SENTINEL_OUTPUT")
    \o << Add("mangle/PREROUTING", Tcp, "mangle/SENTINEL_INBOUND"),
          Add("mangle/SENTINEL_INBOUND", Established, "RETURN"),
          Add("mangle/SENTINEL_INBOUND", Tcp, "TPROXY"),
          Add("nat/SENTINEL_OUTPUT", Established, "RETURN"),
          Add("nat/OUTPUT", Dport(443), "RETURN"),
          Add("nat/OUTPUT", Tcp, "nat/SENTINEL_OUTPUT"),
          Add("nat/SENTINEL_OUTPUT", Tcp, "outboundPort") >>

SetupRouting == << Ip("rule"), Ip("route") >>

\* Mutated form: nothing is flushed first.
Commands_NoFlush(m, dry, excluded) ==
    SelectSeq(IF dry THEN << >>
              ELSE IF m = "TPROXY" THEN BuildTProxyRules(excluded) ELSE BuildRedirectRules(excluded),
              LAMBDA command : command.op # "-F")
    \o (IF m = "TPROXY" THEN SetupRouting ELSE << >>)

\* main: the iptables commands, none in a dry run, then in the TPROXY mode the
\* routing, in a dry run too.
Commands(m, dry, excluded) ==
    (IF dry THEN << >>
     ELSE IF m = "TPROXY" THEN BuildTProxyRules(excluded) ELSE BuildRedirectRules(excluded))
    \o (IF m = "TPROXY" THEN SetupRouting ELSE << >>)

-----------------------------------------------------------------------------
(* Running them                                                             *)

BuiltIn == {"nat/PREROUTING", "nat/OUTPUT", "mangle/PREROUTING"}
NatChains == {"nat/PREROUTING", "nat/OUTPUT", "nat/SENTINEL_INBOUND", "nat/SENTINEL_REDIRECT",
              "nat/SENTINEL_OUTPUT", "nat/SENTINEL_IN_REDIRECT"}
MangleChains == {"mangle/PREROUTING", "mangle/SENTINEL_INBOUND"}

Init ==
    /\ mode \in {"REDIRECT", "TPROXY"}
    /\ dryRun \in BOOLEAN
    /\ exclude \in {<< >>, ExcludePorts}
    /\ chains = [c \in BuiltIn |-> << >>]
    /\ routing = {}
    /\ todo = Commands(mode, dryRun, exclude)
    /\ status = "running"
    /\ reruns = 0
    /\ faults = 0
    /\ earlier = 0

\* What iptables and ip accept.
Accepts(command) ==
    CASE command.op = "-N" -> command.chain \notin DOMAIN chains
      [] command.op = "-F" -> TRUE
      [] command.op = "-A" ->
           /\ command.chain \in DOMAIN chains
           /\ command.rule.target \in NatChains \cup MangleChains
                => command.rule.target \in DOMAIN chains
      [] command.op = "ip" -> command.what \notin routing

\* The chains after a command that succeeds.
After(command) ==
    CASE command.op = "-N" ->
           [c \in DOMAIN chains \cup {command.chain} |->
              IF c \in DOMAIN chains THEN chains[c] ELSE << >>]
      [] command.op = "-F" ->
           [c \in DOMAIN chains |-> IF c \in NatChains THEN << >> ELSE chains[c]]
      [] command.op = "-A" -> [chains EXCEPT ![command.chain] = Append(@, command.rule)]
      [] OTHER -> chains

Execute ==
    /\ status = "running"
    /\ todo # << >>
    /\ Accepts(Head(todo))
    /\ chains' = After(Head(todo))
    /\ routing' = IF Head(todo).op = "ip" THEN routing \cup {Head(todo).what} ELSE routing
    /\ todo' = Tail(todo)
    /\ UNCHANGED <<mode, dryRun, exclude, status, reruns, faults, earlier>>

\* Mutated form: the container exits with an error and is run again.
Rejected_Exits ==
    /\ status = "running"
    /\ todo # << >>
    /\ ~Accepts(Head(todo))
    /\ todo' = Commands(mode, dryRun, exclude)
    /\ UNCHANGED <<mode, dryRun, exclude, chains, routing, status, reruns, faults, earlier>>

\* "continuing anyway": the command is not for this state of the tables.
Rejected ==
    /\ status = "running"
    /\ todo # << >>
    /\ ~Accepts(Head(todo))
    /\ todo' = Tail(todo)
    /\ UNCHANGED <<mode, dryRun, exclude, chains, routing, status, reruns, faults, earlier>>

\* The same, for a fault: no capability, no kernel module, the tables locked.
Faulted ==
    /\ status = "running"
    /\ todo # << >>
    /\ faults + earlier < MaxFaults
    /\ faults' = faults + 1
    /\ todo' = Tail(todo)
    /\ UNCHANGED <<mode, dryRun, exclude, chains, routing, status, reruns, earlier>>

\* "iptables rules applied successfully", and the container exits with 0.
LogSuccess ==
    /\ status = "running"
    /\ todo = << >>
    /\ status' = "success"
    /\ UNCHANGED <<mode, dryRun, exclude, chains, routing, todo, reruns, faults, earlier>>

\* A crash at any command, or the end of it and a kubelet that runs it again.
Rerun ==
    /\ reruns < MaxReruns
    /\ reruns' = reruns + 1
    /\ todo' = Commands(mode, dryRun, exclude)
    /\ status' = "running"
    /\ faults' = 0
    /\ earlier' = earlier + faults
    /\ UNCHANGED <<mode, dryRun, exclude, chains, routing>>

Next == Execute \/ Rejected \/ Faulted \/ LogSuccess \/ Rerun

Spec == Init /\ [][Next]_vars

-----------------------------------------------------------------------------
(* What the tables do to a packet                                           *)

\* A rule's target ends the walk of its chain, if it is no chain that has been
\* walked in vain.
Walk(rules, packet, verdicts) ==
    LET Outcome(rule) ==
            IF rule.target \in DOMAIN verdicts THEN verdicts[rule.target] ELSE rule.target
        Ends(rule) ==
            packet \in rule.match /\ (rule.target = "RETURN" \/ Outcome(rule) # "RETURN")
        ends == {i \in DOMAIN rules : Ends(rules[i])}
    IN  IF ends = {} THEN "RETURN" ELSE Outcome(rules[Min(ends)])

\* The verdicts of the chains, when the chains they jump to have these.
Above(verdicts, packet) == [c \in DOMAIN chains |-> Walk(chains[c], packet, verdicts)]

\* The verdict of a chain, below which chains are nested no deeper than two.
Verdict(chain, packet) ==
    LET leaves == Above([c \in DOMAIN chains |-> "RETURN"], packet)
    IN  Above(Above(leaves, packet), packet)[chain]

\* The catch-all of the TPROXY mode takes the packet: marked, it reaches the
\* listener through the routing only.
Caught(packet) == Verdict("mangle/PREROUTING", packet) = "TPROXY"
Marked == IF routing = {"rule", "route"} THEN "inboundPort" ELSE "lost"

\* The first hook of a packet.  Of the nat table a connection meets the rules with
\* its first packet.
AtHook(packet) ==
    LET nat(chain) == IF packet.state = "new" THEN Verdict(chain, packet) ELSE "RETURN"
    IN  IF packet.hook = "out" THEN nat("nat/OUTPUT")
        ELSE IF Caught(packet) THEN Marked ELSE nat("nat/PREROUTING")

\* A packet that goes out as it is after OUTPUT: REDIRECT has made it one to the
\* listener in the pod.
Outgoing(packet) ==
    IF AtHook(packet) = "outboundPort" THEN [packet EXCEPT !.to = "pod", !.port = OutboundPort]
    ELSE packet

\* A packet on its way.  One that the pod sends to itself goes over lo and meets
\* PREROUTING too: of the nat table not the rules again, OUTPUT has decided for
\* its connection, but the mangle table, where no rule excepts lo or the proxy.
Fate(packet) ==
    LET looped == packet.hook = "out" /\ Outgoing(packet).to = "pod"
    IN  IF looped /\ Caught(Outgoing(packet)) THEN Marked ELSE AtHook(packet)

\* What the init container is for, hook by hook.
Policy(packet) ==
    LET excluded ==
            ToSet(exclude) \cup
            IF mode = "REDIRECT" THEN IF packet.hook = "in" THEN {} ELSE {9090}
            ELSE {443, 9090} \cup IF packet.hook = "in" THEN {} ELSE {ServicePort}
        open == mode = "REDIRECT" /\ packet.hook = "in"
    IN  IF packet.state = "established" \/ packet.owner = "proxy" THEN "RETURN"
        ELSE IF packet.port \in excluded /\ ~open THEN "RETURN"
        ELSE IF packet.hook = "in" THEN "inboundPort" ELSE "outboundPort"

-----------------------------------------------------------------------------
(* Properties                                                               *)

Installed == status = "success" /\ ~dryRun

\* The places of the commands that fill a chain.
RulesOf(chain, commands) ==
    {i \in DOMAIN commands : commands[i].op = "-A" /\ commands[i].chain = chain}

NoFaults == faults + earlier = 0

\* The types; however often it is filled, the nat table never outgrows one run.
TypeOK ==
    /\ mode \in {"REDIRECT", "TPROXY"}
    /\ dryRun \in BOOLEAN
    /\ exclude \in {<< >>, ExcludePorts}
    /\ BuiltIn \subseteq DOMAIN chains /\ DOMAIN chains \subseteq NatChains \cup MangleChains
    /\ NoFaults => \A c \in DOMAIN chains \cap NatChains :
         Len(chains[c]) <= Cardinality(RulesOf(c, Commands(mode, dryRun, exclude)))
    /\ routing \subseteq {"rule", "route"}
    /\ status \in {"running", "success"}
    /\ reruns \in 0 .. MaxReruns
    /\ faults \in Nat /\ earlier \in Nat /\ faults + earlier <= MaxFaults

\* Without faults the proxy's own connections are never sent back to the proxy: not
\* between two commands, and not between two runs.  In the redirect mode that goes
\* for the ones to the app, over lo, too; in the TPROXY mode only for the ones to
\* other hosts: main.go:136-142 catches what comes over lo as well.
ProxyNeverCaptured ==
    NoFaults => \A p \in OwnedByProxy :
        mode = "REDIRECT" \/ p.to = "elsewhere" => Fate(p) = "RETURN"

\* A run without faults that comes to its end has made the policy at every hook,
\* whatever the crashes before it have left in the tables; in the redirect mode,
\* which begins with a flush, also whatever faults have.  (main.go:105-142 fills
\* the mangle table, which is never flushed, again: it repairs nothing there.)
\* In the redirect mode that is what becomes of every packet on its way; in the
\* TPROXY mode it is not, for the packets over lo.
PolicyInstalled ==
    Installed /\ faults = 0 /\ (earlier > 0 => mode = "REDIRECT")
        => \A p \in Packets :
             /\ AtHook(p) = Policy(p)
             /\ mode = "REDIRECT" => Fate(p) = Policy(p)

=============================================================================
