------------------------ MODULE SidecarInjectionProofs ------------------------
(***************************************************************************)
(* Proofs about TrafficRedirection, for every sequence of ports, number of  *)
(* reruns and number of faults, and about the pods of SidecarInjection, in  *)
(* which it runs.                                                           *)
(***************************************************************************)
EXTENDS SidecarInjection, FiniteSetTheorems, SequenceTheorems, TLAPS

Chains == NatChains \cup MangleChains
Rules == [match : SUBSET Packets,
          target : Chains \cup {"RETURN", "inboundPort", "outboundPort", "TPROXY"}]
CommandSet ==
    [op : {"-N"}, chain : Chains] \cup [op : {"-F"}, table : {"nat"}]
    \cup [op : {"-A"}, chain : Chains, rule : Rules] \cup [op : {"ip"}, what : {"rule", "route"}]

Modes == {"REDIRECT", "TPROXY"}
Excludes == {<< >>, ExcludePorts}

-----------------------------------------------------------------------------
(* The commands                                                             *)

\* A command that appends to a chain, and one that appends an exception to it.
Appends(command, chain) == command.op = "-A" /\ command.chain = chain
Excepts(command, chain) == Appends(command, chain) /\ command.rule.target = "RETURN"
Catches(command, chain) == Appends(command, chain) /\ command.rule.target # "RETURN"

\* What the four kinds of commands are made of.
LEMMA FormsOfCommands ==
  /\ \A c : New(c).op = "-N" /\ New(c).chain = c
  /\ \A t : Flush(t).op = "-F"
  /\ \A w : Ip(w).op = "ip" /\ Ip(w).what = w
  /\ \A c, m, t : /\ Add(c, m, t).op = "-A" /\ Add(c, m, t).chain = c
                  /\ Add(c, m, t).rule.match = m /\ Add(c, m, t).rule.target = t
BY DEF New, Flush, Ip, Add

\* The commands that a list is made of are commands.
LEMMA CommandTypes ==
  /\ \A c \in Chains : New(c) \in CommandSet
  /\ Flush("nat") \in CommandSet
  /\ \A w \in {"rule", "route"} : Ip(w) \in CommandSet
  /\ \A c \in Chains, m \in SUBSET Packets,
        t \in Chains \cup {"RETURN", "inboundPort", "outboundPort", "TPROXY"} :
       Add(c, m, t) \in CommandSet
BY DEF New, Flush, Ip, Add, CommandSet, Rules

\* The conditions of the rules are sets of packets.
LEMMA MatchTypes ==
  /\ Packets \in SUBSET Packets /\ Tcp \in SUBSET Packets
  /\ OwnedByProxy \in SUBSET Packets /\ Established \in SUBSET Packets
  /\ \A port : Dport(port) \in SUBSET Packets
BY DEF Tcp, OwnedByProxy, Established, Dport

\* The exceptions of a sequence of ports.
LEMMA ForPortsLayout ==
  ASSUME NEW ports \in Seq(Nat), NEW c \in Chains
  PROVE  /\ ForPorts(ports, c) \in Seq(CommandSet)
         /\ Len(ForPorts(ports, c)) = Len(ports)
         /\ \A i \in 1 .. Len(ports) : ForPorts(ports, c)[i] = Add(c, Dport(ports[i]), "RETURN")
<1> DEFINE n == Len(ports)
<1>1. n \in Nat
  OBVIOUS
<1>2. ForPorts(ports, c) \in [1 .. n -> CommandSet]
  BY CommandTypes, MatchTypes DEF ForPorts
<1>3. ForPorts(ports, c) \in Seq(CommandSet)
  BY <1>1, <1>2, SeqDef
<1> QED
  BY <1>1, <1>2, <1>3, LenProperties DEF ForPorts

\* A concatenation, part by part.
LEMMA Joined ==
  ASSUME NEW s \in Seq(CommandSet), NEW t \in Seq(CommandSet)
  PROVE  /\ s \o t \in Seq(CommandSet) /\ Len(s \o t) = Len(s) + Len(t)
         /\ \A i \in 1 .. Len(s) : (s \o t)[i] = s[i]
         /\ \A i \in 1 .. Len(t) : (s \o t)[Len(s) + i] = t[i]
<1>1. /\ s \o t \in Seq(CommandSet) /\ Len(s \o t) = Len(s) + Len(t)
      /\ \A i \in 1 .. Len(s) + Len(t) :
           (s \o t)[i] = IF i <= Len(s) THEN s[i] ELSE t[i - Len(s)]
  BY ConcatProperties, Zenon
<1>2. Len(s) \in Nat /\ Len(t) \in Nat
  OBVIOUS
<1>3. ASSUME NEW i \in 1 .. Len(s) PROVE (s \o t)[i] = s[i]
  BY <1>1, <1>2
<1>4. ASSUME NEW i \in 1 .. Len(t) PROVE (s \o t)[Len(s) + i] = t[i]
  <2>1. Len(s) + i \in 1 .. Len(s) + Len(t) /\ ~(Len(s) + i <= Len(s)) /\ Len(s) + i - Len(s) = i
    BY <1>2
  <2> QED
    BY <1>1, <2>1
<1> QED
  BY <1>1, <1>3, <1>4

RedirectHead ==
    << Flush("nat"), New("nat/SENTINEL_INBOUND"), New("nat/SENTINEL_REDIRECT"),
       New("nat/SENTINEL_OUTPUT"), New("nat/SENTINEL_IN_REDIRECT") >>
RedirectTail ==
    << Add("nat/PREROUTING", Tcp, "nat/SENTINEL_INBOUND"),
       Add("nat/OUTPUT", Tcp, "nat/SENTINEL_OUTPUT"),
       Add("nat/SENTINEL_INBOUND", Tcp, "nat/SENTINEL_IN_REDIRECT"),
       Add("nat/SENTINEL_IN_REDIRECT", Tcp, "inboundPort"),
       Add("nat/SENTINEL_OUTPUT", OwnedByProxy, "RETURN"),
       Add("nat/SENTINEL_OUTPUT", Established, "RETURN"),
       Add("nat/SENTINEL_OUTPUT", Packets, "nat/SENTINEL_REDIRECT"),
       Add("nat/SENTINEL_REDIRECT", Tcp, "outboundPort") >>

\* The commands of the redirect mode, place by place.
RedirectLayout(k, ex) ==
    LET n == Len(ex) IN
    /\ k \in Seq(CommandSet) /\ Len(k) = n + 14
    /\ k[1] = Flush("nat")
    /\ k[2] = New("nat/SENTINEL_INBOUND") /\ k[3] = New("nat/SENTINEL_REDIRECT")
    /\ k[4] = New("nat/SENTINEL_OUTPUT") /\ k[5] = New("nat/SENTINEL_IN_REDIRECT")
    /\ k[6] = Add("nat/SENTINEL_OUTPUT", Dport(9090), "RETURN")
    /\ \A i \in 1 .. n : k[6 + i] = Add("nat/SENTINEL_OUTPUT", Dport(ex[i]), "RETURN")
    /\ k[n + 7] = Add("nat/PREROUTING", Tcp, "nat/SENTINEL_INBOUND")
    /\ k[n + 8] = Add("nat/OUTPUT", Tcp, "nat/SENTINEL_OUTPUT")
    /\ k[n + 9] = Add("nat/SENTINEL_INBOUND", Tcp, "nat/SENTINEL_IN_REDIRECT")
    /\ k[n + 10] = Add("nat/SENTINEL_IN_REDIRECT", Tcp, "inboundPort")
    /\ k[n + 11] = Add("nat/SENTINEL_OUTPUT", OwnedByProxy, "RETURN")
    /\ k[n + 12] = Add("nat/SENTINEL_OUTPUT", Established, "RETURN")
    /\ k[n + 13] = Add("nat/SENTINEL_OUTPUT", Packets, "nat/SENTINEL_REDIRECT")
    /\ k[n + 14] = Add("nat/SENTINEL_REDIRECT", Tcp, "outboundPort")

\* The list of buildRedirectRules, command by command.
LEMMA RedirectCommands ==
  ASSUME NEW ex \in Seq(Nat)
  PROVE  RedirectLayout(BuildRedirectRules(ex), ex)
<1> DEFINE n == Len(ex)
           ports == <<9090>> \o ex
           f == ForPorts(ports, "nat/SENTINEL_OUTPUT")
           head == RedirectHead \o f
           k == BuildRedirectRules(ex)
<1>0. n \in Nat
  OBVIOUS
<1>1. RedirectHead \in Seq(CommandSet) /\ Len(RedirectHead) = 5
  BY CommandTypes DEF RedirectHead, Chains, NatChains
<1>2. RedirectTail \in Seq(CommandSet) /\ Len(RedirectTail) = 8
  BY CommandTypes, MatchTypes DEF RedirectTail, Chains, NatChains
<1>3. /\ ports \in Seq(Nat) /\ Len(ports) = n + 1 /\ ports[1] = 9090
      /\ \A i \in 1 .. n : ports[i + 1] = ex[i]
  <2>1. <<9090>> \in Seq(Nat) /\ Len(<<9090>>) = 1 /\ <<9090>>[1] = 9090
    OBVIOUS
  <2> QED
    BY <1>0, <2>1, ConcatProperties
<1> HIDE DEF ports
<1>4. /\ f \in Seq(CommandSet) /\ Len(f) = n + 1
      /\ \A i \in 1 .. n + 1 : f[i] = Add("nat/SENTINEL_OUTPUT", Dport(ports[i]), "RETURN")
  BY <1>3, ForPortsLayout DEF Chains, NatChains
<1> HIDE DEF f, n
<1>5. /\ head \in Seq(CommandSet) /\ Len(head) = Len(RedirectHead) + Len(f)
      /\ \A i \in 1 .. Len(RedirectHead) : head[i] = RedirectHead[i]
      /\ \A i \in 1 .. Len(f) : head[Len(RedirectHead) + i] = f[i]
  <2>1. RedirectHead \in Seq(CommandSet) /\ f \in Seq(CommandSet)
    BY <1>1, <1>4
  <2> QED
    BY <2>1, Joined, Zenon
<1>6. k = head \o RedirectTail
  BY DEF BuildRedirectRules, RedirectHead, RedirectTail, f, ports
<1> HIDE DEF head
<1>7. /\ k \in Seq(CommandSet) /\ Len(k) = Len(head) + Len(RedirectTail)
      /\ \A i \in 1 .. Len(head) : k[i] = head[i]
      /\ \A i \in 1 .. Len(RedirectTail) : k[Len(head) + i] = RedirectTail[i]
  <2>1. head \in Seq(CommandSet) /\ RedirectTail \in Seq(CommandSet)
    BY <1>2, <1>5
  <2>2. /\ head \o RedirectTail \in Seq(CommandSet) /\ Len(head \o RedirectTail) = Len(head) + Len(RedirectTail)
        /\ \A i \in 1 .. Len(head) : (head \o RedirectTail)[i] = head[i]
        /\ \A i \in 1 .. Len(RedirectTail) : (head \o RedirectTail)[Len(head) + i] = RedirectTail[i]
    BY <2>1, Joined, Zenon
  <2> QED
    BY <1>6, <2>2, Zenon
<1> HIDE DEF k
<1>8. Len(head) = n + 6 /\ Len(k) = n + 14 /\ \A i \in 1 .. 5 : k[i] = RedirectHead[i]
  <2>1. Len(head) = n + 6
    BY <1>0, <1>1, <1>4, <1>5
  <2>2. Len(k) = n + 14
    BY <1>0, <1>2, <1>7, <2>1
  <2>3. \A i \in 1 .. 5 : k[i] = RedirectHead[i]
    BY <1>0, <1>1, <1>5, <1>7, <2>1
  <2> QED
    BY <2>1, <2>2, <2>3
<1>9. \A i \in 1 .. n + 1 : k[5 + i] = f[i]
  BY <1>0, <1>1, <1>4, <1>5, <1>7, <1>8
<1>11. /\ k[6] = Add("nat/SENTINEL_OUTPUT", Dport(9090), "RETURN")
       /\ \A i \in 1 .. n : k[6 + i] = Add("nat/SENTINEL_OUTPUT", Dport(ex[i]), "RETURN")
  <2>1. 1 \in 1 .. n + 1 /\ \A i \in 1 .. n : i + 1 \in 1 .. n + 1 /\ 5 + (i + 1) = 6 + i
    BY <1>0
  <2>2. k[5 + 1] = f[1] /\ \A i \in 1 .. n : k[6 + i] = f[i + 1]
    BY <1>9, <2>1
  <2> QED
    BY <1>3, <1>4, <2>1, <2>2
<1>12. /\ k[1] = Flush("nat")
       /\ k[2] = New("nat/SENTINEL_INBOUND") /\ k[3] = New("nat/SENTINEL_REDIRECT")
       /\ k[4] = New("nat/SENTINEL_OUTPUT") /\ k[5] = New("nat/SENTINEL_IN_REDIRECT")
  BY <1>8 DEF RedirectHead
<1>10. \A i \in 1 .. 8 : k[n + (6 + i)] = RedirectTail[i]
  BY <1>0, <1>2, <1>7, <1>8
<1>13. /\ k[n + 7] = RedirectTail[1] /\ k[n + 8] = RedirectTail[2]
       /\ k[n + 9] = RedirectTail[3] /\ k[n + 10] = RedirectTail[4]
       /\ k[n + 11] = RedirectTail[5] /\ k[n + 12] = RedirectTail[6]
       /\ k[n + 13] = RedirectTail[7] /\ k[n + 14] = RedirectTail[8]
  BY <1>10
<1> QED
  BY <1>7, <1>8, <1>11, <1>12, <1>13 DEF RedirectLayout, RedirectTail, k, n

TProxyHead ==
    << New("mangle/SENTINEL_INBOUND"), Flush("nat"), New("nat/SENTINEL_OUTPUT"),
       Add("nat/SENTINEL_OUTPUT", OwnedByProxy, "RETURN") >>
TProxyTail ==
    << Add("mangle/PREROUTING", Tcp, "mangle/SENTINEL_INBOUND"),
       Add("mangle/SENTINEL_INBOUND", Established, "RETURN"),
       Add("mangle/SENTINEL_INBOUND", Tcp, "TPROXY"),
       Add("nat/SENTINEL_OUTPUT", Established, "RETURN"),
       Add("nat/OUTPUT", Dport(443), "RETURN"),
       Add("nat/OUTPUT", Tcp, "nat/SENTINEL_OUTPUT"),
       Add("nat/SENTINEL_OUTPUT", Tcp, "outboundPort") >>

\* The commands of the TPROXY mode, place by place.
TProxyLayout(k, ex) ==
    LET n == Len(ex) IN
    /\ k \in Seq(CommandSet) /\ Len(k) >= 2 * n + 16
    /\ k[1] = New("mangle/SENTINEL_INBOUND") /\ k[2] = Flush("nat")
    /\ k[3] = New("nat/SENTINEL_OUTPUT")
    /\ k[4] = Add("nat/SENTINEL_OUTPUT", OwnedByProxy, "RETURN")
    /\ k[5] = Add("mangle/SENTINEL_INBOUND", Dport(443), "RETURN")
    /\ k[6] = Add("mangle/SENTINEL_INBOUND", Dport(9090), "RETURN")
    /\ k[7] = Add("nat/SENTINEL_OUTPUT", Dport(ServicePort), "RETURN")
    /\ k[8] = Add("nat/SENTINEL_OUTPUT", Dport(443), "RETURN")
    /\ k[9] = Add("nat/SENTINEL_OUTPUT", Dport(9090), "RETURN")
    /\ \A i \in 1 .. n :
         /\ k[9 + i] = Add("mangle/SENTINEL_INBOUND", Dport(ex[i]), "RETURN")
         /\ k[9 + n + i] = Add("nat/SENTINEL_OUTPUT", Dport(ex[i]), "RETURN")
    /\ k[2 * n + 10] = Add("mangle/PREROUTING", Tcp, "mangle/SENTINEL_INBOUND")
    /\ k[2 * n + 11] = Add("mangle/SENTINEL_INBOUND", Established, "RETURN")
    /\ k[2 * n + 12] = Add("mangle/SENTINEL_INBOUND", Tcp, "TPROXY")
    /\ k[2 * n + 13] = Add("nat/SENTINEL_OUTPUT", Established, "RETURN")
    /\ k[2 * n + 14] = Add("nat/OUTPUT", Dport(443), "RETURN")
    /\ k[2 * n + 15] = Add("nat/OUTPUT", Tcp, "nat/SENTINEL_OUTPUT")
    /\ k[2 * n + 16] = Add("nat/SENTINEL_OUTPUT", Tcp, "outboundPort")

\* The list of buildTProxyRules, command by command.
LEMMA TProxyCommands ==
  ASSUME NEW ex \in Seq(Nat)
  PROVE  TProxyLayout(BuildTProxyRules(ex), ex) /\ Len(BuildTProxyRules(ex)) = 2 * Len(ex) + 16
<1> DEFINE n == Len(ex)
           mangle == "mangle/SENTINEL_INBOUND"
           output == "nat/SENTINEL_OUTPUT"
           s1 == ForPorts(<<443, 9090>>, mangle)
           s2 == ForPorts(<<ServicePort, 443, 9090>>, output)
           s3 == ForPorts(ex, mangle)
           s4 == ForPorts(ex, output)
           k1 == TProxyHead \o s1
           k2 == k1 \o s2
           k3 == k2 \o s3
           k4 == k3 \o s4
           k == BuildTProxyRules(ex)
<1>0. n \in Nat
  OBVIOUS
<1>1. TProxyHead \in Seq(CommandSet) /\ Len(TProxyHead) = 4
  BY CommandTypes, MatchTypes DEF TProxyHead, Chains, NatChains, MangleChains
<1>2. TProxyTail \in Seq(CommandSet) /\ Len(TProxyTail) = 7
  BY CommandTypes, MatchTypes DEF TProxyTail, Chains, NatChains, MangleChains
<1>3. mangle \in Chains /\ output \in Chains
  BY DEF Chains, NatChains, MangleChains
<1>4. /\ s1 \in Seq(CommandSet) /\ Len(s1) = 2
      /\ s1[1] = Add(mangle, Dport(443), "RETURN") /\ s1[2] = Add(mangle, Dport(9090), "RETURN")
  <2> DEFINE ports == <<443, 9090>>
  <2>1. ports \in Seq(Nat)
    OBVIOUS
  <2>2. Len(ports) = 2 /\ ports[1] = 443 /\ ports[2] = 9090
    OBVIOUS
  <2>3. mangle \in Chains
    BY <1>3
  <2> HIDE DEF ports, mangle
  <2>4. /\ ForPorts(ports, mangle) \in Seq(CommandSet) /\ Len(ForPorts(ports, mangle)) = Len(ports)
        /\ \A i \in 1 .. Len(ports) : ForPorts(ports, mangle)[i] = Add(mangle, Dport(ports[i]), "RETURN")
    BY <2>1, <2>3, ForPortsLayout, Zenon
  <2>5. s1 = ForPorts(ports, mangle)
    BY DEF ports
  <2> HIDE DEF s1
  <2>6. s1[1] = Add(mangle, Dport(ports[1]), "RETURN") /\ s1[2] = Add(mangle, Dport(ports[2]), "RETURN")
    BY <2>2, <2>4, <2>5
  <2> QED
    BY <2>2, <2>4, <2>5, <2>6
<1>5. /\ s2 \in Seq(CommandSet) /\ Len(s2) = 3
      /\ s2[1] = Add(output, Dport(ServicePort), "RETURN")
      /\ s2[2] = Add(output, Dport(443), "RETURN") /\ s2[3] = Add(output, Dport(9090), "RETURN")
  <2> DEFINE ports == <<ServicePort, 443, 9090>>
  <2>1. ports \in Seq(Nat)
    BY PortsAssumption
  <2>2. Len(ports) = 3 /\ ports[1] = ServicePort /\ ports[2] = 443 /\ ports[3] = 9090
    OBVIOUS
  <2>3. output \in Chains
    BY <1>3
  <2> HIDE DEF ports, output
  <2>4. /\ ForPorts(ports, output) \in Seq(CommandSet) /\ Len(ForPorts(ports, output)) = Len(ports)
        /\ \A i \in 1 .. Len(ports) : ForPorts(ports, output)[i] = Add(output, Dport(ports[i]), "RETURN")
    BY <2>1, <2>3, ForPortsLayout, Zenon
  <2>5. s2 = ForPorts(ports, output)
    BY DEF ports
  <2> HIDE DEF s2
  <2>6. \A i \in 1 .. 3 : s2[i] = Add(output, Dport(ports[i]), "RETURN")
    BY <2>2, <2>4, <2>5
  <2> QED
    BY <2>2, <2>4, <2>5, <2>6
<1>6. /\ s3 \in Seq(CommandSet) /\ Len(s3) = n
      /\ \A i \in 1 .. n : s3[i] = Add(mangle, Dport(ex[i]), "RETURN")
      /\ s4 \in Seq(CommandSet) /\ Len(s4) = n
      /\ \A i \in 1 .. n : s4[i] = Add(output, Dport(ex[i]), "RETURN")
  BY <1>3, ForPortsLayout
<1>7. k = k4 \o TProxyTail
  BY DEF BuildTProxyRules, TProxyHead, TProxyTail
<1> HIDE DEF n, s1, s2, s3, s4, mangle, output
<1>8. /\ k1 \in Seq(CommandSet) /\ Len(k1) = Len(TProxyHead) + Len(s1)
      /\ \A i \in 1 .. Len(TProxyHead) : k1[i] = TProxyHead[i]
      /\ \A i \in 1 .. Len(s1) : k1[Len(TProxyHead) + i] = s1[i]
  <2>1. TProxyHead \in Seq(CommandSet) /\ s1 \in Seq(CommandSet)
    BY <1>1, <1>4
  <2> QED
    BY <2>1, Joined, Zenon
<1> HIDE DEF k1
<1>9. /\ k2 \in Seq(CommandSet) /\ Len(k2) = Len(k1) + Len(s2)
      /\ \A i \in 1 .. Len(k1) : k2[i] = k1[i]
      /\ \A i \in 1 .. Len(s2) : k2[Len(k1) + i] = s2[i]
  <2>1. k1 \in Seq(CommandSet) /\ s2 \in Seq(CommandSet)
    BY <1>5, <1>8
  <2> QED
    BY <2>1, Joined, Zenon
<1> HIDE DEF k2
<1>10. /\ k3 \in Seq(CommandSet) /\ Len(k3) = Len(k2) + Len(s3)
       /\ \A i \in 1 .. Len(k2) : k3[i] = k2[i]
       /\ \A i \in 1 .. Len(s3) : k3[Len(k2) + i] = s3[i]
  <2>1. k2 \in Seq(CommandSet) /\ s3 \in Seq(CommandSet)
    BY <1>6, <1>9
  <2> QED
    BY <2>1, Joined, Zenon
<1> HIDE DEF k3
<1>11. /\ k4 \in Seq(CommandSet) /\ Len(k4) = Len(k3) + Len(s4)
       /\ \A i \in 1 .. Len(k3) : k4[i] = k3[i]
       /\ \A i \in 1 .. Len(s4) : k4[Len(k3) + i] = s4[i]
  <2>1. k3 \in Seq(CommandSet) /\ s4 \in Seq(CommandSet)
    BY <1>6, <1>10
  <2> QED
    BY <2>1, Joined, Zenon
<1> HIDE DEF k4
<1>12. /\ k \in Seq(CommandSet) /\ Len(k) = Len(k4) + Len(TProxyTail)
       /\ \A i \in 1 .. Len(k4) : k[i] = k4[i]
       /\ \A i \in 1 .. Len(TProxyTail) : k[Len(k4) + i] = TProxyTail[i]
  <2>1. k4 \in Seq(CommandSet) /\ TProxyTail \in Seq(CommandSet)
    BY <1>2, <1>11
  <2>2. /\ k4 \o TProxyTail \in Seq(CommandSet) /\ Len(k4 \o TProxyTail) = Len(k4) + Len(TProxyTail)
        /\ \A i \in 1 .. Len(k4) : (k4 \o TProxyTail)[i] = k4[i]
        /\ \A i \in 1 .. Len(TProxyTail) : (k4 \o TProxyTail)[Len(k4) + i] = TProxyTail[i]
    BY <2>1, Joined, Zenon
  <2> QED
    BY <1>7, <2>2, Zenon
<1> HIDE DEF k
<1>13. Len(k1) = 6 /\ Len(k2) = 9 /\ Len(k3) = 9 + n /\ Len(k4) = 9 + n + n
  BY <1>0, <1>1, <1>4, <1>5, <1>6, <1>8, <1>9, <1>10, <1>11
<1>14. \A i \in 1 .. 9 : k[i] = k2[i]
  <2> SUFFICES ASSUME NEW i \in 1 .. 9 PROVE k[i] = k2[i]
    OBVIOUS
  <2>1. i \in 1 .. 9 + n /\ i \in 1 .. 9 + n + n
    BY <1>0
  <2>2. k3[i] = k2[i] /\ k4[i] = k3[i] /\ k[i] = k4[i]
    BY <1>10, <1>11, <1>12, <1>13, <2>1
  <2> QED
    BY <2>2
<1>15. /\ \A i \in 1 .. 4 : k[i] = TProxyHead[i]
       /\ k[5] = s1[1] /\ k[6] = s1[2]
       /\ k[7] = s2[1] /\ k[8] = s2[2] /\ k[9] = s2[3]
  <2>1. \A i \in 1 .. 4 : k2[i] = TProxyHead[i]
    BY <1>1, <1>8, <1>9, <1>13
  <2>2. k1[4 + 1] = s1[1] /\ k1[4 + 2] = s1[2]
    BY <1>1, <1>4, <1>8
  <2>3. k2[6 + 1] = s2[1] /\ k2[6 + 2] = s2[2] /\ k2[6 + 3] = s2[3]
    BY <1>5, <1>9, <1>13
  <2>4. k2[5] = k1[5] /\ k2[6] = k1[6]
    BY <1>9, <1>13
  <2> QED
    BY <1>14, <2>1, <2>2, <2>3, <2>4
<1>16. \A i \in 1 .. n : k[9 + i] = s3[i] /\ k[9 + n + i] = s4[i]
  <2> SUFFICES ASSUME NEW i \in 1 .. n PROVE k[9 + i] = s3[i] /\ k[9 + n + i] = s4[i]
    OBVIOUS
  <2>1. k3[9 + i] = s3[i] /\ k4[9 + n + i] = s4[i]
    BY <1>6, <1>10, <1>11, <1>13
  <2>2. 9 + i \in 1 .. 9 + n /\ 9 + i \in 1 .. 9 + n + n /\ 9 + n + i \in 1 .. 9 + n + n
    BY <1>0
  <2>3. k4[9 + i] = k3[9 + i] /\ k[9 + i] = k4[9 + i] /\ k[9 + n + i] = k4[9 + n + i]
    BY <1>11, <1>12, <1>13, <2>2
  <2> QED
    BY <2>1, <2>3
<1>17. /\ k[2 * n + 10] = TProxyTail[1] /\ k[2 * n + 11] = TProxyTail[2]
       /\ k[2 * n + 12] = TProxyTail[3] /\ k[2 * n + 13] = TProxyTail[4]
       /\ k[2 * n + 14] = TProxyTail[5] /\ k[2 * n + 15] = TProxyTail[6]
       /\ k[2 * n + 16] = TProxyTail[7] /\ Len(k) = 2 * n + 16
  <2>1. \A i \in 1 .. 7 : k[2 * n + (9 + i)] = TProxyTail[i]
    <3> SUFFICES ASSUME NEW i \in 1 .. 7 PROVE k[2 * n + (9 + i)] = TProxyTail[i]
      OBVIOUS
    <3>1. k[Len(k4) + i] = TProxyTail[i]
      BY <1>2, <1>12
    <3>2. Len(k4) + i = 2 * n + (9 + i)
      BY <1>0, <1>13
    <3> QED
      BY <3>1, <3>2
  <2> QED
    BY <1>0, <1>2, <1>12, <1>13, <2>1
<1>18. /\ k[1] = New("mangle/SENTINEL_INBOUND") /\ k[2] = Flush("nat")
       /\ k[3] = New("nat/SENTINEL_OUTPUT")
       /\ k[4] = Add("nat/SENTINEL_OUTPUT", OwnedByProxy, "RETURN")
  BY <1>15 DEF TProxyHead
<1>19. \A i \in 1 .. n :
         /\ k[9 + i] = Add("mangle/SENTINEL_INBOUND", Dport(ex[i]), "RETURN")
         /\ k[9 + n + i] = Add("nat/SENTINEL_OUTPUT", Dport(ex[i]), "RETURN")
  BY <1>6, <1>16 DEF mangle, output
<1>20. /\ k[5] = Add("mangle/SENTINEL_INBOUND", Dport(443), "RETURN")
       /\ k[6] = Add("mangle/SENTINEL_INBOUND", Dport(9090), "RETURN")
       /\ k[7] = Add("nat/SENTINEL_OUTPUT", Dport(ServicePort), "RETURN")
       /\ k[8] = Add("nat/SENTINEL_OUTPUT", Dport(443), "RETURN")
       /\ k[9] = Add("nat/SENTINEL_OUTPUT", Dport(9090), "RETURN")
  BY <1>4, <1>5, <1>15 DEF mangle, output
<1>21. k \in Seq(CommandSet)
  BY <1>12
<1>22. Len(k) >= 2 * n + 16
  BY <1>0, <1>17
<1> QED
  BY <1>17, <1>18, <1>19, <1>20, <1>21, <1>22 DEF TProxyLayout, TProxyTail, k, n


-----------------------------------------------------------------------------
(* The order of the commands                                                *)

\* A chain is made before a rule is appended to it or jumps to it, all flushes come
\* before all rules, and the exceptions of a chain before what it catches.
WellFormed(k) ==
    /\ k \in Seq(CommandSet)
    /\ \A i \in DOMAIN k : k[i].op = "-A" =>
         \A c \in Chains \ BuiltIn : c \in {k[i].chain, k[i].rule.target} =>
           \E j \in DOMAIN k : j < i /\ k[j].op = "-N" /\ k[j].chain = c
    /\ \A i \in DOMAIN k : k[i].op = "-A" => \E j \in DOMAIN k : j < i /\ k[j].op = "-F"
    /\ \A i, j \in DOMAIN k : k[i].op = "-A" /\ k[j].op = "-F" => j < i
    /\ \A c \in Chains : \A i, j \in DOMAIN k : Excepts(k[i], c) /\ Catches(k[j], c) => i < j

Exception(m) == [match |-> m, target |-> "RETURN"]
CatchAll(target) == [match |-> Packets, target |-> target]

\* What commands make of a chain: exceptions, and one target for all the rest.
Fills(k, c, matches, target) ==
    /\ \A j \in DOMAIN k : Appends(k[j], c) =>
         k[j].rule = CatchAll(target) \/ \E m \in matches : k[j].rule = Exception(m)
    /\ \E j \in DOMAIN k : Appends(k[j], c) /\ k[j].rule = CatchAll(target)
    /\ \A m \in matches : \E j \in DOMAIN k : Appends(k[j], c) /\ k[j].rule = Exception(m)

Dports(ports) == {Dport(port) : port \in ports}

\* The rules that the appending commands bring with them.
LEMMA RulesOfCommands ==
  /\ \A c, m : Add(c, m, "RETURN").rule = Exception(m)
  /\ \A c, t : Add(c, Packets, t).rule = CatchAll(t) /\ Add(c, Tcp, t).rule = CatchAll(t)
BY DEF Add, Exception, CatchAll, Tcp

\* The chains that the redirect mode fills, and what with.
RedirectMatches(ex) == {Dport(9090), OwnedByProxy, Established} \cup Dports(ToSet(ex))
RedirectFills(k, ex) ==
    /\ Fills(k, "nat/PREROUTING", {}, "nat/SENTINEL_INBOUND")
    /\ Fills(k, "nat/OUTPUT", {}, "nat/SENTINEL_OUTPUT")
    /\ Fills(k, "nat/SENTINEL_INBOUND", {}, "nat/SENTINEL_IN_REDIRECT")
    /\ Fills(k, "nat/SENTINEL_IN_REDIRECT", {}, "inboundPort")
    /\ Fills(k, "nat/SENTINEL_OUTPUT", RedirectMatches(ex), "nat/SENTINEL_REDIRECT")
    /\ Fills(k, "nat/SENTINEL_REDIRECT", {}, "outboundPort")

Excepting(command, chain, matches) ==
    Appends(command, chain) /\ \E m \in matches : command.rule = Exception(m)
Catching(command, chain, target) ==
    Appends(command, chain) /\ command.rule = CatchAll(target)

\* How to see that a command appends an exception, or a rule that catches the rest.
LEMMA ExceptingAndCatching ==
  /\ \A c, matches : \A m \in matches : Excepting(Add(c, m, "RETURN"), c, matches)
  /\ \A c, t : Catching(Add(c, Tcp, t), c, t) /\ Catching(Add(c, Packets, t), c, t)
  /\ \A x, c, matches : Excepting(x, c, matches) =>
       x.op = "-A" /\ x.chain = c /\ x.rule.target = "RETURN"
  /\ \A x, c, t : Catching(x, c, t) => x.op = "-A" /\ x.chain = c /\ x.rule.target = t
<1>1. ASSUME NEW c, NEW matches, NEW m \in matches PROVE Excepting(Add(c, m, "RETURN"), c, matches)
  BY DEF Excepting, Appends, Add, Exception
<1>2. \A c, t : Catching(Add(c, Tcp, t), c, t) /\ Catching(Add(c, Packets, t), c, t)
  BY DEF Catching, Appends, Add, CatchAll, Tcp
<1>3. ASSUME NEW x, NEW c, NEW matches, Excepting(x, c, matches)
      PROVE  x.op = "-A" /\ x.chain = c /\ x.rule.target = "RETURN"
  BY <1>3 DEF Excepting, Appends, Exception
<1>4. ASSUME NEW x, NEW c, NEW t, Catching(x, c, t)
      PROVE  x.op = "-A" /\ x.chain = c /\ x.rule.target = t
  BY <1>4 DEF Catching, Appends, CatchAll
<1> QED
  BY <1>1, <1>2, <1>3, <1>4, Zenon

\* The places of the redirect mode's rules.
LEMMA RedirectPlaces ==
  ASSUME NEW ex \in Seq(Nat), NEW k, RedirectLayout(k, ex), NEW i \in 6 .. Len(ex) + 14
  PROVE  \/ i < Len(ex) + 13 /\ Excepting(k[i], "nat/SENTINEL_OUTPUT", RedirectMatches(ex))
         \/ i = Len(ex) + 7 /\ Catching(k[i], "nat/PREROUTING", "nat/SENTINEL_INBOUND")
         \/ i = Len(ex) + 8 /\ Catching(k[i], "nat/OUTPUT", "nat/SENTINEL_OUTPUT")
         \/ i = Len(ex) + 9 /\ Catching(k[i], "nat/SENTINEL_INBOUND", "nat/SENTINEL_IN_REDIRECT")
         \/ i = Len(ex) + 10 /\ Catching(k[i], "nat/SENTINEL_IN_REDIRECT", "inboundPort")
         \/ i = Len(ex) + 13 /\ Catching(k[i], "nat/SENTINEL_OUTPUT", "nat/SENTINEL_REDIRECT")
         \/ i = Len(ex) + 14 /\ Catching(k[i], "nat/SENTINEL_REDIRECT", "outboundPort")
<1> DEFINE n == Len(ex)
           output == "nat/SENTINEL_OUTPUT"
           Out(x) == Excepting(x, output, RedirectMatches(ex))
<1>0. n \in Nat /\ i \in 6 .. n + 14
  OBVIOUS
<1>1. /\ {Dport(9090), OwnedByProxy, Established} \subseteq RedirectMatches(ex)
      /\ \A h \in 1 .. n : Dport(ex[h]) \in RedirectMatches(ex)
  BY DEF RedirectMatches, Dports, ToSet
<1>2. \A m \in RedirectMatches(ex) : Out(Add(output, m, "RETURN"))
  BY ExceptingAndCatching
<1>3. /\ k[6] = Add(output, Dport(9090), "RETURN")
      /\ \A h \in 1 .. n : k[6 + h] = Add(output, Dport(ex[h]), "RETURN")
      /\ k[n + 11] = Add(output, OwnedByProxy, "RETURN")
      /\ k[n + 12] = Add(output, Established, "RETURN")
  BY DEF RedirectLayout
<1>4. /\ Catching(k[n + 7], "nat/PREROUTING", "nat/SENTINEL_INBOUND")
      /\ Catching(k[n + 8], "nat/OUTPUT", output)
      /\ Catching(k[n + 9], "nat/SENTINEL_INBOUND", "nat/SENTINEL_IN_REDIRECT")
      /\ Catching(k[n + 10], "nat/SENTINEL_IN_REDIRECT", "inboundPort")
      /\ Catching(k[n + 13], output, "nat/SENTINEL_REDIRECT")
      /\ Catching(k[n + 14], "nat/SENTINEL_REDIRECT", "outboundPort")
  <2>1. /\ k[n + 7] = Add("nat/PREROUTING", Tcp, "nat/SENTINEL_INBOUND")
        /\ k[n + 8] = Add("nat/OUTPUT", Tcp, output)
        /\ k[n + 9] = Add("nat/SENTINEL_INBOUND", Tcp, "nat/SENTINEL_IN_REDIRECT")
        /\ k[n + 10] = Add("nat/SENTINEL_IN_REDIRECT", Tcp, "inboundPort")
        /\ k[n + 13] = Add(output, Packets, "nat/SENTINEL_REDIRECT")
        /\ k[n + 14] = Add("nat/SENTINEL_REDIRECT", Tcp, "outboundPort")
    BY DEF RedirectLayout
  <2> HIDE DEF n, output
  <2> QED
    BY <2>1, ExceptingAndCatching
<1> HIDE DEF n, output, Out
<1>5. Out(k[6]) /\ Out(k[n + 11]) /\ Out(k[n + 12]) /\ \A h \in 1 .. n : Out(k[6 + h])
  BY <1>1, <1>2, <1>3
<1>6. CASE i = 6
  BY <1>0, <1>5, <1>6 DEF Out, output, n
<1>7. CASE i \in 7 .. n + 6
  <2>1. i - 6 \in 1 .. n /\ 6 + (i - 6) = i
    BY <1>0, <1>7
  <2>2. Out(k[i])
    BY <1>5, <2>1
  <2> QED
    BY <1>0, <1>7, <2>2 DEF Out, output, n
<1>8. CASE i \in n + 7 .. n + 14
  <2>1. \/ i = n + 7 \/ i = n + 8 \/ i = n + 9 \/ i = n + 10
        \/ i = n + 11 \/ i = n + 12 \/ i = n + 13 \/ i = n + 14
    BY <1>0, <1>8
  <2>2. CASE i = n + 11 \/ i = n + 12
    BY <1>0, <1>5, <2>2 DEF Out, output, n
  <2> QED
    BY <1>4, <2>1, <2>2 DEF output, n
<1> QED
  BY <1>0, <1>6, <1>7, <1>8

\* The list of the redirect mode has its commands in a good order, the flush first;
\* it fills chains of the nat table only.
LEMMA RedirectWellFormed ==
  ASSUME NEW ex \in Seq(Nat), NEW k, RedirectLayout(k, ex)
  PROVE  /\ WellFormed(k) /\ k[1].op = "-F"
         /\ \A i \in DOMAIN k : k[i].op = "-A" => k[i].chain \in NatChains
<1> DEFINE n == Len(ex)
           rules == 6 .. n + 14
<1>0. n \in Nat /\ DOMAIN k = 1 .. n + 14 /\ k \in Seq(CommandSet)
  BY DEF RedirectLayout
<1>1. /\ k[1] = Flush("nat") /\ k[2] = New("nat/SENTINEL_INBOUND")
      /\ k[3] = New("nat/SENTINEL_REDIRECT") /\ k[4] = New("nat/SENTINEL_OUTPUT")
      /\ k[5] = New("nat/SENTINEL_IN_REDIRECT")
  BY DEF RedirectLayout
<1>2. k[1].op = "-F" /\ \A i \in 2 .. 5 : k[i].op = "-N"
  BY <1>1, FormsOfCommands
<1>3. \A c \in NatChains \ BuiltIn : \E j \in 2 .. 5 : k[j].op = "-N" /\ k[j].chain = c
  BY <1>1, FormsOfCommands DEF NatChains, BuiltIn
<1>4. \A i \in rules : k[i].op = "-A" /\ k[i].chain \in NatChains
  BY RedirectPlaces, ExceptingAndCatching DEF NatChains
<1>5. \A i \in rules : k[i].rule.target \in Chains => k[i].rule.target \in NatChains
  <2>1. \A t \in {"nat/SENTINEL_INBOUND", "nat/SENTINEL_OUTPUT", "nat/SENTINEL_IN_REDIRECT",
                   "nat/SENTINEL_REDIRECT"} : t \in NatChains
    BY DEF NatChains
  <2>2. \A t \in {"RETURN", "inboundPort", "outboundPort"} : t \notin Chains
    BY DEF Chains, NatChains, MangleChains
  <2> QED
    BY <2>1, <2>2, RedirectPlaces, ExceptingAndCatching
<1>6. \A i \in DOMAIN k : i = 1 \/ i \in 2 .. 5 \/ i \in rules
  BY <1>0
<1>7. \A i \in DOMAIN k : (k[i].op = "-A" <=> i \in rules) /\ (k[i].op = "-F" <=> i = 1)
  BY <1>0, <1>2, <1>4, <1>6
<1>8. \A c \in Chains : \A i, j \in DOMAIN k : Excepts(k[i], c) /\ Catches(k[j], c) => i < j
  <2> SUFFICES ASSUME NEW c \in Chains, NEW i \in DOMAIN k, NEW j \in DOMAIN k,
                      Excepts(k[i], c), Catches(k[j], c)
               PROVE  i < j
    OBVIOUS
  <2>1. /\ k[i].op = "-A" /\ k[i].chain = c /\ k[i].rule.target = "RETURN"
        /\ k[j].op = "-A" /\ k[j].chain = c /\ k[j].rule.target # "RETURN"
    BY DEF Excepts, Catches, Appends
  <2>2. i \in rules /\ j \in rules
    BY <1>7, <2>1
  <2>3. c = "nat/SENTINEL_OUTPUT" /\ i < n + 13
    BY <2>1, <2>2, RedirectPlaces, ExceptingAndCatching
  <2>4. j = n + 13
    BY <2>1, <2>2, <2>3, RedirectPlaces, ExceptingAndCatching
  <2> QED
    BY <1>0, <2>3, <2>4
<1>9. \A i \in DOMAIN k : k[i].op = "-A" =>
         \A c \in Chains \ BuiltIn : c \in {k[i].chain, k[i].rule.target} =>
           \E j \in DOMAIN k : j < i /\ k[j].op = "-N" /\ k[j].chain = c
  <2> SUFFICES ASSUME NEW i \in DOMAIN k, k[i].op = "-A", NEW c \in Chains \ BuiltIn,
                      c = k[i].chain \/ c = k[i].rule.target
               PROVE  \E j \in DOMAIN k : j < i /\ k[j].op = "-N" /\ k[j].chain = c
    OBVIOUS
  <2>1. i \in rules
    BY <1>7
  <2>2. c \in NatChains \ BuiltIn
    BY <1>4, <1>5, <2>1
  <2>3. PICK j \in 2 .. 5 : k[j].op = "-N" /\ k[j].chain = c
    BY <1>3, <2>2
  <2>4. j \in DOMAIN k /\ j < i
    BY <1>0, <2>1
  <2> QED
    BY <2>3, <2>4
<1>10. \A i \in DOMAIN k : k[i].op = "-A" => \E j \in DOMAIN k : j < i /\ k[j].op = "-F"
  BY <1>0, <1>7
<1>11. \A i, j \in DOMAIN k : k[i].op = "-A" /\ k[j].op = "-F" => j < i
  BY <1>0, <1>7
<1>12. WellFormed(k)
  BY <1>0, <1>8, <1>9, <1>10, <1>11 DEF WellFormed
<1> QED
  BY <1>2, <1>4, <1>7, <1>12

\* Each of its chains gets its exceptions, and one target for all the rest.
LEMMA RedirectFilling ==
  ASSUME NEW ex \in Seq(Nat), NEW k, RedirectLayout(k, ex)
  PROVE  RedirectFills(k, ex)
<1> DEFINE n == Len(ex)
           rules == 6 .. n + 14
           output == "nat/SENTINEL_OUTPUT"
<1>0. n \in Nat /\ DOMAIN k = 1 .. n + 14 /\ DOMAIN ex = 1 .. n
  BY DEF RedirectLayout
<1>1. \A i \in DOMAIN k : k[i].op = "-A" => i \in rules
  <2>1. /\ k[1] = Flush("nat") /\ k[2] = New("nat/SENTINEL_INBOUND")
        /\ k[3] = New("nat/SENTINEL_REDIRECT") /\ k[4] = New(output)
        /\ k[5] = New("nat/SENTINEL_IN_REDIRECT")
    BY DEF RedirectLayout
  <2>2. \A i \in 1 .. 5 : k[i].op # "-A"
    BY <2>1, FormsOfCommands
  <2> QED
    BY <1>0, <2>2
<1>2. \A i \in DOMAIN k :
        /\ Appends(k[i], "nat/PREROUTING") => Catching(k[i], "nat/PREROUTING", "nat/SENTINEL_INBOUND")
        /\ Appends(k[i], "nat/OUTPUT") => Catching(k[i], "nat/OUTPUT", output)
        /\ Appends(k[i], "nat/SENTINEL_INBOUND") =>
             Catching(k[i], "nat/SENTINEL_INBOUND", "nat/SENTINEL_IN_REDIRECT")
        /\ Appends(k[i], "nat/SENTINEL_IN_REDIRECT") =>
             Catching(k[i], "nat/SENTINEL_IN_REDIRECT", "inboundPort")
        /\ Appends(k[i], "nat/SENTINEL_REDIRECT") =>
             Catching(k[i], "nat/SENTINEL_REDIRECT", "outboundPort")
        /\ Appends(k[i], output) =>
             \/ Catching(k[i], output, "nat/SENTINEL_REDIRECT")
             \/ Excepting(k[i], output, RedirectMatches(ex))
  <2> SUFFICES ASSUME NEW i \in DOMAIN k, NEW c, k[i].op = "-A", k[i].chain = c
               PROVE  /\ c = "nat/PREROUTING" => Catching(k[i], c, "nat/SENTINEL_INBOUND")
                      /\ c = "nat/OUTPUT" => Catching(k[i], c, output)
                      /\ c = "nat/SENTINEL_INBOUND" => Catching(k[i], c, "nat/SENTINEL_IN_REDIRECT")
                      /\ c = "nat/SENTINEL_IN_REDIRECT" => Catching(k[i], c, "inboundPort")
                      /\ c = "nat/SENTINEL_REDIRECT" => Catching(k[i], c, "outboundPort")
                      /\ c = output => \/ Catching(k[i], c, "nat/SENTINEL_REDIRECT")
                                       \/ Excepting(k[i], c, RedirectMatches(ex))
    BY DEF Appends
  <2>1. \/ Excepting(k[i], output, RedirectMatches(ex))
        \/ Catching(k[i], "nat/PREROUTING", "nat/SENTINEL_INBOUND")
        \/ Catching(k[i], "nat/OUTPUT", output)
        \/ Catching(k[i], "nat/SENTINEL_INBOUND", "nat/SENTINEL_IN_REDIRECT")
        \/ Catching(k[i], "nat/SENTINEL_IN_REDIRECT", "inboundPort")
        \/ Catching(k[i], output, "nat/SENTINEL_REDIRECT")
        \/ Catching(k[i], "nat/SENTINEL_REDIRECT", "outboundPort")
    BY <1>1, RedirectPlaces
  <2>2. CASE Excepting(k[i], output, RedirectMatches(ex))
    BY <2>2, ExceptingAndCatching
  <2>3. CASE Catching(k[i], "nat/PREROUTING", "nat/SENTINEL_INBOUND")
    BY <2>3, ExceptingAndCatching
  <2>4. CASE Catching(k[i], "nat/OUTPUT", output)
    BY <2>4, ExceptingAndCatching
  <2>5. CASE Catching(k[i], "nat/SENTINEL_INBOUND", "nat/SENTINEL_IN_REDIRECT")
    BY <2>5, ExceptingAndCatching
  <2>6. CASE Catching(k[i], "nat/SENTINEL_IN_REDIRECT", "inboundPort")
    BY <2>6, ExceptingAndCatching
  <2>7. CASE Catching(k[i], output, "nat/SENTINEL_REDIRECT")
    BY <2>7, ExceptingAndCatching
  <2>8. CASE Catching(k[i], "nat/SENTINEL_REDIRECT", "outboundPort")
    BY <2>8, ExceptingAndCatching
  <2> QED
    BY <2>1, <2>2, <2>3, <2>4, <2>5, <2>6, <2>7, <2>8
<1>3. /\ n + 7 \in DOMAIN k /\ n + 8 \in DOMAIN k /\ n + 9 \in DOMAIN k /\ n + 10 \in DOMAIN k
      /\ n + 11 \in DOMAIN k /\ n + 12 \in DOMAIN k /\ n + 13 \in DOMAIN k /\ n + 14 \in DOMAIN k
      /\ 6 \in DOMAIN k /\ \A h \in 1 .. n : 6 + h \in DOMAIN k
  BY <1>0
<1>4. /\ Catching(k[n + 7], "nat/PREROUTING", "nat/SENTINEL_INBOUND")
      /\ Catching(k[n + 8], "nat/OUTPUT", output)
      /\ Catching(k[n + 9], "nat/SENTINEL_INBOUND", "nat/SENTINEL_IN_REDIRECT")
      /\ Catching(k[n + 10], "nat/SENTINEL_IN_REDIRECT", "inboundPort")
      /\ Catching(k[n + 13], output, "nat/SENTINEL_REDIRECT")
      /\ Catching(k[n + 14], "nat/SENTINEL_REDIRECT", "outboundPort")
  <2>1. /\ k[n + 7] = Add("nat/PREROUTING", Tcp, "nat/SENTINEL_INBOUND")
        /\ k[n + 8] = Add("nat/OUTPUT", Tcp, output)
        /\ k[n + 9] = Add("nat/SENTINEL_INBOUND", Tcp, "nat/SENTINEL_IN_REDIRECT")
        /\ k[n + 10] = Add("nat/SENTINEL_IN_REDIRECT", Tcp, "inboundPort")
        /\ k[n + 13] = Add(output, Packets, "nat/SENTINEL_REDIRECT")
        /\ k[n + 14] = Add("nat/SENTINEL_REDIRECT", Tcp, "outboundPort")
    BY DEF RedirectLayout
  <2> HIDE DEF n, output
  <2> QED
    BY <2>1, ExceptingAndCatching
<1>5. \A c, m : Appends(Add(c, m, "RETURN"), c) /\ Add(c, m, "RETURN").rule = Exception(m)
  BY RulesOfCommands, FormsOfCommands DEF Appends
<1>6. ASSUME NEW m \in RedirectMatches(ex)
      PROVE  \E j \in DOMAIN k : Appends(k[j], output) /\ k[j].rule = Exception(m)
  <2>1. m \in {Dport(9090), OwnedByProxy, Established} \/ \E h \in 1 .. n : m = Dport(ex[h])
    BY DEF RedirectMatches, Dports, ToSet
  <2>2. /\ k[6] = Add(output, Dport(9090), "RETURN")
        /\ k[n + 11] = Add(output, OwnedByProxy, "RETURN")
        /\ k[n + 12] = Add(output, Established, "RETURN")
        /\ \A h \in 1 .. n : k[6 + h] = Add(output, Dport(ex[h]), "RETURN")
    BY DEF RedirectLayout
  <2>3. \E j \in DOMAIN k : k[j] = Add(output, m, "RETURN")
    BY <1>3, <2>1, <2>2
  <2> QED
    BY <1>5, <2>3
<1> HIDE DEF n
<1>7. /\ Fills(k, "nat/PREROUTING", {}, "nat/SENTINEL_INBOUND")
      /\ Fills(k, "nat/OUTPUT", {}, output)
  BY <1>2, <1>3, <1>4 DEF Fills, Catching
<1>8. /\ Fills(k, "nat/SENTINEL_INBOUND", {}, "nat/SENTINEL_IN_REDIRECT")
      /\ Fills(k, "nat/SENTINEL_IN_REDIRECT", {}, "inboundPort")
      /\ Fills(k, "nat/SENTINEL_REDIRECT", {}, "outboundPort")
  BY <1>2, <1>3, <1>4 DEF Fills, Catching
<1>9. Fills(k, output, RedirectMatches(ex), "nat/SENTINEL_REDIRECT")
  BY <1>2, <1>3, <1>4, <1>6 DEF Fills, Catching, Excepting
<1> QED
  BY <1>7, <1>8, <1>9 DEF RedirectFills

\* The chains that the TPROXY mode fills, and what with.
InboundMatches(ex) == {Dport(443), Dport(9090), Established} \cup Dports(ToSet(ex))
OutputMatches(ex) ==
    {Dport(ServicePort), Dport(443), Dport(9090), OwnedByProxy, Established} \cup Dports(ToSet(ex))
TProxyFills(k, ex) ==
    /\ Fills(k, "mangle/PREROUTING", {}, "mangle/SENTINEL_INBOUND")
    /\ Fills(k, "mangle/SENTINEL_INBOUND", InboundMatches(ex), "TPROXY")
    /\ Fills(k, "nat/OUTPUT", {Dport(443)}, "nat/SENTINEL_OUTPUT")
    /\ Fills(k, "nat/SENTINEL_OUTPUT", OutputMatches(ex), "outboundPort")

\* The places of the TPROXY mode's commands.
LEMMA TProxyPlaces ==
  ASSUME NEW ex \in Seq(Nat), NEW k, TProxyLayout(k, ex), NEW i \in 4 .. 2 * Len(ex) + 16
  PROVE  \/ i < 2 * Len(ex) + 14 /\ Excepting(k[i], "nat/SENTINEL_OUTPUT", OutputMatches(ex))
         \/ i < 2 * Len(ex) + 12 /\ Excepting(k[i], "mangle/SENTINEL_INBOUND", InboundMatches(ex))
         \/ i = 2 * Len(ex) + 14 /\ Excepting(k[i], "nat/OUTPUT", {Dport(443)})
         \/ i = 2 * Len(ex) + 10 /\ Catching(k[i], "mangle/PREROUTING", "mangle/SENTINEL_INBOUND")
         \/ i = 2 * Len(ex) + 12 /\ Catching(k[i], "mangle/SENTINEL_INBOUND", "TPROXY")
         \/ i = 2 * Len(ex) + 15 /\ Catching(k[i], "nat/OUTPUT", "nat/SENTINEL_OUTPUT")
         \/ i = 2 * Len(ex) + 16 /\ Catching(k[i], "nat/SENTINEL_OUTPUT", "outboundPort")
<1> DEFINE n == Len(ex)
           inbound == "mangle/SENTINEL_INBOUND"
           output == "nat/SENTINEL_OUTPUT"
           In(x) == Excepting(x, inbound, InboundMatches(ex))
           Out(x) == Excepting(x, output, OutputMatches(ex))
<1>0. n \in Nat /\ i \in 4 .. 2 * n + 16
  OBVIOUS
<1>1. \A h \in 1 .. n : Dport(ex[h]) \in Dports(ToSet(ex))
  BY DEF Dports, ToSet
<1>2. /\ \A m \in InboundMatches(ex) : In(Add(inbound, m, "RETURN"))
      /\ \A m \in OutputMatches(ex) : Out(Add(output, m, "RETURN"))
  BY ExceptingAndCatching
<1>3. /\ {Dport(443), Dport(9090), Established} \subseteq InboundMatches(ex)
      /\ {Dport(ServicePort), Dport(443), Dport(9090), OwnedByProxy, Established}
           \subseteq OutputMatches(ex)
      /\ \A h \in 1 .. n : Dport(ex[h]) \in InboundMatches(ex) /\ Dport(ex[h]) \in OutputMatches(ex)
  BY <1>1 DEF InboundMatches, OutputMatches
<1>4. \A h \in 1 .. n : In(k[9 + h]) /\ Out(k[9 + n + h])
  <2>1. \A h \in 1 .. n : /\ k[9 + h] = Add(inbound, Dport(ex[h]), "RETURN")
                          /\ k[9 + n + h] = Add(output, Dport(ex[h]), "RETURN")
    BY DEF TProxyLayout
  <2> HIDE DEF In, Out
  <2> QED
    BY <1>2, <1>3, <2>1
<1>5. /\ Out(k[4]) /\ In(k[5]) /\ In(k[6]) /\ Out(k[7]) /\ Out(k[8]) /\ Out(k[9])
      /\ In(k[2 * n + 11]) /\ Out(k[2 * n + 13])
  <2>1. /\ k[4] = Add(output, OwnedByProxy, "RETURN")
        /\ k[5] = Add(inbound, Dport(443), "RETURN") /\ k[6] = Add(inbound, Dport(9090), "RETURN")
        /\ k[7] = Add(output, Dport(ServicePort), "RETURN")
        /\ k[8] = Add(output, Dport(443), "RETURN") /\ k[9] = Add(output, Dport(9090), "RETURN")
        /\ k[2 * n + 11] = Add(inbound, Established, "RETURN")
        /\ k[2 * n + 13] = Add(output, Established, "RETURN")
    BY DEF TProxyLayout
  <2> HIDE DEF In, Out, n
  <2> QED
    BY <1>2, <1>3, <2>1
<1>6. /\ Catching(k[2 * n + 10], "mangle/PREROUTING", inbound)
      /\ Catching(k[2 * n + 12], inbound, "TPROXY")
      /\ Excepting(k[2 * n + 14], "nat/OUTPUT", {Dport(443)})
      /\ Catching(k[2 * n + 15], "nat/OUTPUT", output)
      /\ Catching(k[2 * n + 16], output, "outboundPort")
  <2>1. /\ k[2 * n + 10] = Add("mangle/PREROUTING", Tcp, inbound)
        /\ k[2 * n + 12] = Add(inbound, Tcp, "TPROXY")
        /\ k[2 * n + 14] = Add("nat/OUTPUT", Dport(443), "RETURN")
        /\ k[2 * n + 15] = Add("nat/OUTPUT", Tcp, output)
        /\ k[2 * n + 16] = Add(output, Tcp, "outboundPort")
    BY DEF TProxyLayout
  <2>2. Dport(443) \in {Dport(443)}
    OBVIOUS
  <2> HIDE DEF n, inbound, output
  <2> QED
    BY <2>1, <2>2, ExceptingAndCatching
<1> HIDE DEF n, In, Out
<1>7. CASE i \in 4 .. 9
  <2>1. i = 4 \/ i = 5 \/ i = 6 \/ i = 7 \/ i = 8 \/ i = 9
    BY <1>7
  <2>2. Out(k[i]) \/ In(k[i])
    BY <1>5, <2>1
  <2> QED
    BY <1>0, <1>7, <2>2 DEF In, Out, n
<1>8. CASE i \in 10 .. n + 9
  <2>1. i - 9 \in 1 .. n /\ 9 + (i - 9) = i
    BY <1>0, <1>8
  <2>2. In(k[i])
    BY <1>4, <2>1
  <2> QED
    BY <1>0, <1>8, <2>2 DEF In, n
<1>9. CASE i \in n + 10 .. 2 * n + 9
  <2>1. i - n - 9 \in 1 .. n /\ 9 + n + (i - n - 9) = i
    BY <1>0, <1>9
  <2>2. Out(k[i])
    BY <1>4, <2>1
  <2> QED
    BY <1>0, <1>9, <2>2 DEF Out, n
<1>10. CASE i \in 2 * n + 10 .. 2 * n + 16
  <2>1. \/ i = 2 * n + 10 \/ i = 2 * n + 11 \/ i = 2 * n + 12 \/ i = 2 * n + 13
        \/ i = 2 * n + 14 \/ i = 2 * n + 15 \/ i = 2 * n + 16
    BY <1>0, <1>10
  <2>2. CASE i = 2 * n + 11
    BY <1>0, <1>5, <2>2 DEF In, n
  <2>3. CASE i = 2 * n + 13
    BY <1>0, <1>5, <2>3 DEF Out, n
  <2> QED
    BY <1>0, <1>6, <2>1, <2>2, <2>3 DEF n
<1> QED
  BY <1>0, <1>7, <1>8, <1>9, <1>10

\* What follows the rules is the routing.
TProxyEnd(k, ex) ==
    /\ Len(k) = 2 * Len(ex) + 18
    /\ k[2 * Len(ex) + 17] = Ip("rule") /\ k[2 * Len(ex) + 18] = Ip("route")

\* The list of the TPROXY mode has its commands in a good order.
LEMMA TProxyWellFormed ==
  ASSUME NEW ex \in Seq(Nat), NEW k, TProxyLayout(k, ex), TProxyEnd(k, ex)
  PROVE  WellFormed(k)
<1> DEFINE n == Len(ex)
           rules == 4 .. 2 * n + 16
<1>0. n \in Nat /\ DOMAIN k = 1 .. 2 * n + 18 /\ k \in Seq(CommandSet)
  BY DEF TProxyLayout, TProxyEnd
<1>1. /\ k[1].op = "-N" /\ k[1].chain = "mangle/SENTINEL_INBOUND"
      /\ k[2].op = "-F"
      /\ k[3].op = "-N" /\ k[3].chain = "nat/SENTINEL_OUTPUT"
      /\ k[2 * n + 17].op = "ip" /\ k[2 * n + 18].op = "ip"
  <2>1. /\ k[1] = New("mangle/SENTINEL_INBOUND") /\ k[2] = Flush("nat")
        /\ k[3] = New("nat/SENTINEL_OUTPUT")
        /\ k[2 * n + 17] = Ip("rule") /\ k[2 * n + 18] = Ip("route")
    BY DEF TProxyLayout, TProxyEnd
  <2> QED
    BY <2>1, FormsOfCommands
<1>2. \A i \in rules : k[i].op = "-A"
  BY TProxyPlaces, ExceptingAndCatching
<1>3. \A i \in DOMAIN k : i \in rules \/ i \in {1, 2, 3, 2 * n + 17, 2 * n + 18}
  BY <1>0
<1>4. \A i \in DOMAIN k : (k[i].op = "-A" <=> i \in rules) /\ (k[i].op = "-F" <=> i = 2)
  BY <1>0, <1>1, <1>2, <1>3
<1>5. \A i \in rules : \A c \in Chains \ BuiltIn :
        c \in {k[i].chain, k[i].rule.target} => c \in {"mangle/SENTINEL_INBOUND", "nat/SENTINEL_OUTPUT"}
  <2> SUFFICES ASSUME NEW i \in rules, NEW c \in Chains \ BuiltIn,
                      c = k[i].chain \/ c = k[i].rule.target
               PROVE  c \in {"mangle/SENTINEL_INBOUND", "nat/SENTINEL_OUTPUT"}
    OBVIOUS
  <2>1. c \notin {"RETURN", "TPROXY", "outboundPort", "nat/OUTPUT", "mangle/PREROUTING"}
    BY DEF Chains, NatChains, MangleChains, BuiltIn
  <2> QED
    BY <2>1, TProxyPlaces, ExceptingAndCatching
<1>6. \A c \in Chains : \A i, j \in DOMAIN k : Excepts(k[i], c) /\ Catches(k[j], c) => i < j
  <2> SUFFICES ASSUME NEW c \in Chains, NEW i \in DOMAIN k, NEW j \in DOMAIN k,
                      Excepts(k[i], c), Catches(k[j], c)
               PROVE  i < j
    OBVIOUS
  <2>1. /\ k[i].op = "-A" /\ k[i].chain = c /\ k[i].rule.target = "RETURN"
        /\ k[j].op = "-A" /\ k[j].chain = c /\ k[j].rule.target # "RETURN"
    BY DEF Excepts, Catches, Appends
  <2>2. i \in rules /\ j \in rules
    BY <1>4, <2>1
  <2>3. \/ c = "nat/SENTINEL_OUTPUT" /\ i < 2 * n + 14
        \/ c = "mangle/SENTINEL_INBOUND" /\ i < 2 * n + 12
        \/ c = "nat/OUTPUT" /\ i = 2 * n + 14
    BY <2>1, <2>2, TProxyPlaces, ExceptingAndCatching
  <2>4. \/ c = "mangle/PREROUTING"
        \/ c = "nat/SENTINEL_OUTPUT" /\ j = 2 * n + 16
        \/ c = "mangle/SENTINEL_INBOUND" /\ j = 2 * n + 12
        \/ c = "nat/OUTPUT" /\ j = 2 * n + 15
    BY <2>1, <2>2, TProxyPlaces, ExceptingAndCatching
  <2> QED
    BY <1>0, <2>3, <2>4
<1>7. \A i \in DOMAIN k : k[i].op = "-A" =>
         \A c \in Chains \ BuiltIn : c \in {k[i].chain, k[i].rule.target} =>
           \E j \in DOMAIN k : j < i /\ k[j].op = "-N" /\ k[j].chain = c
  <2>1. 1 \in DOMAIN k /\ 3 \in DOMAIN k /\ \A i \in rules : 1 < i /\ 3 < i
    BY <1>0
  <2> QED
    BY <1>1, <1>4, <1>5, <2>1
<1>8. \A i \in DOMAIN k : k[i].op = "-A" => \E j \in DOMAIN k : j < i /\ k[j].op = "-F"
  BY <1>0, <1>4
<1>9. \A i, j \in DOMAIN k : k[i].op = "-A" /\ k[j].op = "-F" => j < i
  BY <1>0, <1>4
<1> QED
  BY <1>0, <1>6, <1>7, <1>8, <1>9 DEF WellFormed

\* Each of its chains gets its exceptions, and one target for all the rest;
\* connections from outside are left to the mangle table.
LEMMA TProxyFilling ==
  ASSUME NEW ex \in Seq(Nat), NEW k, TProxyLayout(k, ex), TProxyEnd(k, ex)
  PROVE  TProxyFills(k, ex) /\ \A i \in DOMAIN k : ~Appends(k[i], "nat/PREROUTING")
<1> DEFINE n == Len(ex)
           rules == 4 .. 2 * n + 16
           inbound == "mangle/SENTINEL_INBOUND"
           output == "nat/SENTINEL_OUTPUT"
<1>0. n \in Nat /\ DOMAIN k = 1 .. 2 * n + 18 /\ rules \subseteq DOMAIN k
  BY DEF TProxyLayout, TProxyEnd
<1>1. \A i \in DOMAIN k : k[i].op = "-A" => i \in rules
  <2>1. /\ k[1].op # "-A" /\ k[2].op # "-A" /\ k[3].op # "-A"
        /\ k[2 * n + 17].op # "-A" /\ k[2 * n + 18].op # "-A"
    <3>1. /\ k[1] = New(inbound) /\ k[2] = Flush("nat") /\ k[3] = New(output)
          /\ k[2 * n + 17] = Ip("rule") /\ k[2 * n + 18] = Ip("route")
      BY DEF TProxyLayout, TProxyEnd
    <3> QED
      BY <3>1, FormsOfCommands
  <2>2. \A i \in DOMAIN k : i \in rules \/ i \in {1, 2, 3, 2 * n + 17, 2 * n + 18}
    BY <1>0
  <2> QED
    BY <2>1, <2>2
<1>2. \A i \in DOMAIN k :
        /\ ~Appends(k[i], "nat/PREROUTING")
        /\ Appends(k[i], "mangle/PREROUTING") => Catching(k[i], "mangle/PREROUTING", inbound)
        /\ Appends(k[i], inbound) =>
             Catching(k[i], inbound, "TPROXY") \/ Excepting(k[i], inbound, InboundMatches(ex))
        /\ Appends(k[i], "nat/OUTPUT") =>
             Catching(k[i], "nat/OUTPUT", output) \/ Excepting(k[i], "nat/OUTPUT", {Dport(443)})
        /\ Appends(k[i], output) =>
             Catching(k[i], output, "outboundPort") \/ Excepting(k[i], output, OutputMatches(ex))
  <2> SUFFICES ASSUME NEW i \in DOMAIN k, k[i].op = "-A"
               PROVE  /\ k[i].chain # "nat/PREROUTING"
                      /\ k[i].chain = "mangle/PREROUTING" =>
                           Catching(k[i], "mangle/PREROUTING", inbound)
                      /\ k[i].chain = inbound =>
                           \/ Catching(k[i], inbound, "TPROXY")
                           \/ Excepting(k[i], inbound, InboundMatches(ex))
                      /\ k[i].chain = "nat/OUTPUT" =>
                           \/ Catching(k[i], "nat/OUTPUT", output)
                           \/ Excepting(k[i], "nat/OUTPUT", {Dport(443)})
                      /\ k[i].chain = output =>
                           \/ Catching(k[i], output, "outboundPort")
                           \/ Excepting(k[i], output, OutputMatches(ex))
    BY DEF Appends
  <2>1. i \in rules
    BY <1>1
  <2>2. \/ Excepting(k[i], output, OutputMatches(ex))
        \/ Excepting(k[i], inbound, InboundMatches(ex))
        \/ Excepting(k[i], "nat/OUTPUT", {Dport(443)})
        \/ Catching(k[i], "mangle/PREROUTING", inbound)
        \/ Catching(k[i], inbound, "TPROXY")
        \/ Catching(k[i], "nat/OUTPUT", output)
        \/ Catching(k[i], output, "outboundPort")
    BY <2>1, TProxyPlaces, Zenon
  <2>3. CASE Excepting(k[i], output, OutputMatches(ex))
    BY <2>3, ExceptingAndCatching
  <2>4. CASE Excepting(k[i], inbound, InboundMatches(ex))
    BY <2>4, ExceptingAndCatching
  <2>5. CASE Excepting(k[i], "nat/OUTPUT", {Dport(443)})
    BY <2>5, ExceptingAndCatching
  <2>6. CASE Catching(k[i], "mangle/PREROUTING", inbound)
    BY <2>6, ExceptingAndCatching
  <2>7. CASE Catching(k[i], inbound, "TPROXY")
    BY <2>7, ExceptingAndCatching
  <2>8. CASE Catching(k[i], "nat/OUTPUT", output)
    BY <2>8, ExceptingAndCatching
  <2>9. CASE Catching(k[i], output, "outboundPort")
    BY <2>9, ExceptingAndCatching
  <2> QED
    BY <2>2, <2>3, <2>4, <2>5, <2>6, <2>7, <2>8, <2>9
<1>3. /\ 2 * n + 10 \in DOMAIN k /\ 2 * n + 11 \in DOMAIN k /\ 2 * n + 12 \in DOMAIN k
      /\ 2 * n + 13 \in DOMAIN k /\ 2 * n + 14 \in DOMAIN k /\ 2 * n + 15 \in DOMAIN k
      /\ 2 * n + 16 \in DOMAIN k /\ 4 .. 9 \subseteq DOMAIN k
      /\ \A h \in 1 .. n : 9 + h \in DOMAIN k /\ 9 + n + h \in DOMAIN k
  BY <1>0
<1>4. /\ Catching(k[2 * n + 10], "mangle/PREROUTING", inbound)
      /\ Catching(k[2 * n + 12], inbound, "TPROXY")
      /\ Catching(k[2 * n + 15], "nat/OUTPUT", output)
      /\ Catching(k[2 * n + 16], output, "outboundPort")
  <2>1. /\ k[2 * n + 10] = Add("mangle/PREROUTING", Tcp, inbound)
        /\ k[2 * n + 12] = Add(inbound, Tcp, "TPROXY")
        /\ k[2 * n + 15] = Add("nat/OUTPUT", Tcp, output)
        /\ k[2 * n + 16] = Add(output, Tcp, "outboundPort")
    BY DEF TProxyLayout
  <2> HIDE DEF n, inbound, output
  <2> QED
    BY <2>1, ExceptingAndCatching
<1>5. \A c, m : Appends(Add(c, m, "RETURN"), c) /\ Add(c, m, "RETURN").rule = Exception(m)
  BY RulesOfCommands, FormsOfCommands DEF Appends
<1>6. ASSUME NEW m \in {Dport(443)}
      PROVE  \E j \in DOMAIN k : Appends(k[j], "nat/OUTPUT") /\ k[j].rule = Exception(m)
  <2>1. k[2 * n + 14] = Add("nat/OUTPUT", Dport(443), "RETURN")
    BY DEF TProxyLayout
  <2>2. 2 * n + 14 \in DOMAIN k
    BY <1>3
  <2>3. m = Dport(443)
    OBVIOUS
  <2>4. \E j \in DOMAIN k : k[j] = Add("nat/OUTPUT", m, "RETURN")
    BY <2>1, <2>2, <2>3
  <2> QED
    BY <1>5, <2>4
<1>7. ASSUME NEW m \in InboundMatches(ex)
      PROVE  \E j \in DOMAIN k : Appends(k[j], inbound) /\ k[j].rule = Exception(m)
  <2>1. m \in {Dport(443), Dport(9090), Established} \/ \E h \in 1 .. n : m = Dport(ex[h])
    BY DEF InboundMatches, Dports, ToSet
  <2>2. /\ k[5] = Add(inbound, Dport(443), "RETURN") /\ k[6] = Add(inbound, Dport(9090), "RETURN")
        /\ k[2 * n + 11] = Add(inbound, Established, "RETURN")
        /\ \A h \in 1 .. n : k[9 + h] = Add(inbound, Dport(ex[h]), "RETURN")
    BY DEF TProxyLayout
  <2>3. \E j \in DOMAIN k : k[j] = Add(inbound, m, "RETURN")
    BY <1>3, <2>1, <2>2
  <2> QED
    BY <1>5, <2>3
<1>8. ASSUME NEW m \in OutputMatches(ex)
      PROVE  \E j \in DOMAIN k : Appends(k[j], output) /\ k[j].rule = Exception(m)
  <2>1. \/ m \in {Dport(ServicePort), Dport(443), Dport(9090), OwnedByProxy, Established}
        \/ \E h \in 1 .. n : m = Dport(ex[h])
    BY DEF OutputMatches, Dports, ToSet
  <2>2. /\ k[4] = Add(output, OwnedByProxy, "RETURN")
        /\ k[7] = Add(output, Dport(ServicePort), "RETURN")
        /\ k[8] = Add(output, Dport(443), "RETURN") /\ k[9] = Add(output, Dport(9090), "RETURN")
        /\ k[2 * n + 13] = Add(output, Established, "RETURN")
        /\ \A h \in 1 .. n : k[9 + n + h] = Add(output, Dport(ex[h]), "RETURN")
    BY DEF TProxyLayout
  <2>3. \E j \in DOMAIN k : k[j] = Add(output, m, "RETURN")
    BY <1>3, <2>1, <2>2
  <2> QED
    BY <1>5, <2>3
<1> HIDE DEF n
<1>9. Fills(k, "mangle/PREROUTING", {}, inbound)
  BY <1>2, <1>3, <1>4 DEF Fills, Catching
<1>10. Fills(k, inbound, InboundMatches(ex), "TPROXY")
  BY <1>2, <1>3, <1>4, <1>7 DEF Fills, Catching, Excepting
<1>11. Fills(k, "nat/OUTPUT", {Dport(443)}, output)
  BY <1>2, <1>3, <1>4, <1>6 DEF Fills, Catching, Excepting
<1>12. Fills(k, output, OutputMatches(ex), "outboundPort")
  BY <1>2, <1>3, <1>4, <1>8 DEF Fills, Catching, Excepting
<1> QED
  BY <1>2, <1>9, <1>10, <1>11, <1>12 DEF TProxyFills

\* The argument -excludePorts is a sequence of ports.
LEMMA ExcludesTypes == Excludes \subseteq Seq(Nat)
BY PortsAssumption DEF Excludes

\* What the proofs below use of the commands of a run.
CommandFacts(k, m, dry, ex) ==
    /\ WellFormed(k)
    /\ m = "REDIRECT" =>
         /\ \A i \in DOMAIN k : k[i].op = "-A" => k[i].chain \in NatChains
         /\ k # << >> => k[1].op = "-F"
         /\ ~dry => RedirectFills(k, ex)
    /\ m = "TPROXY" =>
         /\ \A what \in {"rule", "route"} : \E i \in DOMAIN k : k[i].op = "ip" /\ k[i].what = what
         /\ ~dry => TProxyFills(k, ex) /\ \A i \in DOMAIN k : ~Appends(k[i], "nat/PREROUTING")
    /\ dry => \A i \in DOMAIN k : k[i].op # "-A"

\* What is known of the commands of either mode, dry or not.
LEMMA CommandsHaveFacts ==
  ASSUME NEW m \in Modes, NEW dry \in BOOLEAN, NEW ex \in Excludes
  PROVE  CommandFacts(Commands(m, dry, ex), m, dry, ex)
<1> DEFINE k == Commands(m, dry, ex)
<1>0. ex \in Seq(Nat)
  BY ExcludesTypes
<1>1. /\ << >> \in Seq(CommandSet) /\ SetupRouting \in Seq(CommandSet)
      /\ Len(SetupRouting) = 2 /\ SetupRouting[1] = Ip("rule") /\ SetupRouting[2] = Ip("route")
  BY CommandTypes DEF SetupRouting
<1>2. CASE m = "REDIRECT" /\ dry
  <2>1. k = << >>
    BY <1>2 DEF Commands
  <2>2. \A i \in DOMAIN k : FALSE
    BY <2>1
  <2> HIDE DEF k
  <2>3. WellFormed(k)
    BY <1>1, <2>1, <2>2 DEF WellFormed
  <2> QED
    BY <1>2, <2>1, <2>2, <2>3 DEF CommandFacts, k
<1>3. CASE m = "REDIRECT" /\ ~dry
  <2>1. RedirectLayout(BuildRedirectRules(ex), ex)
    BY <1>0, RedirectCommands
  <2>2. BuildRedirectRules(ex) \in Seq(CommandSet)
    BY <2>1 DEF RedirectLayout
  <2>3. k = BuildRedirectRules(ex)
    <3>1. k = BuildRedirectRules(ex) \o << >>
      BY <1>3 DEF Commands
    <3> HIDE DEF k
    <3> QED
      BY <2>2, <3>1, ConcatEmptySeq
  <2> HIDE DEF k
  <2>4. RedirectLayout(k, ex)
    BY <2>1, <2>3
  <2>5. /\ WellFormed(k) /\ k[1].op = "-F"
        /\ \A i \in DOMAIN k : k[i].op = "-A" => k[i].chain \in NatChains
    BY <1>0, <2>4, RedirectWellFormed
  <2>6. RedirectFills(k, ex)
    BY <1>0, <2>4, RedirectFilling
  <2> QED
    BY <1>3, <2>5, <2>6 DEF CommandFacts, k
<1>4. CASE m = "TPROXY" /\ dry
  <2>1. k = SetupRouting
    <3>1. k = << >> \o SetupRouting
      BY <1>4 DEF Commands
    <3> HIDE DEF k
    <3> QED
      BY <1>1, <3>1, ConcatEmptySeq
  <2> HIDE DEF k
  <2>2. DOMAIN k = {1, 2} /\ k \in Seq(CommandSet) /\ k[1] = Ip("rule") /\ k[2] = Ip("route")
    BY <1>1, <2>1
  <2>3. /\ k[1].op = "ip" /\ k[1].what = "rule" /\ k[2].op = "ip" /\ k[2].what = "route"
    BY <2>2, FormsOfCommands
  <2>4. \A i \in DOMAIN k : k[i].op = "ip"
    BY <2>2, <2>3
  <2>5. WellFormed(k)
    BY <2>2, <2>4 DEF WellFormed, Excepts, Appends
  <2> QED
    BY <1>4, <2>2, <2>3, <2>4, <2>5 DEF CommandFacts, k
<1>5. CASE m = "TPROXY" /\ ~dry
  <2> DEFINE rules == BuildTProxyRules(ex)
             n == Len(ex)
  <2>1. TProxyLayout(rules, ex) /\ Len(rules) = 2 * n + 16
    BY <1>0, TProxyCommands
  <2>2. rules \in Seq(CommandSet) /\ SetupRouting \in Seq(CommandSet)
    BY <1>1, <2>1 DEF TProxyLayout
  <2>3. k = rules \o SetupRouting
    BY <1>5 DEF Commands
  <2>4. n \in Nat
    BY <1>0
  <2> HIDE DEF rules, k, n
  <2>5. /\ rules \o SetupRouting \in Seq(CommandSet)
        /\ Len(rules \o SetupRouting) = Len(rules) + Len(SetupRouting)
        /\ \A i \in 1 .. Len(rules) : (rules \o SetupRouting)[i] = rules[i]
        /\ \A i \in 1 .. Len(SetupRouting) : (rules \o SetupRouting)[Len(rules) + i] = SetupRouting[i]
    BY <2>2, Joined, Zenon
  <2>6. /\ k \in Seq(CommandSet) /\ Len(k) = Len(rules) + 2
        /\ \A i \in 1 .. Len(rules) : k[i] = rules[i]
        /\ \A i \in 1 .. 2 : k[Len(rules) + i] = SetupRouting[i]
    BY <1>1, <2>3, <2>5
  <2>7. k[2 * n + 17] = Ip("rule") /\ k[2 * n + 18] = Ip("route") /\ Len(k) = 2 * n + 18
    BY <1>1, <2>1, <2>4, <2>6
  <2>8. \A i \in 1 .. 2 * n + 16 : k[i] = rules[i]
    BY <2>1, <2>6
  <2>9. TProxyLayout(k, ex)
    <3>1. /\ \A i \in 1 .. 9 : k[i] = rules[i]
          /\ \A i \in 1 .. n : k[9 + i] = rules[9 + i] /\ k[9 + n + i] = rules[9 + n + i]
          /\ k[2 * n + 10] = rules[2 * n + 10] /\ k[2 * n + 11] = rules[2 * n + 11]
          /\ k[2 * n + 12] = rules[2 * n + 12] /\ k[2 * n + 13] = rules[2 * n + 13]
          /\ k[2 * n + 14] = rules[2 * n + 14] /\ k[2 * n + 15] = rules[2 * n + 15]
          /\ k[2 * n + 16] = rules[2 * n + 16]
      BY <2>4, <2>8
    <3>2. Len(k) >= 2 * n + 16
      BY <2>4, <2>7
    <3> QED
      BY <2>1, <2>6, <3>1, <3>2 DEF TProxyLayout, n
  <2>10. TProxyEnd(k, ex)
    BY <2>7 DEF TProxyEnd, n
  <2>11. WellFormed(k)
    BY <1>0, <2>9, <2>10, TProxyWellFormed
  <2>12. TProxyFills(k, ex) /\ \A i \in DOMAIN k : ~Appends(k[i], "nat/PREROUTING")
    BY <1>0, <2>9, <2>10, TProxyFilling
  <2>13. \A what \in {"rule", "route"} : \E i \in DOMAIN k : k[i].op = "ip" /\ k[i].what = what
    BY <2>4, <2>6, <2>7, FormsOfCommands
  <2> QED
    BY <1>5, <2>11, <2>12, <2>13 DEF CommandFacts, k
<1> QED
  BY <1>2, <1>3, <1>4, <1>5 DEF Modes

-----------------------------------------------------------------------------
(* The invariant                                                            *)

K == Commands(mode, dryRun, exclude)
Done == Len(K) - Len(todo)

\* The types; what is left is the end of the commands, and all that the chains
\* hold is from the commands: a rule jumps to a chain that exists.
TablesInv ==
    /\ mode \in Modes /\ dryRun \in BOOLEAN /\ exclude \in Excludes
    /\ BuiltIn \subseteq DOMAIN chains /\ DOMAIN chains \subseteq Chains
    /\ chains \in [DOMAIN chains -> Seq(Rules)]
    /\ todo \in Seq(CommandSet) /\ Len(todo) <= Len(K)
    /\ \A i \in 1 .. Len(todo) : todo[i] = K[Done + i]
    /\ routing \subseteq {"rule", "route"}
    /\ status \in {"running", "success"} /\ (status = "success" => todo = << >>)
    /\ reruns \in 0 .. MaxReruns
    /\ faults \in Nat /\ earlier \in Nat /\ faults + earlier <= MaxFaults
    /\ \A c \in DOMAIN chains : \A i \in DOMAIN chains[c] :
         /\ \E j \in DOMAIN K : Appends(K[j], c) /\ K[j].rule = chains[c][i]
         /\ chains[c][i].target \in Chains => chains[c][i].target \in DOMAIN chains

\* A run without faults has brought about all that its commands so far are for,
\* the ones that were rejected included.
DoneInv ==
    faults = 0 => \A j \in 1 .. Done :
        /\ K[j].op = "-N" => K[j].chain \in DOMAIN chains
        /\ K[j].op = "-A" =>
             /\ K[j].chain \in DOMAIN chains
             /\ \E i \in DOMAIN chains[K[j].chain] : chains[K[j].chain][i] = K[j].rule
        /\ K[j].op = "ip" => K[j].what \in routing

\* No rule of the tables comes from a run with a fault.
Clean == faults = 0 /\ (earlier = 0 \/ (mode = "REDIRECT" /\ Done > 0))

\* In such tables a chain has all its exceptions before it catches anything.
OrderInv ==
    Clean => \A c \in DOMAIN chains : \A i \in DOMAIN chains[c] :
        chains[c][i].target # "RETURN" =>
            \A j \in DOMAIN K : Excepts(K[j], c) => \E h \in 1 .. i - 1 : chains[c][h] = K[j].rule

\* The places among the first d commands that fill a chain.
FirstRules(chain, d) == {i \in 1 .. d : Appends(K[i], chain)}

\* A chain of the nat table has one rule at most for each command that has filled
\* it since the flush of this run; before the flush, for each command.
SizeInv ==
    NoFaults => \A c \in DOMAIN chains \cap NatChains :
        /\ Len(chains[c]) <= Cardinality(RulesOf(c, K))
        /\ (\E j \in 1 .. Done : K[j].op = "-F") =>
             Len(chains[c]) <= Cardinality(FirstRules(c, Done))

\* The same of the commands of this run.
LEMMA FactsOfK == TablesInv => CommandFacts(K, mode, dryRun, exclude)
BY CommandsHaveFacts, Zenon DEF TablesInv, K

\* The parts of a command, by its kind.
LEMMA CommandParts ==
  ASSUME NEW x \in CommandSet
  PROVE  /\ x.op \in {"-N", "-F", "-A", "ip"}
         /\ x.op = "-N" => x.chain \in Chains
         /\ x.op = "-A" => x.chain \in Chains /\ x.rule \in Rules
         /\ x.op = "ip" => x.what \in {"rule", "route"}
BY DEF CommandSet

\* Whatever becomes of the next command, it is the next of the sequence.
LEMMA Advances ==
  ASSUME TablesInv, todo # << >>, todo' = Tail(todo), UNCHANGED <<mode, dryRun, exclude>>
  PROVE  /\ K' = K /\ K \in Seq(CommandSet) /\ Done \in Nat
         /\ Done + 1 \in DOMAIN K /\ Head(todo) = K[Done + 1] /\ Head(todo) \in CommandSet
         /\ Done' = Done + 1
         /\ todo' \in Seq(CommandSet) /\ Len(todo') <= Len(K')
         /\ \A i \in 1 .. Len(todo') : todo'[i] = K'[Done' + i]
<1>1. K' = K /\ K \in Seq(CommandSet)
  BY FactsOfK DEF K, CommandFacts, WellFormed
<1>2. Len(K) \in Nat /\ todo \in Seq(CommandSet) /\ Len(todo) \in Nat /\ Len(todo) <= Len(K)
  BY <1>1 DEF TablesInv
<1>3. Len(todo) >= 1 /\ Head(todo) = todo[1] /\ Head(todo) \in CommandSet
  BY <1>2
<1>4. /\ todo' \in Seq(CommandSet) /\ Len(todo') = Len(todo) - 1
      /\ \A i \in 1 .. Len(todo') : todo'[i] = todo[i + 1]
  BY <1>2, <1>3
<1>5. Done \in Nat /\ Done + 1 \in DOMAIN K /\ Done' = Done + 1
  BY <1>1, <1>2, <1>3, <1>4 DEF Done
<1>6. \A i \in 1 .. Len(todo) : todo[i] = K[Done + i]
  BY DEF TablesInv
<1>7. Head(todo) = K[Done + 1]
  BY <1>2, <1>3, <1>6
<1>8. \A i \in 1 .. Len(todo') : todo'[i] = K'[Done' + i]
  <2> SUFFICES ASSUME NEW i \in 1 .. Len(todo') PROVE todo'[i] = K[Done' + i]
    BY <1>1
  <2>1. i + 1 \in 1 .. Len(todo) /\ Done + (i + 1) = Done' + i
    BY <1>2, <1>4, <1>5
  <2> QED
    BY <1>4, <1>6, <2>1
<1> QED
  BY <1>1, <1>2, <1>3, <1>4, <1>5, <1>7, <1>8

\* What a command that succeeds does to the chains.
Makes(c) ==
    /\ c \in Chains /\ c \notin DOMAIN chains
    /\ DOMAIN chains' = DOMAIN chains \cup {c} /\ chains'[c] = << >>
    /\ \A e \in DOMAIN chains : chains'[e] = chains[e]
Empties ==
    /\ DOMAIN chains' = DOMAIN chains
    /\ \A e \in DOMAIN chains : chains'[e] = IF e \in NatChains THEN << >> ELSE chains[e]
Lengthens(c, rule) ==
    /\ c \in DOMAIN chains /\ rule \in Rules
    /\ rule.target \in Chains => rule.target \in DOMAIN chains
    /\ DOMAIN chains' = DOMAIN chains /\ chains'[c] = Append(chains[c], rule)
    /\ \A e \in DOMAIN chains : e # c => chains'[e] = chains[e]

\* What a command that succeeds does to the tables.
LEMMA ExecuteCases ==
  ASSUME TablesInv, Execute
  PROVE  LET x == Head(todo) IN
         \/ x.op = "-N" /\ Makes(x.chain) /\ routing' = routing
         \/ x.op = "-F" /\ Empties /\ routing' = routing
         \/ x.op = "-A" /\ Lengthens(x.chain, x.rule) /\ routing' = routing
         \/ x.op = "ip" /\ chains' = chains /\ routing' = routing \cup {x.what}
<1> DEFINE x == Head(todo)
<1>1. /\ todo # << >> /\ Accepts(x) /\ chains' = After(x)
      /\ routing' = IF x.op = "ip" THEN routing \cup {x.what} ELSE routing
  BY DEF Execute
<1>2. x \in CommandSet
  BY <1>1 DEF TablesInv
<1>3. chains \in [DOMAIN chains -> Seq(Rules)]
  BY DEF TablesInv
<1> HIDE DEF x
<1>4. CASE x.op = "-N"
  <2>1. /\ x.chain \notin DOMAIN chains
        /\ chains' = [c \in DOMAIN chains \cup {x.chain} |->
                        IF c \in DOMAIN chains THEN chains[c] ELSE << >>]
    BY <1>1, <1>4 DEF Accepts, After
  <2> QED
    BY <1>1, <1>2, <1>4, <2>1, CommandParts DEF Makes, x
<1>5. CASE x.op = "-F"
  <2>1. chains' = [c \in DOMAIN chains |-> IF c \in NatChains THEN << >> ELSE chains[c]]
    BY <1>1, <1>5 DEF After
  <2> QED
    BY <1>1, <1>5, <2>1 DEF Empties, x
<1>6. CASE x.op = "-A"
  <2>1. /\ x.chain \in DOMAIN chains
        /\ x.rule.target \in NatChains \cup MangleChains => x.rule.target \in DOMAIN chains
        /\ chains' = [chains EXCEPT ![x.chain] = Append(@, x.rule)]
    BY <1>1, <1>6 DEF Accepts, After
  <2> QED
    BY <1>1, <1>2, <1>3, <1>6, <2>1, CommandParts DEF Lengthens, Chains, x
<1>7. CASE x.op = "ip"
  <2>1. chains' = chains
    BY <1>1, <1>7 DEF After
  <2> QED
    BY <1>1, <1>7, <2>1 DEF x
<1> QED
  BY <1>2, <1>4, <1>5, <1>6, <1>7, CommandParts

\* The part of TablesInv about what the chains hold.
Content ==
    /\ BuiltIn \subseteq DOMAIN chains /\ DOMAIN chains \subseteq Chains
    /\ chains \in [DOMAIN chains -> Seq(Rules)]
    /\ \A c \in DOMAIN chains : \A i \in DOMAIN chains[c] :
         /\ \E j \in DOMAIN K : Appends(K[j], c) /\ K[j].rule = chains[c][i]
         /\ chains[c][i].target \in Chains => chains[c][i].target \in DOMAIN chains

\* A command adds no rule but its own.
LEMMA ContentStep ==
  ASSUME TablesInv, Execute
  PROVE  Content'
<1> DEFINE x == Head(todo)
           From(c, rule) == \E j \in DOMAIN K : Appends(K[j], c) /\ K[j].rule = rule
           Hits(rule) == rule.target \in Chains => rule.target \in DOMAIN chains
<1>1. /\ K' = K /\ Done + 1 \in DOMAIN K /\ x = K[Done + 1]
  BY Advances, Zenon DEF Execute
<1>2. /\ BuiltIn \subseteq DOMAIN chains /\ DOMAIN chains \subseteq Chains
      /\ \A c \in DOMAIN chains : chains[c] \in Seq(Rules)
      /\ \A c \in DOMAIN chains : \A i \in DOMAIN chains[c] : From(c, chains[c][i]) /\ Hits(chains[c][i])
  BY DEF TablesInv
<1>3. DOMAIN chains \subseteq DOMAIN chains' /\ DOMAIN chains' \subseteq Chains
  BY <1>2, ExecuteCases DEF Makes, Empties, Lengthens
<1>4. \A c \in DOMAIN chains' : \/ chains'[c] = << >>
                                \/ c \in DOMAIN chains /\ chains'[c] = chains[c]
                                \/ /\ c \in DOMAIN chains /\ x.op = "-A" /\ x.chain = c
                                   /\ x.rule \in Rules /\ Hits(x.rule)
                                   /\ chains'[c] = Append(chains[c], x.rule)
  BY ExecuteCases DEF Makes, Empties, Lengthens
<1>5. chains' = [c \in DOMAIN chains' |-> chains'[c]]
  <2>1. chains = [c \in DOMAIN chains |-> chains[c]]
    BY DEF TablesInv
  <2> QED
    BY <2>1 DEF Execute, After
<1>6. ASSUME NEW c \in DOMAIN chains'
      PROVE  /\ chains'[c] \in Seq(Rules)
             /\ \A i \in DOMAIN chains'[c] : From(c, chains'[c][i]) /\ Hits(chains'[c][i])
  <2>1. CASE chains'[c] = << >>
    BY <2>1
  <2>2. CASE c \in DOMAIN chains /\ chains'[c] = chains[c]
    BY <1>2, <2>2
  <2>3. CASE /\ c \in DOMAIN chains /\ x.op = "-A" /\ x.chain = c
             /\ x.rule \in Rules /\ Hits(x.rule)
             /\ chains'[c] = Append(chains[c], x.rule)
    <3>1. From(c, x.rule)
      BY <1>1, <2>3 DEF Appends
    <3>2. chains[c] \in Seq(Rules) /\ x.rule \in Rules
      BY <1>2, <2>3
    <3>3. /\ chains'[c] \in Seq(Rules)
          /\ \A i \in DOMAIN chains'[c] :
               \/ i \in DOMAIN chains[c] /\ chains'[c][i] = chains[c][i]
               \/ chains'[c][i] = x.rule
      BY <2>3, <3>2
    <3> HIDE DEF From, Hits, x
    <3> QED
      BY <1>2, <2>3, <3>1, <3>3
  <2> QED
    BY <1>4, <1>6, <2>1, <2>2, <2>3
<1>7. \A c \in DOMAIN chains' : \A i \in DOMAIN chains'[c] :
        /\ \E j \in DOMAIN K : Appends(K[j], c) /\ K[j].rule = chains'[c][i]
        /\ chains'[c][i].target \in Chains => chains'[c][i].target \in DOMAIN chains'
  BY <1>3, <1>6, Zenon
<1>8. chains' \in [DOMAIN chains' -> Seq(Rules)]
  BY <1>5, <1>6
<1> QED
  BY <1>1, <1>2, <1>3, <1>7, <1>8 DEF Content

\* Every step keeps the types and the content of the tables.
LEMMA TablesStep == TablesInv /\ [Next]_vars => TablesInv'
<1> SUFFICES ASSUME TablesInv, [Next]_vars PROVE TablesInv'
  OBVIOUS
<1>1. CASE Execute
  <2>1. /\ todo # << >> /\ todo' = Tail(todo) /\ status = "running"
        /\ UNCHANGED <<mode, dryRun, exclude>> /\ UNCHANGED <<status, reruns, faults, earlier>>
    BY <1>1 DEF Execute
  <2>2. /\ todo' \in Seq(CommandSet) /\ Len(todo') <= Len(K')
        /\ \A i \in 1 .. Len(todo') : todo'[i] = K'[Done' + i]
    BY <2>1, Advances
  <2>3. Content'
    BY <1>1, ContentStep
  <2>4. routing' \subseteq {"rule", "route"}
    <3>1. Head(todo) \in CommandSet
      BY <2>1 DEF TablesInv
    <3>2. routing \subseteq {"rule", "route"}
      BY DEF TablesInv
    <3> HIDE DEF TablesInv
    <3> QED
      BY <1>1, <3>1, <3>2, ExecuteCases, CommandParts
  <2> QED
    BY <2>1, <2>2, <2>3, <2>4 DEF TablesInv, Content
<1>2. CASE Rejected
  <2>1. /\ todo # << >> /\ todo' = Tail(todo) /\ status = "running"
        /\ UNCHANGED <<mode, dryRun, exclude>>
        /\ UNCHANGED <<chains, routing, status, reruns, faults, earlier>>
    BY <1>2 DEF Rejected
  <2>2. /\ todo' \in Seq(CommandSet) /\ Len(todo') <= Len(K')
        /\ \A i \in 1 .. Len(todo') : todo'[i] = K'[Done' + i]
    BY <2>1, Advances
  <2> QED
    BY <2>1, <2>2 DEF TablesInv, K
<1>3. CASE Faulted
  <2>1. /\ todo # << >> /\ todo' = Tail(todo) /\ status = "running"
        /\ UNCHANGED <<mode, dryRun, exclude>> /\ faults + earlier < MaxFaults /\ faults' = faults + 1
        /\ UNCHANGED <<chains, routing, status, reruns, earlier>>
    BY <1>3 DEF Faulted
  <2>2. /\ todo' \in Seq(CommandSet) /\ Len(todo') <= Len(K')
        /\ \A i \in 1 .. Len(todo') : todo'[i] = K'[Done' + i]
    BY <2>1, Advances
  <2>3. faults' \in Nat /\ earlier' \in Nat /\ faults' + earlier' <= MaxFaults
    BY <2>1, PortsAssumption DEF TablesInv
  <2> QED
    BY <2>1, <2>2, <2>3 DEF TablesInv, K
<1>4. CASE LogSuccess
  BY <1>4 DEF LogSuccess, TablesInv, K, Done
<1>5. CASE Rerun
  <2>1. /\ todo' = K /\ K' = K /\ status' = "running" /\ reruns < MaxReruns /\ reruns' = reruns + 1
        /\ faults' = 0 /\ earlier' = earlier + faults
        /\ UNCHANGED <<mode, dryRun, exclude, chains, routing>>
    BY <1>5 DEF Rerun, K
  <2>2. K \in Seq(CommandSet)
    BY FactsOfK DEF CommandFacts, WellFormed
  <2>3. /\ todo' \in Seq(CommandSet) /\ Len(todo') <= Len(K') /\ Done' = 0
        /\ \A i \in 1 .. Len(todo') : todo'[i] = K'[Done' + i]
    BY <2>1, <2>2 DEF Done
  <2>4. faults' \in Nat /\ earlier' \in Nat /\ faults' + earlier' <= MaxFaults
    BY <2>1 DEF TablesInv
  <2>5. reruns' \in 0 .. MaxReruns
    BY <2>1, PortsAssumption DEF TablesInv
  <2> QED
    BY <2>1, <2>3, <2>4, <2>5 DEF TablesInv
<1>6. CASE UNCHANGED vars
  BY <1>6 DEF vars, TablesInv, K, Done
<1> QED
  BY <1>1, <1>2, <1>3, <1>4, <1>5, <1>6 DEF Next

\* The next command without its first guard: the state it leaves is of one step.
LEMMA StepKinds ==
  ASSUME TablesInv, [Next]_vars
  PROVE  \/ Execute
         \/ Rejected
         \/ faults' > 0 /\ faults' + earlier' > 0
         \/ /\ K' = K /\ Done' = Done /\ UNCHANGED <<mode, chains, routing, faults, earlier>>
         \/ /\ K' = K /\ Done' = 0 /\ faults' = 0 /\ earlier' = earlier + faults
            /\ UNCHANGED <<mode, chains, routing>>
<1>1. CASE Faulted
  BY <1>1 DEF Faulted, TablesInv
<1>2. CASE LogSuccess \/ UNCHANGED vars
  BY <1>2 DEF LogSuccess, vars, K, Done
<1>3. CASE Rerun
  <2>1. K \in Seq(CommandSet)
    BY FactsOfK DEF CommandFacts, WellFormed
  <2>2. todo' = K /\ K' = K
    BY <1>3 DEF Rerun, K
  <2> QED
    BY <1>3, <2>1, <2>2 DEF Rerun, Done
<1> QED
  BY <1>1, <1>2, <1>3 DEF Next

\* What one command has brought about, in the tables t and the routing r.
Settled(x, t, r) ==
    /\ x.op = "-N" => x.chain \in DOMAIN t
    /\ x.op = "-A" => x.chain \in DOMAIN t /\ \E i \in DOMAIN t[x.chain] : t[x.chain][i] = x.rule
    /\ x.op = "ip" => x.what \in r

\* A command that succeeds has brought about what it is for.
LEMMA ExecutedIsSettled ==
  ASSUME TablesInv, Execute
  PROVE  Settled(Head(todo), chains', routing')
<1> DEFINE x == Head(todo)
<1>0. \A c \in DOMAIN chains : chains[c] \in Seq(Rules)
  BY DEF TablesInv
<1>1. CASE x.op = "-A" /\ Lengthens(x.chain, x.rule)
  <2> DEFINE s == chains[x.chain]
  <2>1. /\ x.chain \in DOMAIN chains' /\ s \in Seq(Rules) /\ x.rule \in Rules
        /\ chains'[x.chain] = Append(s, x.rule)
    BY <1>0, <1>1 DEF Lengthens
  <2>2. Len(s) + 1 \in DOMAIN chains'[x.chain] /\ chains'[x.chain][Len(s) + 1] = x.rule
    BY <2>1
  <2> QED
    BY <1>1, <2>1, <2>2 DEF Settled
<1> QED
  BY <1>1, ExecuteCases DEF Settled, Makes

\* What a command has brought about stays, as only a flush takes it away.
LEMMA SettledStays ==
  ASSUME TablesInv, Execute, NEW x, Settled(x, chains, routing), x.op = "-A" => Head(todo).op # "-F"
  PROVE  Settled(x, chains', routing')
<1> DEFINE y == Head(todo)
<1>0. \A c \in DOMAIN chains : chains[c] \in Seq(Rules)
  BY DEF TablesInv
<1>1. DOMAIN chains \subseteq DOMAIN chains' /\ routing \subseteq routing'
  BY ExecuteCases DEF Makes, Empties, Lengthens
<1>2. ASSUME x.op = "-A" 
      PROVE  \E i \in DOMAIN chains'[x.chain] : chains'[x.chain][i] = x.rule
  <2>1. x.chain \in DOMAIN chains /\ \E i \in DOMAIN chains[x.chain] : chains[x.chain][i] = x.rule
    BY <1>2 DEF Settled
  <2>2. \/ chains'[x.chain] = chains[x.chain]
        \/ y.rule \in Rules /\ chains'[x.chain] = Append(chains[x.chain], y.rule)
    BY <1>2, <2>1, ExecuteCases DEF Makes, Lengthens
  <2> QED
    BY <1>0, <2>1, <2>2
<1> QED
  BY <1>1, <1>2 DEF Settled

\* Without faults, no command is rejected but for what is there already.
LEMMA RejectedIsSettled ==
  ASSUME TablesInv, Rejected, DoneInv, faults = 0
  PROVE  Settled(Head(todo), chains, routing) /\ Head(todo).op # "-F"
<1> DEFINE x == Head(todo)
<1>1. /\ Done + 1 \in DOMAIN K /\ x = K[Done + 1] /\ x \in CommandSet /\ Done \in Nat
      /\ K \in Seq(CommandSet)
  BY Advances DEF Rejected
<1>2. ~Accepts(x)
  BY DEF Rejected
<1>3. WellFormed(K)
  BY FactsOfK DEF CommandFacts
<1>4. \A j \in 1 .. Done : K[j].op = "-N" => K[j].chain \in DOMAIN chains
  BY DEF DoneInv
<1>5. BuiltIn \subseteq DOMAIN chains
  BY DEF TablesInv
<1>6. x.op # "-A"
  <2> SUFFICES ASSUME x.op = "-A" PROVE FALSE
    OBVIOUS
  <2>1. \A c \in Chains : c \in {x.chain, x.rule.target} => c \in DOMAIN chains
    <3> SUFFICES ASSUME NEW c \in Chains \ BuiltIn, c \in {x.chain, x.rule.target}
                 PROVE  c \in DOMAIN chains
      BY <1>5
    <3>1. PICK j \in DOMAIN K : j < Done + 1 /\ K[j].op = "-N" /\ K[j].chain = c
      BY <1>1, <1>3 DEF WellFormed
    <3>2. j \in 1 .. Done
      BY <1>1, <3>1
    <3> QED
      BY <1>4, <3>1, <3>2
  <2>2. x.chain \in Chains
    BY <1>1, CommandParts
  <2> HIDE DEF x
  <2> QED
    BY <1>2, <2>1, <2>2 DEF Accepts, Chains
<1> HIDE DEF x
<1>7. x.op # "-F"
  BY <1>2 DEF Accepts
<1>8. x.op = "-N" => x.chain \in DOMAIN chains
  BY <1>2 DEF Accepts
<1>9. x.op = "ip" => x.what \in routing
  BY <1>2 DEF Accepts
<1> QED
  BY <1>6, <1>7, <1>8, <1>9 DEF Settled, x

\* DoneInv, of the commands one at a time.
LEMMA DoneIsSettled == DoneInv <=> (faults = 0 => \A j \in 1 .. Done : Settled(K[j], chains, routing))
BY DEF DoneInv, Settled

\* Every step keeps what is done: a rejected command finds its work done already.
LEMMA DoneStep == TablesInv /\ DoneInv /\ [Next]_vars => DoneInv'
<1> SUFFICES ASSUME TablesInv, DoneInv, [Next]_vars, faults' = 0 PROVE DoneInv'
  BY DEF DoneInv
<1>1. CASE Execute
  <2>1. /\ K' = K /\ Done \in Nat /\ Done + 1 \in DOMAIN K /\ Done' = Done + 1
        /\ Head(todo) = K[Done + 1] /\ K \in Seq(CommandSet)
    BY <1>1, Advances DEF Execute
  <2>2. \A j \in 1 .. Done : Settled(K[j], chains, routing)
    BY <1>1, DoneIsSettled DEF Execute
  <2>3. \A j \in 1 .. Done : K[j].op = "-A" => Head(todo).op # "-F"
    <3>1. WellFormed(K)
      BY FactsOfK DEF CommandFacts
    <3> QED
      BY <2>1, <3>1 DEF WellFormed
  <2>4. ASSUME NEW j \in 1 .. Done' PROVE Settled(K'[j], chains', routing')
    <3>1. CASE j \in 1 .. Done
      <4>1. Settled(K[j], chains, routing) /\ (K[j].op = "-A" => Head(todo).op # "-F")
        BY <2>2, <2>3, <3>1
      <4>2. Settled(K[j], chains', routing')
        BY <1>1, <4>1, SettledStays
      <4> QED
        BY <2>1, <4>2
    <3>2. CASE j = Done + 1
      BY <1>1, <2>1, <3>2, ExecutedIsSettled
    <3> QED
      BY <2>1, <3>1, <3>2
  <2> QED
    BY <2>4 DEF DoneInv, Settled
<1>2. CASE Rejected
  <2>1. /\ K' = K /\ Done \in Nat /\ Done + 1 \in DOMAIN K /\ Done' = Done + 1
        /\ Head(todo) = K[Done + 1] /\ UNCHANGED <<chains, routing, faults>>
    BY <1>2, Advances DEF Rejected
  <2>2. \A j \in 1 .. Done : Settled(K[j], chains, routing)
    BY <2>1, DoneIsSettled
  <2>3. Settled(Head(todo), chains, routing)
    BY <1>2, <2>1, RejectedIsSettled
  <2>4. \A j \in 1 .. Done' : Settled(K[j], chains, routing)
    BY <2>1, <2>2, <2>3
  <2> QED
    BY <2>1, <2>4 DEF DoneInv, Settled
<1>3. CASE faults' > 0
  BY <1>3
<1>4. CASE K' = K /\ Done' = Done /\ UNCHANGED <<chains, routing, faults>>
  BY <1>4 DEF DoneInv
<1>5. CASE Done' = 0
  BY <1>5 DEF DoneInv
<1> QED
  BY <1>1, <1>2, <1>3, <1>4, <1>5, StepKinds

\* The exceptions of a chain precede the place i of its rules s.
Preceded(s, c, i) ==
    s[i].target # "RETURN" =>
        \A j \in DOMAIN K : Excepts(K[j], c) => \E h \in 1 .. i - 1 : s[h] = K[j].rule

\* OrderInv, of the rules one at a time.
LEMMA OrderIsPreceded ==
  OrderInv <=>
    (Clean => \A c \in DOMAIN chains : \A i \in DOMAIN chains[c] : Preceded(chains[c], c, i))
BY DEF OrderInv, Preceded

\* An appended rule stands behind the exceptions of its chain: the commands for them
\* come before its own, and are done.
LEMMA OrderAppended ==
  ASSUME TablesInv, DoneInv, Execute, faults = 0,
         NEW c \in DOMAIN chains, Head(todo).op = "-A", Head(todo).chain = c,
         \A i \in DOMAIN chains[c] : Preceded(chains[c], c, i),
         NEW s, s = Append(chains[c], Head(todo).rule), NEW i \in DOMAIN s
  PROVE  Preceded(s, c, i)
<1> DEFINE x == Head(todo)
<1>1. /\ Done \in Nat /\ Done + 1 \in DOMAIN K /\ x = K[Done + 1] /\ x \in CommandSet
      /\ K \in Seq(CommandSet)
  BY Advances DEF Execute
<1>2. chains[c] \in Seq(Rules) /\ x.rule \in Rules /\ c \in Chains
  BY <1>1, CommandParts DEF TablesInv
<1>3. /\ Len(chains[c]) \in Nat /\ i \in 1 .. Len(chains[c]) + 1
      /\ s[Len(chains[c]) + 1] = x.rule
      /\ \A h \in 1 .. Len(chains[c]) : s[h] = chains[c][h]
  BY <1>2
<1>4. CASE i \in 1 .. Len(chains[c])
  <2>1. Preceded(chains[c], c, i) /\ s[i] = chains[c][i] /\ \A h \in 1 .. i - 1 : s[h] = chains[c][h]
    BY <1>2, <1>3, <1>4
  <2> QED
    BY <2>1 DEF Preceded
<1>5. CASE i = Len(chains[c]) + 1 /\ s[i].target # "RETURN"
  <2> SUFFICES ASSUME NEW j \in DOMAIN K, Excepts(K[j], c)
               PROVE  \E h \in 1 .. i - 1 : s[h] = K[j].rule
    BY DEF Preceded
  <2>1. Catches(K[Done + 1], c)
    BY <1>1, <1>3, <1>5 DEF Catches, Appends
  <2>2. j < Done + 1
    <3>1. WellFormed(K)
      BY FactsOfK DEF CommandFacts
    <3> QED
      BY <1>1, <1>2, <2>1, <3>1 DEF WellFormed
  <2>3. j \in 1 .. Done
    BY <1>1, <2>2
  <2>4. \E h \in DOMAIN chains[c] : chains[c][h] = K[j].rule
    BY <2>3 DEF DoneInv, Excepts, Appends
  <2> QED
    BY <1>2, <1>3, <1>5, <2>4
<1> QED
  BY <1>3, <1>4, <1>5 DEF Preceded

\* Every step keeps the order of the rules.
LEMMA OrderStep == TablesInv /\ DoneInv /\ OrderInv /\ [Next]_vars => OrderInv'
<1> SUFFICES ASSUME TablesInv, DoneInv, OrderInv, [Next]_vars, Clean' PROVE OrderInv'
  BY DEF OrderInv
<1>0. CommandFacts(K, mode, dryRun, exclude)
  BY FactsOfK
<1>1. CASE Execute
  <2>1. /\ K' = K /\ Done \in Nat /\ Done + 1 \in DOMAIN K /\ Done' = Done + 1
        /\ Head(todo) = K[Done + 1]
        /\ UNCHANGED <<mode, faults, earlier>>
    BY <1>1, Advances DEF Execute
  <2>2. faults = 0
    BY <2>1 DEF Clean
  <2> SUFFICES ASSUME NEW c \in DOMAIN chains', NEW i \in DOMAIN chains'[c]
               PROVE  Preceded(chains'[c], c, i)
    BY <2>1 DEF OrderInv, Preceded
  <2>3. CASE Clean
    <3>1. \A e \in DOMAIN chains : \A h \in DOMAIN chains[e] : Preceded(chains[e], e, h)
      BY <2>3, OrderIsPreceded
    <3>2. CASE chains'[c] = << >>
      BY <3>2
    <3>3. CASE c \in DOMAIN chains /\ chains'[c] = chains[c]
      BY <3>1, <3>3
    <3>4. CASE /\ Head(todo).op = "-A" /\ Head(todo).chain = c /\ c \in DOMAIN chains
               /\ chains'[c] = Append(chains[c], Head(todo).rule)
      BY <1>1, <2>2, <3>1, <3>4, OrderAppended
    <3> QED
      BY <1>1, <3>2, <3>3, <3>4, ExecuteCases DEF Makes, Empties, Lengthens
  <2>4. CASE ~Clean
    <3>1. mode = "REDIRECT" /\ Done = 0
      BY <2>1, <2>4 DEF Clean
    <3>2. Head(todo).op = "-F"
      BY <1>0, <2>1, <3>1 DEF CommandFacts
    <3>3. Empties
      BY <1>1, <3>2, ExecuteCases
    <3>4. c \notin NatChains => chains[c] = << >>
      <4> SUFFICES ASSUME c \notin NatChains, chains[c] # << >> PROVE FALSE
        OBVIOUS
      <4>1. c \in DOMAIN chains
        BY <3>3 DEF Empties
      <4>2. 1 \in DOMAIN chains[c]
        BY <4>1 DEF TablesInv
      <4>3. \E j \in DOMAIN K : Appends(K[j], c)
        BY <4>1, <4>2 DEF TablesInv
      <4> QED
        BY <1>0, <3>1, <4>3 DEF CommandFacts, Appends
    <3>5. chains'[c] = << >>
      BY <3>3, <3>4 DEF Empties
    <3> QED
      BY <3>5
  <2> QED
    BY <2>3, <2>4
<1>2. CASE Rejected
  <2>1. /\ K' = K /\ Done \in Nat /\ Done + 1 \in DOMAIN K /\ Done' = Done + 1
        /\ Head(todo) = K[Done + 1] /\ UNCHANGED <<mode, chains, faults, earlier>>
    BY <1>2, Advances DEF Rejected
  <2>2. Clean
    <3>1. faults = 0 /\ Head(todo).op # "-F"
      BY <1>2, <2>1, RejectedIsSettled DEF Clean
    <3>2. Done = 0 => mode # "REDIRECT"
      BY <1>0, <2>1, <3>1 DEF CommandFacts
    <3> QED
      BY <2>1, <3>1, <3>2 DEF Clean
  <2> QED
    BY <2>1, <2>2 DEF OrderInv
<1>3. CASE faults' > 0
  BY <1>3 DEF Clean
<1>4. CASE K' = K /\ Done' = Done /\ UNCHANGED <<mode, chains, faults, earlier>>
  BY <1>4 DEF OrderInv, Clean
<1>5. CASE /\ K' = K /\ Done' = 0 /\ faults' = 0 /\ earlier' = earlier + faults
           /\ UNCHANGED <<mode, chains>>
  <2>1. earlier' = 0
    BY <1>5 DEF Clean
  <2>2. faults = 0 /\ earlier = 0
    BY <1>5, <2>1 DEF TablesInv
  <2> QED
    BY <1>5, <2>2 DEF OrderInv, Clean
<1> QED
  BY <1>1, <1>2, <1>3, <1>4, <1>5, StepKinds

\* The commands so far that fill a chain are no more than all that do.
LEMMA FirstRulesSizes ==
  ASSUME TablesInv, NEW c, NEW d \in Nat, d <= Len(K)
  PROVE  /\ IsFiniteSet(FirstRules(c, d)) /\ Cardinality(FirstRules(c, d)) \in Nat
         /\ Cardinality(FirstRules(c, d)) <= Cardinality(RulesOf(c, K))
         /\ Cardinality(RulesOf(c, K)) \in Nat
<1>1. K \in Seq(CommandSet) /\ DOMAIN K = 1 .. Len(K) /\ Len(K) \in Nat
  BY FactsOfK DEF CommandFacts, WellFormed
<1>2. RulesOf(c, K) \subseteq 1 .. Len(K) /\ FirstRules(c, d) \subseteq RulesOf(c, K)
  BY <1>1 DEF RulesOf, FirstRules, Appends
<1>3. IsFiniteSet(1 .. Len(K))
  BY <1>1, FS_Interval
<1>4. IsFiniteSet(RulesOf(c, K))
  BY <1>2, <1>3, FS_Subset
<1>5. /\ IsFiniteSet(FirstRules(c, d))
      /\ Cardinality(FirstRules(c, d)) <= Cardinality(RulesOf(c, K))
  BY <1>2, <1>4, FS_Subset
<1> QED
  BY <1>4, <1>5, FS_CardinalityType

\* One command more fills a chain once more at most.
LEMMA FirstRulesGrow ==
  ASSUME TablesInv, NEW c, NEW d \in Nat, d + 1 <= Len(K)
  PROVE  /\ Cardinality(FirstRules(c, d)) <= Cardinality(FirstRules(c, d + 1))
         /\ Appends(K[d + 1], c) =>
              Cardinality(FirstRules(c, d + 1)) = Cardinality(FirstRules(c, d)) + 1
<1>1. IsFiniteSet(FirstRules(c, d)) /\ IsFiniteSet(FirstRules(c, d + 1))
  <2>1. K \in Seq(CommandSet) /\ Len(K) \in Nat
    BY FactsOfK DEF CommandFacts, WellFormed
  <2>2. d <= Len(K) /\ d + 1 \in Nat
    BY <2>1
  <2> QED
    BY <2>2, FirstRulesSizes
<1>2. FirstRules(c, d) \subseteq FirstRules(c, d + 1) /\ d + 1 \notin FirstRules(c, d)
  BY DEF FirstRules
<1>3. Cardinality(FirstRules(c, d)) <= Cardinality(FirstRules(c, d + 1))
  BY <1>1, <1>2, FS_Subset
<1>4. ASSUME Appends(K[d + 1], c)
      PROVE  Cardinality(FirstRules(c, d + 1)) = Cardinality(FirstRules(c, d)) + 1
  <2>1. FirstRules(c, d + 1) = FirstRules(c, d) \cup {d + 1}
    BY <1>4 DEF FirstRules
  <2> QED
    BY <1>1, <1>2, <2>1, FS_AddElement
<1> QED
  BY <1>3, <1>4

\* Every step keeps the nat table within one run's rules, also when a rerun meets the
\* full table of a run before: its first command flushes it.
LEMMA SizeStep == TablesInv /\ SizeInv /\ [Next]_vars => SizeInv'
<1> SUFFICES ASSUME TablesInv, SizeInv, [Next]_vars, NoFaults' PROVE SizeInv'
  BY DEF SizeInv
<1>0. /\ faults \in Nat /\ earlier \in Nat /\ \A c \in DOMAIN chains : chains[c] \in Seq(Rules)
      /\ WellFormed(K) /\ K \in Seq(CommandSet)
  BY FactsOfK DEF TablesInv, CommandFacts, WellFormed
<1>1. CASE Execute
  <2>1. /\ K' = K /\ Done \in Nat /\ Done + 1 \in DOMAIN K /\ Done' = Done + 1
        /\ Head(todo) = K[Done + 1] /\ UNCHANGED <<faults, earlier>>
    BY <1>1, Advances DEF Execute
  <2>2. NoFaults /\ Done + 1 <= Len(K) /\ Done <= Len(K)
    BY <1>0, <2>1 DEF NoFaults
  <2> SUFFICES ASSUME NEW c \in DOMAIN chains' \cap NatChains
               PROVE  /\ Len(chains'[c]) <= Cardinality(RulesOf(c, K))
                      /\ (\E j \in 1 .. Done + 1 : K[j].op = "-F") =>
                           Len(chains'[c]) <= Cardinality(FirstRules(c, Done + 1))
    BY <2>1 DEF SizeInv, FirstRules
  <2>3. /\ Cardinality(RulesOf(c, K)) \in Nat
        /\ Cardinality(FirstRules(c, Done)) \in Nat /\ Cardinality(FirstRules(c, Done + 1)) \in Nat
        /\ Cardinality(FirstRules(c, Done + 1)) <= Cardinality(RulesOf(c, K))
        /\ Cardinality(FirstRules(c, Done)) <= Cardinality(FirstRules(c, Done + 1))
    BY <2>1, <2>2, FirstRulesSizes, FirstRulesGrow
  <2>4. CASE chains'[c] = << >>
    <3>1. Len(chains'[c]) = 0
      BY <2>4
    <3> QED
      BY <2>3, <3>1
  <2>5. CASE c \in DOMAIN chains /\ chains'[c] = chains[c] /\ Head(todo).op # "-F"
    <3>1. /\ Len(chains[c]) <= Cardinality(RulesOf(c, K))
          /\ (\E j \in 1 .. Done : K[j].op = "-F") => Len(chains[c]) <= Cardinality(FirstRules(c, Done))
      BY <2>2, <2>5 DEF SizeInv
    <3>2. (\E j \in 1 .. Done + 1 : K[j].op = "-F") => \E j \in 1 .. Done : K[j].op = "-F"
      BY <2>1, <2>5
    <3>3. Len(chains[c]) \in Nat
      BY <1>0, <2>5
    <3> QED
      BY <2>3, <2>5, <3>1, <3>2, <3>3
  <2>6. CASE /\ Head(todo).op = "-A" /\ Head(todo).chain = c /\ c \in DOMAIN chains
             /\ Head(todo).rule \in Rules /\ chains'[c] = Append(chains[c], Head(todo).rule)
    <3>1. Appends(K[Done + 1], c)
      BY <2>1, <2>6 DEF Appends
    <3>2. \E j \in 1 .. Done : K[j].op = "-F"
      BY <1>0, <2>1, <2>6 DEF WellFormed
    <3>3. Len(chains[c]) <= Cardinality(FirstRules(c, Done))
      BY <2>2, <2>6, <3>2 DEF SizeInv
    <3>4. Len(chains'[c]) = Len(chains[c]) + 1 /\ Len(chains[c]) \in Nat
      BY <1>0, <2>6
    <3>5. Cardinality(FirstRules(c, Done + 1)) = Cardinality(FirstRules(c, Done)) + 1
      BY <2>1, <2>2, <3>1, FirstRulesGrow
    <3>6. Len(chains'[c]) <= Cardinality(FirstRules(c, Done + 1))
      BY <2>3, <3>3, <3>4, <3>5
    <3> QED
      BY <2>3, <3>4, <3>6
  <2> QED
    BY <1>1, <2>4, <2>5, <2>6, ExecuteCases DEF Makes, Empties, Lengthens
<1>2. CASE Rejected
  <2>1. /\ K' = K /\ Done \in Nat /\ Done + 1 \in DOMAIN K /\ Done' = Done + 1
        /\ Head(todo) = K[Done + 1] /\ UNCHANGED <<chains, faults, earlier>>
    BY <1>2, Advances DEF Rejected
  <2>2. NoFaults /\ Done + 1 <= Len(K)
    BY <1>0, <2>1 DEF NoFaults
  <2>3. K[Done + 1].op # "-F"
    BY <1>2, <2>1 DEF Rejected, Accepts
  <2>4. (\E j \in 1 .. Done' : K[j].op = "-F") => \E j \in 1 .. Done : K[j].op = "-F"
    BY <2>1, <2>3
  <2>5. \A c \in DOMAIN chains : /\ Cardinality(FirstRules(c, Done)) <= Cardinality(FirstRules(c, Done'))
                                 /\ Cardinality(FirstRules(c, Done)) \in Nat
                                 /\ Cardinality(FirstRules(c, Done')) \in Nat
                                 /\ Len(chains[c]) \in Nat
    BY <1>0, <2>1, <2>2, FirstRulesGrow, FirstRulesSizes
  <2> SUFFICES ASSUME NEW c \in DOMAIN chains \cap NatChains
               PROVE  /\ Len(chains[c]) <= Cardinality(RulesOf(c, K))
                      /\ (\E j \in 1 .. Done' : K[j].op = "-F") =>
                           Len(chains[c]) <= Cardinality(FirstRules(c, Done'))
    BY <2>1 DEF SizeInv, FirstRules
  <2> QED
    BY <2>2, <2>4, <2>5 DEF SizeInv
<1>3. CASE faults' > 0 /\ faults' + earlier' > 0
  BY <1>3 DEF NoFaults
<1>4. CASE K' = K /\ Done' = Done /\ UNCHANGED <<chains, faults, earlier>>
  BY <1>4 DEF SizeInv, NoFaults, FirstRules
<1>5. CASE /\ K' = K /\ Done' = 0 /\ faults' = 0 /\ earlier' = earlier + faults
           /\ UNCHANGED chains
  <2>1. NoFaults
    BY <1>0, <1>5 DEF NoFaults
  <2> QED
    BY <1>5, <2>1 DEF SizeInv
<1> QED
  BY <1>1, <1>2, <1>3, <1>4, <1>5, StepKinds

\* A new namespace satisfies the invariant.
LEMMA StartTables == Init => TablesInv /\ DoneInv /\ OrderInv /\ SizeInv
<1> SUFFICES ASSUME Init PROVE TablesInv /\ DoneInv /\ OrderInv /\ SizeInv
  OBVIOUS
<1>1. mode \in Modes /\ dryRun \in BOOLEAN /\ exclude \in Excludes /\ todo = K
  BY DEF Init, Modes, Excludes, K
<1>2. CommandFacts(K, mode, dryRun, exclude)
  BY <1>1, CommandsHaveFacts DEF K
<1>3. K \in Seq(CommandSet)
  BY <1>2 DEF CommandFacts, WellFormed
<1>4. Done = 0 /\ Len(todo) <= Len(K) /\ \A i \in 1 .. Len(todo) : todo[i] = K[Done + i]
  BY <1>1, <1>3 DEF Done
<1>5. DOMAIN chains = BuiltIn /\ \A c \in BuiltIn : chains[c] = << >>
  BY DEF Init
<1>6. /\ chains \in [DOMAIN chains -> Seq(Rules)]
      /\ BuiltIn \subseteq Chains
  BY DEF Init, BuiltIn, Chains, NatChains, MangleChains
<1>7. TablesInv
  BY <1>1, <1>3, <1>4, <1>5, <1>6, PortsAssumption DEF Init, TablesInv
<1>8. DoneInv
  BY <1>4 DEF DoneInv
<1>9. OrderInv
  BY <1>5 DEF OrderInv
<1>10. SizeInv
  <2>1. \A c \in DOMAIN chains : Len(chains[c]) = 0
    BY <1>5
  <2>2. \A c \in DOMAIN chains : Cardinality(RulesOf(c, K)) \in Nat
    BY <1>3, <1>7, FirstRulesSizes
  <2> QED
    BY <1>4, <2>1, <2>2 DEF SizeInv
<1> QED
  BY <1>7, <1>8, <1>9, <1>10

\* The inductive invariant of the init container.
RedirectionInv == TablesInv /\ DoneInv /\ OrderInv /\ SizeInv

\* The invariant of the init container holds in every state.
THEOREM RedirectionInvariant == Spec => []RedirectionInv
<1>1. Init => RedirectionInv
  BY StartTables DEF RedirectionInv
<1>2. RedirectionInv /\ [Next]_vars => RedirectionInv'
  BY TablesStep, DoneStep, OrderStep, SizeStep DEF RedirectionInv
<1> QED
  BY <1>1, <1>2, PTL DEF Spec

\* However often sentinel-init crashes and is run again, a chain of the nat table
\* never holds more rules than one run appends to it, if no command fails.
THEOREM TablesStayInBounds == Spec => []TypeOK
<1>1. RedirectionInv => TypeOK
  BY DEF RedirectionInv, TablesInv, SizeInv, TypeOK, K, Modes, Excludes, Chains
<1> QED
  BY <1>1, RedirectionInvariant, PTL

-----------------------------------------------------------------------------
(* The walk of a packet                                                     *)

\* A set of numbers that is not empty has a least one.
LEMMA LeastNumber ==
  ASSUME NEW S, S \subseteq Nat, S # {}
  PROVE  Min(S) \in S /\ \A y \in S : Min(S) <= y
<1> DEFINE R == OpToRel(<, Nat)
<1>1. IsWellFoundedOn(R, Nat)
  BY NatLessThanWellFounded
<1>2. \A x, y \in Nat : <<y, x>> \in R <=> y < x
  BY DEF OpToRel
<1> HIDE DEF R
<1>3. PICK x \in S : \A y \in S : ~(<<y, x>> \in R)
  BY <1>1, WFMin
<1>4. ASSUME NEW y \in S PROVE x <= y
  <2>1. x \in Nat /\ y \in Nat
    BY <1>3
  <2>2. ~(y < x)
    BY <1>2, <1>3, <2>1, Zenon
  <2> QED
    BY <2>1, <2>2
<1> QED
  BY <1>3, <1>4 DEF Min

Result(rule, verdicts) ==
    IF rule.target \in DOMAIN verdicts THEN verdicts[rule.target] ELSE rule.target
Ending(rules, packet, verdicts) ==
    {i \in DOMAIN rules : /\ packet \in rules[i].match
                          /\ rules[i].target = "RETURN" \/ Result(rules[i], verdicts) # "RETURN"}

\* A walk ends at the first rule that ends it.
LEMMA WalkEnds ==
  ASSUME NEW rules \in Seq(Rules), NEW packet, NEW verdicts
  PROVE  LET ends == Ending(rules, packet, verdicts) IN
         /\ ends = {} => Walk(rules, packet, verdicts) = "RETURN"
         /\ ends # {} => /\ Walk(rules, packet, verdicts) = Result(rules[Min(ends)], verdicts)
                         /\ Min(ends) \in ends /\ \A i \in ends : Min(ends) <= i
<1> DEFINE ends == Ending(rules, packet, verdicts)
<1>1. Walk(rules, packet, verdicts) =
        IF ends = {} THEN "RETURN" ELSE Result(rules[Min(ends)], verdicts)
  BY DEF Walk, Ending, Result
<1>2. ends \subseteq Nat
  BY DEF Ending
<1> HIDE DEF ends
<1>3. ends # {} => Min(ends) \in ends /\ \A i \in ends : Min(ends) <= i
  BY <1>2, LeastNumber
<1> QED
  BY <1>1, <1>3 DEF ends

\* A walk in which an exception of the packet precedes all that could catch it.
LEMMA WalkReturns ==
  ASSUME NEW rules \in Seq(Rules), NEW packet, NEW verdicts, "RETURN" \notin DOMAIN verdicts,
         \A i \in DOMAIN rules :
            packet \in rules[i].match /\ rules[i].target # "RETURN"
              /\ Result(rules[i], verdicts) # "RETURN" =>
              \E h \in 1 .. i - 1 : packet \in rules[h].match /\ rules[h].target = "RETURN"
  PROVE  Walk(rules, packet, verdicts) = "RETURN"
<1> DEFINE ends == Ending(rules, packet, verdicts)
<1> SUFFICES ASSUME ends # {} PROVE Walk(rules, packet, verdicts) = "RETURN"
  BY WalkEnds
<1> DEFINE i == Min(ends)
<1>1. /\ Walk(rules, packet, verdicts) = Result(rules[i], verdicts)
      /\ i \in ends /\ \A h \in ends : i <= h
  BY WalkEnds
<1> HIDE DEF i
<1>2. /\ i \in DOMAIN rules /\ packet \in rules[i].match
      /\ rules[i].target = "RETURN" \/ Result(rules[i], verdicts) # "RETURN"
  BY <1>1 DEF Ending
<1>3. rules[i].target = "RETURN"
  <2> SUFFICES ASSUME rules[i].target # "RETURN" PROVE FALSE
    OBVIOUS
  <2>1. PICK h \in 1 .. i - 1 : packet \in rules[h].match /\ rules[h].target = "RETURN"
    BY <1>2
  <2>2. h \in DOMAIN rules /\ h < i
    BY <1>2
  <2>3. h \in ends
    BY <2>1, <2>2 DEF Ending
  <2> QED
    BY <1>1, <1>2, <2>2, <2>3
<1> QED
  BY <1>1, <1>3 DEF Result

\* A chain that is complete: its exceptions, and then one target for all the rest.
Filled(rules, matches, target) ==
    /\ \A i \in DOMAIN rules :
         rules[i] = CatchAll(target) \/ \E m \in matches : rules[i] = Exception(m)
    /\ \E i \in DOMAIN rules : rules[i] = CatchAll(target)
    /\ \A i \in DOMAIN rules : rules[i].target # "RETURN" =>
         \A m \in matches : \E h \in 1 .. i - 1 : rules[h] = Exception(m)

\* The walk of a chain with its exceptions first: out by an exception, or caught.
LEMMA WalkOfFilled ==
  ASSUME NEW rules \in Seq(Rules), NEW packet \in Packets, NEW verdicts,
         "RETURN" \notin DOMAIN verdicts, NEW matches, NEW target, target # "RETURN",
         Filled(rules, matches, target)
  PROVE  Walk(rules, packet, verdicts) =
           IF \E m \in matches : packet \in m THEN "RETURN"
           ELSE IF target \in DOMAIN verdicts THEN verdicts[target] ELSE target
<1>0. /\ CatchAll(target).target = target /\ CatchAll(target).match = Packets
      /\ \A m : Exception(m).target = "RETURN" /\ Exception(m).match = m
  BY DEF CatchAll, Exception
<1>1. CASE \E m \in matches : packet \in m
  <2>1. PICK m \in matches : packet \in m
    BY <1>1
  <2>2. \A i \in DOMAIN rules : rules[i].target # "RETURN" =>
          \E h \in 1 .. i - 1 : packet \in rules[h].match /\ rules[h].target = "RETURN"
    <3> SUFFICES ASSUME NEW i \in DOMAIN rules, rules[i].target # "RETURN"
                 PROVE  \E h \in 1 .. i - 1 : packet \in rules[h].match /\ rules[h].target = "RETURN"
      OBVIOUS
    <3>1. \E h \in 1 .. i - 1 : rules[h] = Exception(m)
      BY DEF Filled
    <3> QED
      BY <1>0, <2>1, <3>1
  <2>3. Walk(rules, packet, verdicts) = "RETURN"
    BY <2>2, WalkReturns
  <2> QED
    BY <1>1, <2>3
<1>2. CASE ~\E m \in matches : packet \in m
  <2> DEFINE ends == Ending(rules, packet, verdicts)
             outcome == IF target \in DOMAIN verdicts THEN verdicts[target] ELSE target
  <2>1. \A i \in ends : rules[i] = CatchAll(target)
    BY <1>0, <1>2 DEF Ending, Filled
  <2>2. \A i \in DOMAIN rules : rules[i] = CatchAll(target) =>
          Result(rules[i], verdicts) = outcome /\ (outcome # "RETURN" => i \in ends)
    BY <1>0 DEF Ending, Result
  <2>3. CASE ends = {}
    <3>1. Walk(rules, packet, verdicts) = "RETURN"
      BY <2>3, WalkEnds
    <3>2. outcome = "RETURN"
      BY <2>2, <2>3 DEF Filled
    <3> QED
      BY <1>2, <3>1, <3>2
  <2>4. CASE ends # {}
    <3> DEFINE i == Min(ends)
    <3>1. Walk(rules, packet, verdicts) = Result(rules[i], verdicts) /\ i \in ends
      BY <2>4, WalkEnds
    <3> HIDE DEF i
    <3>2. i \in DOMAIN rules /\ rules[i] = CatchAll(target)
      BY <2>1, <3>1 DEF Ending
    <3> HIDE DEF outcome
    <3>3. Walk(rules, packet, verdicts) = outcome
      BY <2>2, <3>1, <3>2
    <3> QED
      BY <1>2, <3>3 DEF outcome
  <2> QED
    BY <2>3, <2>4
<1> QED
  BY <1>1, <1>2

\* The verdicts of all chains are the walks of their rules.
LEMMA AboveTypes ==
  ASSUME TablesInv, NEW verdicts, NEW packet
  PROVE  /\ DOMAIN Above(verdicts, packet) = DOMAIN chains
         /\ \A c \in DOMAIN chains : Above(verdicts, packet)[c] = Walk(chains[c], packet, verdicts)
         /\ "RETURN" \notin DOMAIN chains /\ \A c \in DOMAIN chains : chains[c] \in Seq(Rules)
BY DEF Above, TablesInv, Chains, NatChains, MangleChains

\* A connection of the proxy itself passes the tables, whatever a run that has no
\* fault behind it has come to.
LEMMA ProxyPasses ==
  ASSUME RedirectionInv, NoFaults, NEW p \in OwnedByProxy
  PROVE  Verdict("nat/OUTPUT", p) = "RETURN"
<1> DEFINE output == "nat/SENTINEL_OUTPUT"
           V1 == Above([c \in DOMAIN chains |-> "RETURN"], p)
           V2 == Above(V1, p)
<1>0. /\ TablesInv /\ OrderInv /\ CommandFacts(K, mode, dryRun, exclude)
      /\ faults \in Nat /\ earlier \in Nat
  BY FactsOfK DEF RedirectionInv, TablesInv
<1>1. Clean /\ "nat/OUTPUT" \in DOMAIN chains
  BY <1>0 DEF NoFaults, Clean, TablesInv, BuiltIn
<1>2. /\ Verdict("nat/OUTPUT", p) = Walk(chains["nat/OUTPUT"], p, V2)
      /\ \A c \in DOMAIN chains : V2[c] = Walk(chains[c], p, V1)
      /\ DOMAIN V1 = DOMAIN chains /\ DOMAIN V2 = DOMAIN chains
      /\ "RETURN" \notin DOMAIN chains /\ \A c \in DOMAIN chains : chains[c] \in Seq(Rules)
  BY <1>0, <1>1, AboveTypes DEF Verdict
<1> HIDE DEF V1, V2
<1>3. CASE dryRun
  <2>1. DOMAIN chains["nat/OUTPUT"] = {}
    BY <1>0, <1>1, <1>3 DEF TablesInv, CommandFacts, Appends
  <2> QED
    BY <1>1, <1>2, <2>1, WalkReturns
<1>4. CASE ~dryRun
  <2>1. /\ \A j \in DOMAIN K : Appends(K[j], "nat/OUTPUT") => K[j].rule.target \in {"RETURN", output}
        /\ \E j \in DOMAIN K : Appends(K[j], output) /\ K[j].rule = Exception(OwnedByProxy)
    <3>1. mode \in Modes
      BY <1>0 DEF TablesInv
    <3>2. \E matches : Fills(K, "nat/OUTPUT", matches, output)
      BY <1>0, <1>4, <3>1 DEF CommandFacts, RedirectFills, TProxyFills, Modes
    <3>3. \E matches, target : OwnedByProxy \in matches /\ Fills(K, output, matches, target)
      <4>1. OwnedByProxy \in RedirectMatches(exclude) /\ OwnedByProxy \in OutputMatches(exclude)
        BY DEF RedirectMatches, OutputMatches
      <4> QED
        BY <1>0, <1>4, <3>1, <4>1 DEF CommandFacts, RedirectFills, TProxyFills, Modes
    <3>4. \A m : Exception(m).target = "RETURN"
      BY DEF Exception
    <3>5. CatchAll(output).target = output
      BY DEF CatchAll
    <3>6. \A j \in DOMAIN K : Appends(K[j], "nat/OUTPUT") => K[j].rule.target \in {"RETURN", output}
      BY <3>2, <3>4, <3>5 DEF Fills
    <3>7. \E j \in DOMAIN K : Appends(K[j], output) /\ K[j].rule = Exception(OwnedByProxy)
      BY <3>3 DEF Fills
    <3> QED
      BY <3>6, <3>7
  <2>2. output \in DOMAIN chains => V2[output] = "RETURN"
    <3> SUFFICES ASSUME output \in DOMAIN chains PROVE Walk(chains[output], p, V1) = "RETURN"
      BY <1>2
    <3>1. ASSUME NEW i \in DOMAIN chains[output], chains[output][i].target # "RETURN"
          PROVE  \E h \in 1 .. i - 1 :
                   p \in chains[output][h].match /\ chains[output][h].target = "RETURN"
      <4>1. PICK j \in DOMAIN K : Appends(K[j], output) /\ K[j].rule = Exception(OwnedByProxy)
        BY <2>1
      <4>2. Excepts(K[j], output)
        BY <4>1 DEF Excepts, Exception
      <4>3. \E h \in 1 .. i - 1 : chains[output][h] = K[j].rule
        BY <1>0, <1>1, <3>1, <4>2 DEF OrderInv
      <4> QED
        BY <4>1, <4>3 DEF Exception
    <3> QED
      BY <1>2, <3>1, WalkReturns
  <2>3. ASSUME NEW i \in DOMAIN chains["nat/OUTPUT"], chains["nat/OUTPUT"][i].target # "RETURN"
        PROVE  Result(chains["nat/OUTPUT"][i], V2) = "RETURN"
    <3>1. chains["nat/OUTPUT"][i].target = output
      BY <1>0, <1>1, <2>1, <2>3 DEF TablesInv
    <3>2. output \in DOMAIN chains
      BY <1>0, <1>1, <3>1 DEF TablesInv, Chains, NatChains
    <3> QED
      BY <1>2, <2>2, <3>1, <3>2 DEF Result
  <2> QED
    BY <1>1, <1>2, <2>3, WalkReturns
<1> QED
  BY <1>0, <1>3, <1>4 DEF TablesInv

\* The verdict of a chain that no command fills.
LEMMA VerdictOfEmpty ==
  ASSUME TablesInv, NEW c \in BuiltIn, \A j \in DOMAIN K : ~Appends(K[j], c), NEW p
  PROVE  Verdict(c, p) = "RETURN"
<1>1. c \in DOMAIN chains /\ DOMAIN chains[c] = {}
  BY DEF TablesInv
<1>2. ASSUME NEW v, DOMAIN v = DOMAIN chains PROVE Above(v, p)[c] = "RETURN"
  <2>1. /\ Above(v, p)[c] = Walk(chains[c], p, v) /\ chains[c] \in Seq(Rules)
        /\ "RETURN" \notin DOMAIN v
    BY <1>1, <1>2, AboveTypes
  <2>2. Walk(chains[c], p, v) = "RETURN"
    BY <1>1, <2>1, WalkReturns
  <2> QED
    BY <2>1, <2>2
<1> DEFINE V2 == Above(Above([e \in DOMAIN chains |-> "RETURN"], p), p)
<1>3. DOMAIN V2 = DOMAIN chains
  BY AboveTypes
<1>4. Verdict(c, p) = Above(V2, p)[c]
  BY DEF Verdict
<1> QED
  BY <1>2, <1>3, <1>4

\* The redirect mode leaves the mangle table alone: nothing is caught on its way
\* over lo.
LEMMA RedirectFate ==
  ASSUME RedirectionInv, mode = "REDIRECT", NEW p
  PROVE  Verdict("mangle/PREROUTING", p) = "RETURN" /\ Fate(p) = AtHook(p)
<1>1. TablesInv /\ CommandFacts(K, mode, dryRun, exclude)
  BY FactsOfK DEF RedirectionInv
<1>2. "mangle/PREROUTING" \notin NatChains /\ "mangle/PREROUTING" \in BuiltIn
  BY DEF NatChains, BuiltIn
<1>3. \A j \in DOMAIN K : ~Appends(K[j], "mangle/PREROUTING")
  BY <1>1, <1>2 DEF CommandFacts, Appends
<1>4. \A q : Verdict("mangle/PREROUTING", q) = "RETURN"
  BY <1>1, <1>2, <1>3, VerdictOfEmpty
<1> QED
  BY <1>4 DEF Fate, Caught

\* While no command has failed, the proxy's own connections are never sent back to
\* the proxy, not between two commands, nor after a crash between any two: in the
\* redirect mode none of them, in the TPROXY mode not the ones to other hosts.
THEOREM ProxyIsNeverCaptured == Spec => []ProxyNeverCaptured
<1>1. RedirectionInv => ProxyNeverCaptured
  <2> SUFFICES ASSUME RedirectionInv, NoFaults, NEW p \in OwnedByProxy,
                      mode = "REDIRECT" \/ p.to = "elsewhere"
               PROVE  Fate(p) = "RETURN"
    BY DEF ProxyNeverCaptured
  <2>1. AtHook(p) = "RETURN"
    <3>1. p.hook = "out"
      BY DEF OwnedByProxy, Packets
    <3> QED
      BY <3>1, ProxyPasses DEF AtHook
  <2>2. Outgoing(p) = p
    BY <2>1 DEF Outgoing
  <2>3. CASE p.to = "elsewhere"
    BY <2>1, <2>2, <2>3 DEF Fate
  <2>4. CASE mode = "REDIRECT"
    BY <2>1, <2>4, RedirectFate
  <2> QED
    BY <2>3, <2>4
<1> QED
  BY <1>1, RedirectionInvariant, PTL

\* A run that ends, in tables that no fault has touched, has filled its chains.
LEMMA ChainsAreFilled ==
  ASSUME RedirectionInv, Clean, todo = << >>,
         NEW c \in Chains, NEW matches, NEW target, target # "RETURN", Fills(K, c, matches, target)
  PROVE  /\ c \in DOMAIN chains /\ Filled(chains[c], matches, target)
         /\ target \in Chains => target \in DOMAIN chains
<1>0. /\ TablesInv /\ DoneInv /\ OrderInv /\ K \in Seq(CommandSet)
  BY FactsOfK DEF RedirectionInv, CommandFacts, WellFormed
<1>1. DOMAIN K = 1 .. Done
  BY <1>0 DEF Done
<1>2. \A j \in DOMAIN K : Appends(K[j], c) =>
        c \in DOMAIN chains /\ \E i \in DOMAIN chains[c] : chains[c][i] = K[j].rule
  BY <1>0, <1>1 DEF DoneInv, Clean, Appends
<1>3. /\ CatchAll(target).target = target /\ \A m : Exception(m).target = "RETURN"
  BY DEF CatchAll, Exception
<1>4. c \in DOMAIN chains /\ \E i \in DOMAIN chains[c] : chains[c][i] = CatchAll(target)
  BY <1>2 DEF Fills
<1>5. \A i \in DOMAIN chains[c] :
        chains[c][i] = CatchAll(target) \/ \E m \in matches : chains[c][i] = Exception(m)
  <2> SUFFICES ASSUME NEW i \in DOMAIN chains[c]
               PROVE  chains[c][i] = CatchAll(target) \/ \E m \in matches : chains[c][i] = Exception(m)
    OBVIOUS
  <2>1. PICK j \in DOMAIN K : Appends(K[j], c) /\ K[j].rule = chains[c][i]
    BY <1>0, <1>4 DEF TablesInv
  <2> QED
    BY <2>1 DEF Fills
<1>6. ASSUME NEW i \in DOMAIN chains[c], chains[c][i].target # "RETURN", NEW m \in matches
      PROVE  \E h \in 1 .. i - 1 : chains[c][h] = Exception(m)
  <2>1. PICK j \in DOMAIN K : Appends(K[j], c) /\ K[j].rule = Exception(m)
    BY DEF Fills
  <2>2. Excepts(K[j], c)
    BY <1>3, <2>1 DEF Excepts
  <2>3. \E h \in 1 .. i - 1 : chains[c][h] = K[j].rule
    BY <1>0, <1>4, <1>6, <2>2 DEF OrderInv
  <2> QED
    BY <2>1, <2>3
<1>7. target \in Chains => target \in DOMAIN chains
  BY <1>0, <1>3, <1>4 DEF TablesInv
<1> QED
  BY <1>4, <1>5, <1>6, <1>7 DEF Filled

\* The verdict of such a chain, from the ones of the chains it jumps to.
LEMMA VerdictOfFilled ==
  ASSUME RedirectionInv, Clean, todo = << >>,
         NEW c \in Chains, NEW matches, NEW target, target # "RETURN", Fills(K, c, matches, target),
         NEW p \in Packets, NEW v, DOMAIN v = DOMAIN chains
  PROVE  Above(v, p)[c] =
           IF \E m \in matches : p \in m THEN "RETURN"
           ELSE IF target \in Chains THEN v[target] ELSE target
<1>0. TablesInv /\ DOMAIN chains \subseteq Chains
  BY DEF RedirectionInv, TablesInv
<1>1. /\ c \in DOMAIN chains /\ Filled(chains[c], matches, target)
      /\ target \in Chains => target \in DOMAIN chains
  BY ChainsAreFilled
<1>2. /\ Above(v, p)[c] = Walk(chains[c], p, v) /\ chains[c] \in Seq(Rules)
      /\ "RETURN" \notin DOMAIN v
  BY <1>0, <1>1, AboveTypes
<1>3. Walk(chains[c], p, v) =
        IF \E m \in matches : p \in m THEN "RETURN"
        ELSE IF target \in DOMAIN v THEN v[target] ELSE target
  BY <1>1, <1>2, WalkOfFilled
<1> QED
  BY <1>0, <1>1, <1>2, <1>3

\* What the exceptions of the two modes are for.
LEMMA MatchesOfModes ==
  ASSUME NEW p \in Packets, NEW ex
  PROVE  /\ (\E m \in RedirectMatches(ex) : p \in m) <=>
              \/ p.port = 9090 \/ p.port \in ToSet(ex)
              \/ p.owner = "proxy" \/ p.state = "established"
         /\ (\E m \in InboundMatches(ex) : p \in m) <=>
              \/ p.port \in {443, 9090} \/ p.port \in ToSet(ex)
              \/ p.state = "established"
         /\ (\E m \in OutputMatches(ex) : p \in m) <=>
              \/ p.port \in {443, 9090, ServicePort} \/ p.port \in ToSet(ex)
              \/ p.owner = "proxy" \/ p.state = "established"
<1>1. /\ \A port : p \in Dport(port) <=> p.port = port
      /\ p \in OwnedByProxy <=> p.owner = "proxy"
      /\ p \in Established <=> p.state = "established"
  BY DEF Dport, OwnedByProxy, Established
<1>2. (\E m \in Dports(ToSet(ex)) : p \in m) <=> p.port \in ToSet(ex)
  BY <1>1 DEF Dports
<1>3. (\E m \in RedirectMatches(ex) : p \in m) <=>
        \/ p.port = 9090 \/ p.port \in ToSet(ex)
        \/ p.owner = "proxy" \/ p.state = "established"
  BY <1>1, <1>2 DEF RedirectMatches
<1>4. (\E m \in InboundMatches(ex) : p \in m) <=>
        \/ p.port \in {443, 9090} \/ p.port \in ToSet(ex) \/ p.state = "established"
  BY <1>1, <1>2 DEF InboundMatches
<1>5. (\E m \in OutputMatches(ex) : p \in m) <=>
        \/ p.port \in {443, 9090, ServicePort} \/ p.port \in ToSet(ex)
        \/ p.owner = "proxy" \/ p.state = "established"
  BY <1>1, <1>2 DEF OutputMatches
<1> QED
  BY <1>3, <1>4, <1>5

\* The parts of a packet; one that comes in is a peer's.
LEMMA PacketParts ==
  ASSUME NEW p \in Packets
  PROVE  /\ p.state \in {"new", "established"} /\ p.hook \in {"in", "out"}
         /\ p.hook = "in" <=> p.owner = "peer"
BY DEF Packets

\* In the redirect mode the finished tables implement the policy.
LEMMA RedirectAtHook ==
  ASSUME RedirectionInv, Clean, todo = << >>, ~dryRun, mode = "REDIRECT", NEW p \in Packets
  PROVE  AtHook(p) = Policy(p)
<1> DEFINE V0 == [c \in DOMAIN chains |-> "RETURN"]
           V1 == Above(V0, p)
           V2 == Above(V1, p)
           V3 == Above(V2, p)
<1>0. TablesInv /\ CommandFacts(K, mode, dryRun, exclude)
  BY FactsOfK DEF RedirectionInv
<1>1. /\ DOMAIN V0 = DOMAIN chains /\ DOMAIN V1 = DOMAIN chains /\ DOMAIN V2 = DOMAIN chains
      /\ \A c : Verdict(c, p) = V3[c]
  BY <1>0, AboveTypes DEF Verdict
<1>2. RedirectFills(K, exclude)
  BY <1>0 DEF CommandFacts
<1>3. NatChains \subseteq Chains /\ "inboundPort" \notin Chains /\ "outboundPort" \notin Chains
  BY DEF Chains, NatChains, MangleChains
<1> HIDE DEF V0, V1, V2, V3
<1>4. V1["nat/SENTINEL_IN_REDIRECT"] = "inboundPort" /\ V1["nat/SENTINEL_REDIRECT"] = "outboundPort"
  <2>1. /\ Fills(K, "nat/SENTINEL_IN_REDIRECT", {}, "inboundPort")
        /\ Fills(K, "nat/SENTINEL_REDIRECT", {}, "outboundPort")
        /\ "nat/SENTINEL_IN_REDIRECT" \in Chains /\ "nat/SENTINEL_REDIRECT" \in Chains
    BY <1>2, <1>3 DEF RedirectFills, NatChains
  <2> QED
    BY <1>1, <1>3, <2>1, VerdictOfFilled DEF V1
<1>5. /\ V2["nat/SENTINEL_INBOUND"] = "inboundPort"
      /\ V2["nat/SENTINEL_OUTPUT"] =
           IF \E m \in RedirectMatches(exclude) : p \in m THEN "RETURN" ELSE "outboundPort"
  <2>1. /\ Fills(K, "nat/SENTINEL_INBOUND", {}, "nat/SENTINEL_IN_REDIRECT")
        /\ Fills(K, "nat/SENTINEL_OUTPUT", RedirectMatches(exclude), "nat/SENTINEL_REDIRECT")
        /\ "nat/SENTINEL_INBOUND" \in Chains /\ "nat/SENTINEL_OUTPUT" \in Chains
        /\ "nat/SENTINEL_IN_REDIRECT" \in Chains /\ "nat/SENTINEL_REDIRECT" \in Chains
    BY <1>2, <1>3 DEF RedirectFills, NatChains
  <2> QED
    BY <1>1, <1>4, <2>1, VerdictOfFilled DEF V2
<1>6. /\ V3["nat/PREROUTING"] = "inboundPort"
      /\ V3["nat/OUTPUT"] =
           IF \E m \in RedirectMatches(exclude) : p \in m THEN "RETURN" ELSE "outboundPort"
  <2>1. /\ Fills(K, "nat/PREROUTING", {}, "nat/SENTINEL_INBOUND")
        /\ Fills(K, "nat/OUTPUT", {}, "nat/SENTINEL_OUTPUT")
        /\ "nat/SENTINEL_INBOUND" \in Chains /\ "nat/SENTINEL_OUTPUT" \in Chains
        /\ "nat/PREROUTING" \in Chains /\ "nat/OUTPUT" \in Chains
    BY <1>2, <1>3 DEF RedirectFills, NatChains
  <2> QED
    BY <1>1, <1>5, <2>1, VerdictOfFilled DEF V3
<1>7. Verdict("mangle/PREROUTING", p) = "RETURN"
  BY RedirectFate
<1>8. /\ p.state \in {"new", "established"} /\ p.hook \in {"in", "out"}
      /\ p.hook = "in" <=> p.owner = "peer"
  BY PacketParts
<1>9. AtHook(p) = IF p.state = "established" THEN "RETURN"
                ELSE IF p.hook = "in" THEN "inboundPort"
                ELSE IF \/ p.port = 9090 \/ p.port \in ToSet(exclude) \/ p.owner = "proxy"
                THEN "RETURN" ELSE "outboundPort"
  BY <1>1, <1>6, <1>7, <1>8, MatchesOfModes DEF AtHook, Caught, Marked
<1> QED
  BY <1>8, <1>9 DEF Policy

\* In the TPROXY mode the finished tables implement the policy.
LEMMA TProxyAtHook ==
  ASSUME RedirectionInv, Clean, todo = << >>, ~dryRun, mode = "TPROXY", NEW p \in Packets
  PROVE  AtHook(p) = Policy(p)
<1> DEFINE V0 == [c \in DOMAIN chains |-> "RETURN"]
           V1 == Above(V0, p)
           V2 == Above(V1, p)
           V3 == Above(V2, p)
           Passes == \E m \in InboundMatches(exclude) : p \in m
           Leaves == \E m \in OutputMatches(exclude) : p \in m
<1>0. TablesInv /\ CommandFacts(K, mode, dryRun, exclude) /\ mode # "REDIRECT"
  BY FactsOfK DEF RedirectionInv
<1>1. /\ DOMAIN V0 = DOMAIN chains /\ DOMAIN V1 = DOMAIN chains /\ DOMAIN V2 = DOMAIN chains
      /\ \A c : Verdict(c, p) = V3[c]
  BY <1>0, AboveTypes DEF Verdict
<1>2. TProxyFills(K, exclude) /\ \A j \in DOMAIN K : ~Appends(K[j], "nat/PREROUTING")
  BY <1>0 DEF CommandFacts
<1>3. /\ "outboundPort" \notin Chains /\ "TPROXY" \notin Chains
      /\ {"mangle/PREROUTING", "mangle/SENTINEL_INBOUND", "nat/OUTPUT", "nat/SENTINEL_OUTPUT"}
           \subseteq Chains
  BY DEF Chains, NatChains, MangleChains
<1> HIDE DEF V0, V1, V2, V3
<1>4. /\ V2["mangle/SENTINEL_INBOUND"] = IF Passes THEN "RETURN" ELSE "TPROXY"
      /\ V2["nat/SENTINEL_OUTPUT"] = IF Leaves THEN "RETURN" ELSE "outboundPort"
  <2>1. /\ Fills(K, "mangle/SENTINEL_INBOUND", InboundMatches(exclude), "TPROXY")
        /\ Fills(K, "nat/SENTINEL_OUTPUT", OutputMatches(exclude), "outboundPort")
    BY <1>2 DEF TProxyFills
  <2> QED
    BY <1>1, <1>3, <2>1, VerdictOfFilled DEF V2
<1>5. /\ V3["mangle/PREROUTING"] = IF Passes THEN "RETURN" ELSE "TPROXY"
      /\ V3["nat/OUTPUT"] = IF p.port = 443 \/ Leaves THEN "RETURN" ELSE "outboundPort"
  <2>1. /\ Fills(K, "mangle/PREROUTING", {}, "mangle/SENTINEL_INBOUND")
        /\ Fills(K, "nat/OUTPUT", {Dport(443)}, "nat/SENTINEL_OUTPUT")
    BY <1>2 DEF TProxyFills
  <2>2. (\E m \in {Dport(443)} : p \in m) <=> p.port = 443
    BY DEF Dport
  <2> HIDE DEF Passes, Leaves
  <2>3. V3["mangle/PREROUTING"] = V2["mangle/SENTINEL_INBOUND"]
    BY <1>1, <1>3, <2>1, VerdictOfFilled DEF V3
  <2>4. V3["nat/OUTPUT"] = IF p.port = 443 THEN "RETURN" ELSE V2["nat/SENTINEL_OUTPUT"]
    BY <1>1, <1>3, <2>1, <2>2, VerdictOfFilled DEF V3
  <2> QED
    BY <1>4, <2>3, <2>4
<1>6. Verdict("nat/PREROUTING", p) = "RETURN"
  BY <1>0, <1>2, VerdictOfEmpty DEF BuiltIn
<1>7. routing = {"rule", "route"}
  <2>1. DoneInv /\ DOMAIN K = 1 .. Done
    BY <1>0 DEF RedirectionInv, Done, CommandFacts, WellFormed
  <2>2. \A what \in {"rule", "route"} : what \in routing
    BY <1>0, <2>1 DEF DoneInv, Clean, CommandFacts
  <2> QED
    BY <1>0, <2>2 DEF TablesInv
<1>8. /\ p.state \in {"new", "established"} /\ p.hook \in {"in", "out"}
      /\ p.hook = "in" <=> p.owner = "peer"
  BY PacketParts
<1>9. /\ Passes <=> \/ p.port \in {443, 9090} \/ p.port \in ToSet(exclude)
                    \/ p.state = "established"
      /\ Leaves <=> \/ p.port \in {443, 9090, ServicePort} \/ p.port \in ToSet(exclude)
                    \/ p.owner = "proxy" \/ p.state = "established"
  BY MatchesOfModes
<1> HIDE DEF Passes, Leaves
<1>10. AtHook(p) = IF p.hook = "out"
                 THEN IF p.state = "established" \/ Leaves THEN "RETURN" ELSE "outboundPort"
                 ELSE IF Passes THEN "RETURN" ELSE "inboundPort"
  BY <1>1, <1>5, <1>6, <1>7, <1>8, <1>9 DEF AtHook, Caught, Marked
<1> QED
  BY <1>0, <1>8, <1>9, <1>10 DEF Policy

\* A run without faults that comes to its end has made the policy at every hook, for
\* every packet, every list of excluded ports and whatever crashes have left behind;
\* in the redirect mode also whatever the faults of earlier runs have, and for the
\* whole way of a packet.
THEOREM PolicyIsInstalled == Spec => []PolicyInstalled
<1>1. RedirectionInv => PolicyInstalled
  <2> SUFFICES ASSUME RedirectionInv, Installed, faults = 0, earlier > 0 => mode = "REDIRECT",
                      NEW p \in Packets
               PROVE  AtHook(p) = Policy(p) /\ (mode = "REDIRECT" => Fate(p) = Policy(p))
    BY DEF PolicyInstalled
  <2>1. /\ TablesInv /\ CommandFacts(K, mode, dryRun, exclude) /\ todo = << >> /\ ~dryRun
        /\ mode \in Modes /\ earlier \in Nat
    BY FactsOfK DEF RedirectionInv, TablesInv, Installed
  <2>2. mode = "REDIRECT" => Done > 0
    <3> SUFFICES ASSUME mode = "REDIRECT" PROVE Done > 0
      OBVIOUS
    <3>1. K \in Seq(CommandSet) /\ \E j \in DOMAIN K : Appends(K[j], "nat/OUTPUT")
      BY <2>1 DEF CommandFacts, WellFormed, RedirectFills, Fills
    <3> QED
      BY <2>1, <3>1 DEF Done
  <2>3. Clean
    BY <2>1, <2>2 DEF Clean
  <2> QED
    BY <2>1, <2>3, RedirectAtHook, TProxyAtHook, RedirectFate DEF Modes
<1> QED
  BY <1>1, RedirectionInvariant, PTL

-----------------------------------------------------------------------------
(* The pods                                                                 *)

\* The init container of a pod is an init container: all that is proved above holds
\* of it too.
THEOREM PodImplementsSpec == PodSpec => Spec
<1>1. PodInit => Init
  BY DEF PodInit
<1>2. [PodNext]_allVars => [Next]_vars
  <2> SUFFICES ASSUME [PodNext]_allVars PROVE [Next]_vars
    OBVIOUS
  <2>1. CASE Redirects
    BY <2>1 DEF Redirects, Next
  <2>2. CASE Crashes \/ LostTrack
    BY <2>2 DEF Crashes, LostTrack, Next
  <2>3. CASE Mutate \/ MutateErr \/ Unreachable \/ Admit \/ Reject \/ Succeeds \/ StartApp
    BY <2>3 DEF Mutate, MutateErr, Unreachable, Admit, Reject, Succeeds, StartApp
  <2>4. CASE UNCHANGED allVars
    BY <2>4 DEF allVars
  <2> QED
    BY <2>1, <2>2, <2>3, <2>4 DEF PodNext, Webhook, ApiServer, Kubelet
<1> QED
  BY <1>1, <1>2, PTL DEF PodSpec, Spec

\* What the lists of a pod name: its containers and its volumes.
Names == {"migrate", "app", "token", "sentinel-init", "sentinel-proxy", "sentinel-certs"}

\* The parts of a pod.
LEMMA PodTypes ==
  ASSUME NEW p \in Pods
  PROVE  /\ p.annotated \in BOOLEAN /\ p.inits \in Seq(Names)
         /\ p.containers \in Seq(Names) /\ p.volumes \in Seq(Names)
<1>1. PICK a \in BOOLEAN : p \in Plain(a) \/ p = WithSidecar(a)
  BY DEF Pods
<1>2. /\ << >> \in Seq(Names) /\ <<"migrate">> \in Seq(Names) /\ <<"app">> \in Seq(Names)
      /\ <<"token">> \in Seq(Names) /\ <<"sentinel-init">> \in Seq(Names)
      /\ <<"sentinel-certs">> \in Seq(Names)
      /\ <<"app", "sentinel-proxy">> \in Seq(Names)
  <2>1. \A x \in Names : <<x>> \in Seq(Names)
    OBVIOUS
  <2>2. \A x, y \in Names : <<x, y>> \in Seq(Names)
    OBVIOUS
  <2>3. /\ "migrate" \in Names /\ "app" \in Names /\ "token" \in Names
        /\ "sentinel-init" \in Names /\ "sentinel-certs" \in Names
        /\ "sentinel-proxy" \in Names
    BY DEF Names
  <2>4. << >> \in Seq(Names)
    OBVIOUS
  <2> QED
    BY <2>1, <2>2, <2>3, <2>4, Zenon
<1>3. \/ p.inits = << >> /\ p.containers = <<"app">> /\ p.volumes = << >>
      \/ p.inits = <<"migrate">> /\ p.containers = <<"app">> /\ p.volumes = <<"token">>
      \/ /\ p.inits = <<"sentinel-init">> /\ p.containers = <<"app", "sentinel-proxy">>
         /\ p.volumes = <<"sentinel-certs">>
  BY <1>1 DEF Plain, WithSidecar
<1>4. p.annotated \in BOOLEAN
  <2>1. p.annotated = a
    BY <1>1 DEF Plain, WithSidecar
  <2> QED
    BY <2>1
<1> QED
  BY <1>2, <1>3, <1>4, Zenon

\* The patch adds one item to a list, whether the pod has the list or not.
LEMMA AppliedAdd ==
  ASSUME NEW list \in Seq(Names), NEW item \in Names
  PROVE  Apply(list, AddTo(list, item)) = list \o <<item>>
<1>1. CASE list = << >>
  BY <1>1 DEF Apply, AddTo
<1>2. CASE list # << >>
  BY <1>2 DEF Apply, AddTo
<1> QED
  BY <1>1, <1>2

InjectedPod(p) ==
    [annotated |-> p.annotated,
     inits |-> p.inits \o <<"sentinel-init">>,
     containers |-> p.containers \o <<"sentinel-proxy">>,
     volumes |-> p.volumes \o <<"sentinel-certs">>]

\* A pod is as it was asked for until it is admitted, and from then on, if the
\* webhook has answered, the patched one, whose last init container is
\* sentinel-init: once all of them have succeeded, that one has.
PodInv ==
    /\ asked \in Pods /\ failedOpen \in BOOLEAN /\ app \in {"waiting", "running"}
    /\ admission \in {"asked", "reviewed", "admitted", "rejected"}
    /\ asked = WithSidecar(FALSE) \/ PatchArgs
    /\ patch = None \/ patch = InjectionPatch(asked)
    /\ admission # "admitted" => pod = asked /\ ready = 0 /\ app = "waiting"
    /\ admission = "reviewed" /\ asked.annotated /\ ~failedOpen => patch = InjectionPatch(asked)
    /\ pod = asked \/ pod = InjectedPod(asked)
    /\ Injected => pod = InjectedPod(asked)
    /\ ready \in 0 .. Len(pod.inits)
    /\ app = "running" => ready = Len(pod.inits)
    /\ Injected /\ ready = Len(pod.inits) => status = "success"

\* The patch makes sentinel-init the last init container.
LEMMA InitsOfPods ==
  ASSUME NEW p \in Pods
  PROVE  /\ Len(p.inits) \in Nat
         /\ Len(InjectedPod(p).inits) = Len(p.inits) + 1
         /\ InjectedPod(p).inits[Len(p.inits) + 1] = "sentinel-init"
BY PodTypes DEF InjectedPod

\* The patch applied by the API server is the injected pod.
LEMMA PatchedPod ==
  ASSUME NEW p \in Pods, pod = p, patch = InjectionPatch(p)
  PROVE  Patched = InjectedPod(p)
<1>1. patch # None
  BY NoneAssumption
<1>2. /\ p.inits \in Seq(Names) /\ p.containers \in Seq(Names) /\ p.volumes \in Seq(Names)
  BY PodTypes
<1>3. /\ Apply(p.inits, AddTo(p.inits, "sentinel-init")) = p.inits \o <<"sentinel-init">>
      /\ Apply(p.volumes, AddTo(p.volumes, "sentinel-certs")) = p.volumes \o <<"sentinel-certs">>
  <2>1. "sentinel-init" \in Names /\ "sentinel-certs" \in Names
    BY DEF Names
  <2> QED
    BY <1>2, <2>1, AppliedAdd, Zenon
<1>4. Apply(p.containers, [path |-> "-", value |-> <<"sentinel-proxy">>])
        = p.containers \o <<"sentinel-proxy">>
  BY DEF Apply
<1>5. /\ patch.inits = AddTo(p.inits, "sentinel-init")
      /\ patch.containers = [path |-> "-", value |-> <<"sentinel-proxy">>]
      /\ patch.volumes = AddTo(p.volumes, "sentinel-certs")
  BY DEF InjectionPatch
<1> QED
  BY <1>1, <1>3, <1>4, <1>5 DEF Patched, InjectedPod

\* A pod that is asked for satisfies the invariant.
LEMMA PodStart == PodInit => PodInv
<1> SUFFICES ASSUME PodInit PROVE PodInv
  OBVIOUS
<1>1. asked \in Pods /\ pod = asked /\ ready = 0
  BY DEF PodInit
<1>2. ready \in 0 .. Len(pod.inits)
  BY <1>1, InitsOfPods
<1> QED
  BY <1>1, <1>2 DEF PodInit, PodInv, Injected

\* Every step of the webhook, the API server and the kubelet keeps the invariant.
LEMMA PodStep == PodInv /\ [PodNext]_allVars => PodInv'
<1> SUFFICES ASSUME PodInv, [PodNext]_allVars PROVE PodInv'
  OBVIOUS
<1>0. /\ asked \in Pods /\ ready \in 0 .. Len(pod.inits) /\ ready \in Nat
      /\ pod = asked \/ pod = InjectedPod(asked)
  BY DEF PodInv
<1>1. CASE Mutate
  <2>1. /\ admission = "asked" /\ admission' = "reviewed"
        /\ patch' = IF pod.annotated THEN InjectionPatch(pod) ELSE None
        /\ UNCHANGED <<mode, dryRun, exclude, status, asked, pod, failedOpen, ready, app>>
    BY <1>1 DEF Mutate, vars
  <2> QED
    BY <2>1 DEF PodInv, Injected, PatchArgs
<1>2. CASE MutateErr \/ Unreachable \/ Reject
  <2>1. /\ admission # "admitted" /\ admission' \in {"reviewed", "rejected"}
        /\ admission' = "reviewed" => failedOpen' = TRUE
        /\ failedOpen' \in BOOLEAN
        /\ UNCHANGED <<mode, dryRun, exclude, status, asked, pod, patch, ready, app>>
    BY <1>2 DEF MutateErr, Unreachable, Reject, vars, PodInv
  <2> QED
    BY <2>1 DEF PodInv, Injected, PatchArgs
<1>3. CASE Admit
  <2>1. /\ admission = "reviewed" /\ admission' = "admitted" /\ pod' = Patched
        /\ UNCHANGED <<mode, dryRun, exclude, status, asked, patch, failedOpen, ready, app>>
    BY <1>3 DEF Admit, vars
  <2>2. pod = asked /\ ready = 0 /\ app = "waiting"
    BY <2>1 DEF PodInv
  <2>3. patch = InjectionPatch(asked) => pod' = InjectedPod(asked)
    BY <1>0, <2>1, <2>2, PatchedPod
  <2>4. patch = None => pod' = asked
    BY <2>1, <2>2 DEF Patched
  <2>5. pod' = asked \/ pod' = InjectedPod(asked)
    BY <2>3, <2>4 DEF PodInv
  <2>6. Injected' => pod' = InjectedPod(asked)
    BY <2>1, <2>3 DEF PodInv, Injected
  <2>7. ready' \in 0 .. Len(pod'.inits)
    BY <1>0, <2>1, <2>2, <2>5, InitsOfPods
  <2>8. Injected' => ready' # Len(pod'.inits)
    BY <1>0, <2>1, <2>2, <2>6, InitsOfPods
  <2> QED
    BY <2>1, <2>2, <2>5, <2>6, <2>7, <2>8 DEF PodInv, PatchArgs
<1>4. CASE Redirects \/ Crashes
  <2>1. /\ ready < Len(pod.inits)
        /\ UNCHANGED <<mode, dryRun, exclude, asked, pod, admission, patch, failedOpen, ready, app>>
    BY <1>4 DEF Redirects, Crashes, Runs, Execute, Rejected, Faulted, LogSuccess, Rerun, podVars
  <2>2. ready' # Len(pod'.inits)
    BY <1>0, <2>1
  <2> QED
    BY <2>1, <2>2 DEF PodInv, Injected, PatchArgs
<1>5. CASE Succeeds
  <2>1. /\ admission = "admitted" /\ ready < Len(pod.inits) /\ ready' = ready + 1
        /\ \/ pod.inits[ready + 1] = "migrate"
           \/ status = "success"
        /\ UNCHANGED <<mode, dryRun, exclude, status, asked, pod, admission, patch, failedOpen, app>>
    BY <1>5 DEF Succeeds, Runs, vars, injecting
  <2>2. Len(pod.inits) \in Nat
    BY <1>0, InitsOfPods
  <2>3. ready' \in 0 .. Len(pod'.inits)
    BY <1>0, <2>1, <2>2
  <2>4. Injected' /\ ready' = Len(pod'.inits) => status' = "success"
    <3> SUFFICES ASSUME Injected', ready' = Len(pod'.inits) PROVE status = "success"
      BY <2>1
    <3>1. pod = InjectedPod(asked)
      BY <2>1 DEF PodInv, Injected
    <3>2. pod.inits[ready + 1] = "sentinel-init"
      BY <1>0, <2>1, <3>1, InitsOfPods
    <3> QED
      BY <2>1, <3>2
  <2>5. app = "waiting"
    BY <1>0, <2>1, <2>2 DEF PodInv
  <2> QED
    BY <2>1, <2>3, <2>4, <2>5 DEF PodInv, Injected, PatchArgs
<1>6. CASE LostTrack
  <2>1. /\ admission = "admitted" /\ app = "waiting" /\ ready' = 0
        /\ UNCHANGED <<mode, dryRun, exclude, asked, pod, admission, patch, failedOpen, app>>
    BY <1>6 DEF LostTrack, Rerun, injecting
  <2>2. ready' \in 0 .. Len(pod'.inits)
    BY <1>0, <2>1, InitsOfPods
  <2>3. Injected' => ready' # Len(pod'.inits)
    <3> SUFFICES ASSUME Injected' PROVE ready' # Len(pod'.inits)
      OBVIOUS
    <3>1. pod = InjectedPod(asked)
      BY <2>1 DEF PodInv, Injected
    <3> QED
      BY <1>0, <2>1, <3>1, InitsOfPods
  <2> QED
    BY <2>1, <2>2, <2>3 DEF PodInv, Injected, PatchArgs
<1>7. CASE StartApp
  <2>1. /\ admission = "admitted" /\ ready = Len(pod.inits) /\ app' = "running"
        /\ UNCHANGED <<mode, dryRun, exclude, status, asked, pod, admission, patch, failedOpen, ready>>
    BY <1>7 DEF StartApp, vars, injecting
  <2> QED
    BY <2>1 DEF PodInv, Injected, PatchArgs
<1>8. CASE UNCHANGED allVars
  BY <1>8 DEF allVars, vars, podVars, PodInv, Injected, PatchArgs
<1> QED
  BY <1>1, <1>2, <1>3, <1>4, <1>5, <1>6, <1>7, <1>8 DEF PodNext, Webhook, ApiServer, Kubelet

\* In every state of a pod it is as asked for or as patched, a patched one whose init
\* containers have all succeeded has had its tables made, and the tables are as proved.
THEOREM PodInvariant == PodSpec => [](PodInv /\ RedirectionInv)
<1>1. PodSpec => []PodInv
  BY PodStart, PodStep, PTL DEF PodSpec
<1> QED
  BY <1>1, PodImplementsSpec, RedirectionInvariant, PTL

\* The types of a pod, with the bound on the tables of its init container.
THEOREM PodTypesHold == PodSpec => []PodTypeOK
<1>1. PodInv /\ TypeOK => PodTypeOK
  BY DEF PodInv, PodTypeOK
<1> QED
  BY <1>1, PodInvariant, PodImplementsSpec, TablesStayInBounds, PTL

\* An injected pod keeps all that its creator asked for, in its order, and has each
\* part of the sidecar once more, sentinel-init after the pod's own init containers.
THEOREM PatchAddsOnly == PodSpec => []InjectionAddsOnly
<1>1. PodInv => InjectionAddsOnly
  BY DEF PodInv, InjectionAddsOnly, InjectedPod
<1> QED
  BY <1>1, PodInvariant, PTL

\* The app of an injected pod does not run before the tables implement the policy,
\* whatever the kubelet crashes, forgets and runs again, if no command fails.
THEOREM AppIsIntercepted == PodSpec => []AppStartsIntercepted
<1>1. PodInv /\ RedirectionInv /\ PolicyInstalled => AppStartsIntercepted
  <2> SUFFICES ASSUME PodInv, RedirectionInv, PolicyInstalled,
                      Injected, app = "running", NoFaults, NEW p \in Packets
               PROVE  Fate(p) = Policy(p)
    BY DEF AppStartsIntercepted
  <2>1. status = "success"
    BY DEF PodInv
  <2>2. ~dryRun
    <3>1. WithSidecar(FALSE).annotated = FALSE
      BY DEF WithSidecar
    <3>2. asked # WithSidecar(FALSE)
      BY <3>1 DEF Injected
    <3> QED
      BY <3>2 DEF PodInv, PatchArgs
  <2>3. faults = 0 /\ earlier = 0
    BY DEF RedirectionInv, TablesInv, NoFaults
  <2>4. mode = "REDIRECT"
    <3>1. WithSidecar(FALSE).annotated = FALSE
      BY DEF WithSidecar
    <3> QED
      BY <3>1 DEF Injected, PodInv, PatchArgs
  <2> QED
    BY <2>1, <2>2, <2>3, <2>4 DEF PolicyInstalled, Installed
<1> QED
  BY <1>1, PodInvariant, PodImplementsSpec, PolicyIsInstalled, PTL

=============================================================================
