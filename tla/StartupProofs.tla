--------------------------- MODULE StartupProofs ---------------------------
(***************************************************************************)
(* The two programs of the repository.  For cfd StartupInv is inductive:   *)
(* for every configuration, every number of routes, and any failures and   *)
(* signals on the way.  For cfd_probe the exit code is honest on every     *)
(* command line and for every configuration file.                          *)
(***************************************************************************)
EXTENDS Startup, Probe, SequenceTheorems, TLAPS

Ops == {"set_mtu", "link_up", "add_addr", "add_route"}

\* There is at least one route to install.
LEMMA RoutesType ==
  ASSUME cfg \in Configs
  PROVE  routes \in Seq(Cidrs) /\ Len(routes) \in Nat /\ Len(routes) >= 1
<1>1. cfg.routed_cidrs \in Seq(Cidrs) /\ cfg.tun_local \in Cidrs
  BY DEF Configs
<1>2. CASE cfg.routed_cidrs = <<>>
  BY <1>1, <1>2 DEF routes
<1>3. CASE cfg.routed_cidrs # <<>>
  BY <1>1, <1>3 DEF routes
<1> QED
  BY <1>2, <1>3

\* The queue without its head.
LEMMA QueueRest ==
  ASSUME NEW T, NEW s \in Seq(T), NEW e \in T
  PROVE  Tail(Append(s, e)) \in Seq(T)
<1>1. Append(s, e) \in Seq(T) /\ Append(s, e) # <<>>
  BY AppendProperties
<1> QED
  BY <1>1

\* What a request adds to the kernel, it never takes anything away.
LEMMA DoneGrows ==
  ASSUME kernel \in Kernel, NEW op \in Ops, NEW c \in Cidrs
  PROVE  /\ Done(op, c) \in Kernel
         /\ kernel.link = "up" => Done(op, c).link = "up"
         /\ kernel.addr \subseteq Done(op, c).addr
         /\ \A d \in Cidrs : kernel.route[d] # "none" => Done(op, c).route[d] # "none"
         /\ op = "link_up" => Done(op, c).link = "up"
         /\ op = "add_addr" => c \in Done(op, c).addr
         /\ op = "add_route" => Done(op, c).route[c] # "none"
<1>0. 1280 \in Mtus
  BY DEF Mtus
<1>1. CASE op = "set_mtu"
  BY <1>0, <1>1 DEF Kernel, Done
<1>2. CASE op = "link_up"
  BY <1>2 DEF Kernel, Done
<1>3. CASE op = "add_addr"
  BY <1>3 DEF Kernel, Done
<1>4. CASE op = "add_route"
  BY <1>4 DEF Kernel, Done
<1> QED
  BY <1>1, <1>2, <1>3, <1>4 DEF Ops

\* A step that takes nothing away from the kernel.
Grows ==
  /\ kernel' \in Kernel
  /\ kernel.link = "up" => kernel'.link = "up"
  /\ kernel.addr \subseteq kernel'.addr
  /\ \A d \in Cidrs : kernel.route[d] # "none" => kernel'.route[d] # "none"

\* What talk() guarantees: with no acknowledgement left over and no signal, a
\* success it reports is this request's own.
LEMMA TalkEffect ==
  ASSUME kernel \in Kernel, acks \in Seq(Errno), g_stop \in BOOLEAN,
         acks # <<>> => g_stop,
         NEW op \in Ops, NEW c \in Cidrs, NEW res \in Errno, talk(op, c, res)
  PROVE  /\ Grows
         /\ acks' \in Seq(Errno) /\ g_stop' \in BOOLEAN
         /\ g_stop => g_stop'
         /\ acks' # <<>> => g_stop'
         /\ ~g_stop' /\ res = "ok" => kernel' = Done(op, c)
         /\ ~g_stop' /\ res = "EEXIST" => op = "add_route" /\ kernel'.route[c] # "none"
<1> DEFINE Goal ==
      /\ Grows
      /\ acks' \in Seq(Errno) /\ g_stop' \in BOOLEAN
      /\ g_stop => g_stop'
      /\ acks' # <<>> => g_stop'
      /\ ~g_stop' /\ res = "ok" => kernel' = Done(op, c)
      /\ ~g_stop' /\ res = "EEXIST" => op = "add_route" /\ kernel'.route[c] # "none"
<1> SUFFICES Goal
  OBVIOUS
<1>1. CASE NotSent(op, res)
  <2>1. res # "ok" /\ res # "EEXIST"
    BY <1>1 DEF NotSent
  <2>2. UNCHANGED <<kernel, acks, g_stop>>
    BY <1>1 DEF NotSent
  <2> QED
    BY <2>1, <2>2 DEF Grows
<1>2. ASSUME NEW answer \in Errno, Sent(op, c, answer),
             \/ Interrupted(res, answer) \/ Overrun(res)
             \/ Received(res, answer) \/ NotAnAck(res, answer)
      PROVE  Goal
  <2>1. kernel' = IF answer = "ok" THEN Done(op, c) ELSE kernel
    BY <1>2 DEF Sent
  <2>2. Grows
    BY <2>1, DoneGrows DEF Grows
  <2>3. answer = "EEXIST" => op = "add_route" /\ kernel'.route[c] # "none"
    BY <1>2, <2>1 DEF Sent, KernelAnswers
  <2>4. CASE Interrupted(res, answer)
    <3>1. res = "EINTR" /\ acks' = Append(acks, answer)
      BY <2>4 DEF Interrupted
    <3>2. g_stop' \in BOOLEAN /\ g_stop'
      BY <2>4, Zenon DEF Interrupted
    <3> QED
      BY <2>2, <3>1, <3>2
  <2>5. CASE Overrun(res)
    BY <2>2, <2>5 DEF Overrun
  <2>6. CASE Received(res, answer)
    <3> DEFINE q == Append(acks, answer)
    <3>1. res = Head(q) /\ acks' = Tail(q) /\ g_stop' = g_stop
      BY <2>6 DEF Received
    <3>2. Tail(q) \in Seq(Errno)
      BY QueueRest
    <3>3. CASE acks = <<>>
      <4>1. Head(q) = answer /\ Tail(q) = <<>>
        BY <3>3
      <4> QED
        BY <2>1, <2>2, <2>3, <3>1, <3>2, <4>1
    <3>4. CASE acks # <<>>
      BY <2>2, <3>1, <3>2, <3>4
    <3> QED
      BY <3>3, <3>4
  <2>7. CASE NotAnAck(res, answer)
    <3> DEFINE q == Append(acks, answer)
    <3>1. res = "protocol_error" /\ acks' = Tail(q) /\ g_stop' = g_stop
      BY <2>7 DEF NotAnAck
    <3>2. Tail(q) \in Seq(Errno)
      BY QueueRest
    <3>3. acks = <<>> => Tail(q) = <<>>
      OBVIOUS
    <3> HIDE DEF q
    <3> QED
      BY <2>2, <3>1, <3>2, <3>3
  <2> QED
    BY <1>2, <2>4, <2>5, <2>6, <2>7
<1>3. NotSent(op, res) \/ \E answer \in Errno :
        /\ Sent(op, c, answer)
        /\ \/ Interrupted(res, answer) \/ Overrun(res)
           \/ Received(res, answer) \/ NotAnAck(res, answer)
  BY Zenon DEF talk
<1> HIDE DEF Goal
<1> QED
  BY <1>1, <1>2, <1>3

\* A port that is not refused is one.
LEMMA PortAccepted ==
  ASSUME NEW line, ~Refused(line), line.k = "edge_port", line.v \in Ports
  PROVE  line.v \in EdgePort
<1>1. MaxPort \in Int
  BY DEF MaxPort
<1>2. line.v \in Int /\ 1 <= line.v /\ line.v <= MaxPort
  BY DEF Refused, Ports, MaxPort
<1> QED
  BY <1>1, <1>2 DEF EdgePort

\* A line that is not refused leaves a configuration.
LEMMA AppliedConfig ==
  ASSUME cfg \in Configs, NEW line \in Lines, ~Refused(line)
  PROVE  Applied(cfg, line) \in Configs
<1> DEFINE Bare  == {"blank or comment", "no equals sign", "unknown", OtherKeys}
           Nets  == {"tun_local", "route"}
           Ports1 == {"edge_port"}
<1>0. \/ line \in [k : Bare]
      \/ line \in [k : TextKeys, v : Texts]
      \/ line \in [k : Ports1, v : Ports]
      \/ line \in [k : Nets, v : Cidrs \cup {BadCidr}]
  BY Zenon DEF Lines
<1>00. /\ "edge_port" \notin Bare \cup TextKeys \cup Nets
       /\ Nets \cap (Bare \cup TextKeys \cup Ports1) = {}
       /\ TextKeys \cap (Bare \cup Nets \cup Ports1) = {}
       /\ "tun_local" \in Nets /\ "route" \in Nets
  BY DEF TextKeys, OtherKeys
<1> HIDE DEF Bare, Nets, Ports1
<1>000. /\ line.k = "edge_port" => line.v \in Ports
        /\ line.k \in Nets => line.v \in Cidrs \cup {BadCidr}
        /\ line.k \in TextKeys => line.v \in Texts
  BY <1>0, <1>00
<1>1. CASE line.k \in TextKeys
  <2>1. line.v \in Texts
    BY <1>1, <1>000
  <2>2. Applied(cfg, line) = [cfg EXCEPT ![line.k] = line.v]
    BY <1>1 DEF Applied
  <2>3. CASE line.k = "tunnel_id"
    BY <2>1, <2>2, <2>3 DEF Configs
  <2>4. CASE line.k = "tunnel_secret_b64"
    BY <2>1, <2>2, <2>4 DEF Configs
  <2>5. CASE line.k = "edge_host"
    BY <2>1, <2>2, <2>5 DEF Configs
  <2>6. CASE line.k = "tun_name"
    BY <2>1, <2>2, <2>6 DEF Configs
  <2> QED
    BY <1>1, <2>3, <2>4, <2>5, <2>6 DEF TextKeys
<1>2. CASE line.k = "edge_port"
  <2>1. line.v \in Ports
    BY <1>2, <1>000
  <2>2. line.v \in EdgePort
    BY <1>2, <2>1, PortAccepted
  <2>3. Applied(cfg, line) = [cfg EXCEPT !.edge_port = line.v]
    BY <1>2 DEF Applied, TextKeys
  <2> QED
    BY <2>2, <2>3 DEF Configs
<1>3. CASE line.k = "tun_local"
  <2>1. line.v \in Cidrs
    BY <1>3, <1>00, <1>000 DEF Refused
  <2>2. Applied(cfg, line) = [cfg EXCEPT !.tun_local = line.v]
    BY <1>3 DEF Applied, TextKeys
  <2> QED
    BY <2>1, <2>2 DEF Configs
<1>4. CASE line.k = "route"
  <2>1. line.v \in Cidrs
    BY <1>4, <1>00, <1>000 DEF Refused
  <2>2. Applied(cfg, line) = [cfg EXCEPT !.routed_cidrs = Append(@, line.v)]
    BY <1>4 DEF Applied, TextKeys
  <2>3. Append(cfg.routed_cidrs, line.v) \in Seq(Cidrs)
    BY <2>1 DEF Configs
  <2> QED
    BY <2>2, <2>3 DEF Configs
<1>5. CASE line.k \notin TextKeys \cup {"edge_port", "tun_local", "route"}
  BY <1>5 DEF Applied
<1> QED
  BY <1>1, <1>2, <1>3, <1>4, <1>5

-----------------------------------------------------------------------------
\* The invariant holds when main() starts.
LEMMA StartHolds == StartupInit => StartupInv
<1> SUFFICES ASSUME StartupInit PROVE StartupInv
  OBVIOUS
<1>0. /\ pc = "args" /\ i = 1 /\ cfg = DefaultConfig /\ lineno = 0 /\ route_idx = 1
      /\ exit_code = -1 /\ acks = <<>>
      /\ kernel \in NewDevice
  BY Zenon DEF StartupInit
<1>00. g_stop \in BOOLEAN /\ ~g_stop
  BY Zenon DEF StartupInit
<1>1. cfg \in Configs
  <2> DEFINE p == 7844
             r == <<>>
             t == ""
             u == "good"
  <2>1. p \in EdgePort /\ AnyCidr \in Cidrs /\ r \in Seq(Cidrs)
    <3>1. MaxPort \in Int /\ 1 <= p /\ p <= MaxPort
      BY DEF MaxPort
    <3> QED
      BY <3>1, ConfigAssumption DEF EdgePort
  <2>2. t \in Texts /\ u \in Texts
    BY DEF Texts
  <2>3. DefaultConfig =
          [tunnel_id |-> t, tunnel_secret_b64 |-> t, edge_host |-> u, tun_name |-> u,
           edge_port |-> p, tun_local |-> AnyCidr, routed_cidrs |-> r]
    BY DEF DefaultConfig
  <2> HIDE DEF p, r, t, u
  <2>4. DefaultConfig \in Configs
    BY <2>1, <2>2, <2>3 DEF Configs
  <2> QED
    BY <1>0, <2>4
<1>2. kernel \in Kernel
  <2>1. 1500 \in Mtus
    BY DEF Mtus
  <2> QED
    <3>1. /\ kernel = [mtu |-> kernel.mtu, link |-> kernel.link,
                       addr |-> kernel.addr, route |-> kernel.route]
          /\ kernel.mtu = 1500 /\ kernel.link = "down" /\ kernel.addr = {}
      BY <1>0 DEF NewDevice
    <3>2. kernel.route \in [Cidrs -> {"none", "other", "tun"}]
      BY <1>0 DEF NewDevice
    <3> QED
      BY <2>1, <3>1, <3>2 DEF Kernel
<1>3. acks \in Seq(Errno)
  BY <1>0
<1>4. TypeOK
  BY <1>0, <1>00, <1>1, <1>2, <1>3, RoutesType, ConfigAssumption DEF TypeOK, Labels
<1>5. Installed
  BY <1>0, <1>1, RoutesType DEF Installed, BehindAddr, BehindUp
<1> QED
  BY <1>0, <1>00, <1>4, <1>5 DEF StartupInv

\* What is installed stays installed while the kernel loses nothing, main()
\* stays with its configuration, and gets no further.
LEMMA InstalledKept ==
  ASSUME TypeOK, Installed, Grows, UNCHANGED <<cfg, route_idx>>,
         pc' \in BehindAddr \cup {"add_route"}
           => pc \in BehindAddr \cup {"add_route"} \/ route_idx > 1,
         pc' \in BehindAddr => pc \in BehindAddr,
         pc' = "add_addr" => pc = "add_addr"
  PROVE  Installed'
<1>1. routes' = routes /\ routes \in Seq(Cidrs)
  BY RoutesType DEF routes, TypeOK
<1>2. \A k \in 1..Len(routes) : routes[k] \in Cidrs
  BY <1>1
<1> QED
  BY <1>1, <1>2 DEF Installed, Grows, BehindUp

Early == {"args", "load", "line"}

\* A step that changes neither the configuration, the route in work nor what
\* main() may rely on.
LEMMA QuietStep ==
  ASSUME StartupInv, Grows, UNCHANGED <<cfg, route_idx>>,
         acks' \in Seq(Errno), g_stop' \in BOOLEAN, acks' # <<>> => g_stop',
         pc' \in Labels, i' \in Nat, lineno' \in 0..MaxLines, exit_code' \in -1..2,
         pc' \in Early => pc \in Early,
         ~g_stop' \/ pc' = "pump" => ~g_stop \/ pc = "pump",
         pc' \in BehindAddr \cup {"add_route"}
           => pc \in BehindAddr \cup {"add_route"} \/ route_idx > 1,
         pc' \in BehindAddr => pc \in BehindAddr,
         pc' = "add_addr" => pc = "add_addr"
  PROVE  StartupInv'
<1>1. TypeOK /\ (~g_stop' \/ pc' = "pump" => Installed) /\ (pc \in Early => route_idx = 1)
  BY DEF StartupInv, Early
<1>2. ~g_stop' \/ pc' = "pump" => Installed'
  BY <1>1, InstalledKept
<1>3. TypeOK'
  <2>1. routes' = routes
    BY DEF routes
  <2> QED
    BY <1>1, <2>1 DEF TypeOK, Grows
<1> QED
  BY <1>1, <1>2, <1>3 DEF StartupInv, Early

\* A line of the file: routes only grow, and the first is still to come.
LEMMA LineStep ==
  ASSUME StartupInv, ReadLine
  PROVE  StartupInv'
<1>0. /\ TypeOK /\ pc = "line" /\ route_idx = 1 /\ route_idx' = 1
      /\ (acks # <<>> => g_stop) /\ UNCHANGED <<kernel, acks, g_stop>> /\ i' = i
      /\ pc' \in {"line", "return"} /\ exit_code' \in -1..2 /\ lineno' \in 0..MaxLines
  BY ConfigAssumption DEF StartupInv, TypeOK, ReadLine, Goto, Return, netlinkVars
<1>1. PICK line \in Lines :
        IF Refused(line) THEN UNCHANGED cfg ELSE cfg' = Applied(cfg, line)
  BY DEF ReadLine
<1>2. cfg' \in Configs
  BY <1>0, <1>1, AppliedConfig DEF TypeOK
<1>3. Len(routes') \in Nat /\ Len(routes') >= 1
  <2>1. ASSUME NEW c \in Configs
        PROVE  LET r == IF c.routed_cidrs = <<>> THEN <<c.tun_local>> ELSE c.routed_cidrs
               IN Len(r) \in Nat /\ Len(r) >= 1
    <3>1. c.routed_cidrs \in Seq(Cidrs) /\ c.tun_local \in Cidrs
      BY DEF Configs
    <3>2. CASE c.routed_cidrs = <<>>
      BY <3>2
    <3>3. CASE c.routed_cidrs # <<>>
      BY <3>1, <3>3
    <3> QED
      BY <3>2, <3>3
  <2> QED
    BY <1>2, <2>1 DEF routes
<1>4. TypeOK'
  BY <1>0, <1>2, <1>3 DEF TypeOK, Labels
<1>5. Installed'
  BY <1>0, <1>3 DEF Installed, BehindUp, BehindAddr
<1> QED
  BY <1>0, <1>4, <1>5 DEF StartupInv

\* The calls of talk() for the device itself.
LEMMA DeviceStep ==
  ASSUME StartupInv, SetMtu \/ LinkUp \/ AddAddr
  PROVE  StartupInv'
<1> DEFINE c == cfg.tun_local
<1>0. /\ TypeOK /\ (acks # <<>> => g_stop) /\ (~g_stop => Installed)
      /\ kernel \in Kernel /\ acks \in Seq(Errno) /\ g_stop \in BOOLEAN
      /\ cfg \in Configs /\ route_idx \in 1..Len(routes)
  BY DEF StartupInv, TypeOK
<1>1. c \in Cidrs
  BY <1>0 DEF Configs
<1>2. routes \in Seq(Cidrs) /\ \A k \in 1..Len(routes) : routes[k] \in Cidrs
  BY <1>0, RoutesType
<1>3. /\ UNCHANGED <<cfg, route_idx, i, lineno>>
      /\ pc' \in {"link_up", "add_addr", "add_route", "return"} /\ exit_code' \in -1..2
      /\ routes' = routes
  BY <1>0 DEF SetMtu, LinkUp, AddAddr, Goto, Return, setupVars, TypeOK, routes
<1>4. PICK op \in Ops, res \in Errno :
        /\ talk(op, c, res)
        /\ pc' = "add_addr" => op = "link_up" /\ res = "ok"
        /\ pc' = "add_route" => op = "add_addr" /\ res = "ok" /\ pc = "add_addr"
  <2>1. CASE SetMtu
    BY <2>1 DEF SetMtu, Goto, Ops
  <2>2. CASE LinkUp
    BY <2>2 DEF LinkUp, Goto, Return, Ops
  <2>3. CASE AddAddr
    BY <2>3 DEF AddAddr, Goto, Return, Ops
  <2> QED
    BY <2>1, <2>2, <2>3
<1>5. /\ Grows /\ acks' \in Seq(Errno) /\ g_stop' \in BOOLEAN
      /\ (g_stop => g_stop') /\ (acks' # <<>> => g_stop')
      /\ (~g_stop' /\ res = "ok" => kernel' = Done(op, c))
  <2> HIDE DEF c
  <2> QED
    BY <1>0, <1>1, <1>4, TalkEffect
<1>6. TypeOK'
  BY <1>0, <1>3, <1>5 DEF TypeOK, Labels, Grows
<1>7. ASSUME ~g_stop' PROVE Installed'
  <2>1. Installed
    BY <1>0, <1>5, <1>7
  <2>2. pc' = "add_addr" => kernel'.link = "up"
    BY <1>0, <1>1, <1>4, <1>5, <1>7, DoneGrows
  <2>3. pc' = "add_route" => kernel'.link = "up" /\ c \in kernel'.addr
    <3>1. pc' = "add_route" => c \in kernel'.addr
      BY <1>0, <1>1, <1>4, <1>5, <1>7, DoneGrows
    <3>2. pc' = "add_route" => kernel.link = "up"
      BY <1>4, <2>1 DEF Installed, BehindUp
    <3> QED
      BY <1>5, <3>1, <3>2 DEF Grows
  <2>4. route_idx > 1 => kernel'.link = "up" /\ c \in kernel'.addr
    BY <1>5, <2>1 DEF Installed, Grows
  <2>5. \A k \in 1..Len(routes) : k < route_idx => kernel'.route[routes[k]] # "none"
    BY <1>2, <1>5, <2>1 DEF Installed, Grows
  <2>6. pc' \notin BehindAddr
    BY <1>3 DEF BehindAddr
  <2> QED
    BY <1>3, <2>2, <2>3, <2>4, <2>5, <2>6 DEF Installed, BehindUp
<1> QED
  BY <1>3, <1>5, <1>6, <1>7 DEF StartupInv

\* A route: the last one installed is the last there is.
LEMMA RouteStep ==
  ASSUME StartupInv, AddRoute
  PROVE  StartupInv'
<1> DEFINE c == routes[route_idx]
<1>0. /\ TypeOK /\ (acks # <<>> => g_stop) /\ (~g_stop => Installed)
      /\ kernel \in Kernel /\ acks \in Seq(Errno) /\ g_stop \in BOOLEAN
      /\ cfg \in Configs /\ route_idx \in 1..Len(routes)
  BY DEF StartupInv, TypeOK
<1>1. routes \in Seq(Cidrs) /\ Len(routes) \in Nat /\ c \in Cidrs
      /\ \A k \in 1..Len(routes) : routes[k] \in Cidrs
  BY <1>0, RoutesType
<1>2. /\ UNCHANGED <<cfg, i, lineno>> /\ pc = "add_route" /\ routes' = routes
      /\ pc' \in {"nl_open", "resolve", "return"} /\ exit_code' \in -1..2
  BY <1>0 DEF AddRoute, NextRoute, Goto, Return, setupVars, TypeOK, routes
<1>3. PICK res \in Errno :
        /\ talk("add_route", c, res)
        /\ IF res \in {"ok", "EEXIST"} THEN NextRoute ELSE Return(1) /\ UNCHANGED route_idx
  BY DEF AddRoute
<1>4. /\ route_idx' \in 1..Len(routes)
      /\ route_idx' # route_idx => route_idx' = route_idx + 1 /\ res \in {"ok", "EEXIST"}
      /\ pc' = "resolve" => route_idx = Len(routes) /\ res \in {"ok", "EEXIST"}
      /\ pc' = "resolve" => route_idx' = route_idx
  BY <1>0, <1>1, <1>3 DEF NextRoute, Goto, Return
<1>5. /\ Grows /\ acks' \in Seq(Errno) /\ g_stop' \in BOOLEAN
      /\ (g_stop => g_stop') /\ (acks' # <<>> => g_stop')
      /\ (~g_stop' /\ res = "ok" => kernel' = Done("add_route", c))
      /\ (~g_stop' /\ res = "EEXIST" => kernel'.route[c] # "none")
  <2>1. "add_route" \in Ops
    BY DEF Ops
  <2> HIDE DEF c
  <2> QED
    BY <1>0, <1>1, <1>3, <2>1, TalkEffect
<1>6. TypeOK'
  BY <1>0, <1>2, <1>4, <1>5 DEF TypeOK, Labels, Grows
<1>7. ASSUME ~g_stop' PROVE Installed'
  <2>1. Installed
    BY <1>0, <1>5, <1>7
  <2>2. kernel'.link = "up" /\ cfg.tun_local \in kernel'.addr
    BY <1>2, <1>5, <2>1 DEF Installed, Grows
  <2>3. res \in {"ok", "EEXIST"} => kernel'.route[c] # "none"
    <3>1. Done("add_route", c).route[c] # "none"
      BY <1>0, <1>1, DoneGrows DEF Ops
    <3> QED
      BY <1>5, <1>7, <3>1
  <2>4. \A k \in 1..Len(routes) : k < route_idx => kernel'.route[routes[k]] # "none"
    BY <1>1, <1>5, <2>1 DEF Installed, Grows
  <2>5. \A k \in 1..Len(routes) :
          k < route_idx' \/ pc' = "resolve" => kernel'.route[routes[k]] # "none"
    BY <1>0, <1>1, <1>4, <2>3, <2>4
  <2> QED
    BY <1>2, <2>2, <2>5 DEF Installed, BehindUp, BehindAddr
<1> QED
  BY <1>2, <1>5, <1>6, <1>7 DEF StartupInv

\* The invariant is inductive.
LEMMA StartupStep == StartupInv /\ [StartupNext]_startupVars => StartupInv'
<1> SUFFICES ASSUME StartupInv, [StartupNext]_startupVars PROVE StartupInv'
  OBVIOUS
<1>0. /\ TypeOK /\ (acks # <<>> => g_stop)
      /\ acks \in Seq(Errno) /\ g_stop \in BOOLEAN
      /\ pc \in Labels /\ i \in Nat /\ lineno \in 0..MaxLines /\ exit_code \in -1..2
      /\ route_idx \in 1..Len(routes) /\ Len(routes) \in Nat /\ kernel \in Kernel
  BY RoutesType DEF StartupInv, TypeOK
<1>1. UNCHANGED kernel => Grows
  BY <1>0 DEF Grows
<1> USE DEF Labels, Early, BehindAddr, Goto, Return, setupVars, netlinkVars
<1>2. CASE ParseArgs
  <2>1. pc = "args" /\ UNCHANGED <<cfg, lineno, route_idx, kernel, acks, g_stop>>
    BY <1>2, Zenon DEF ParseArgs
  <2>2. i' = i \/ i' = i + 1 \/ i' = i + 2
    BY <1>2, Zenon DEF ParseArgs
  <2>3. \/ pc' \in {"args", "load"} /\ exit_code' = exit_code
        \/ pc' = "return" /\ exit_code' \in {0, 2}
    BY <1>2, Zenon DEF ParseArgs
  <2> QED
    BY <1>0, <1>1, <2>1, <2>2, <2>3, QuietStep
<1>3. CASE OpenConfig
  BY <1>0, <1>1, <1>3, QuietStep DEF OpenConfig
<1>4. CASE Loaded
  BY <1>0, <1>1, <1>4, QuietStep DEF Loaded
<1>5. CASE TunOpen
  BY <1>0, <1>1, <1>5, QuietStep DEF TunOpen
<1>6. CASE NlOpen
  <2>1. acks' = <<>> /\ acks' \in Seq(Errno)
    BY <1>6 DEF NlOpen
  <2> QED
    BY <1>0, <1>1, <1>6, <2>1, QuietStep DEF NlOpen
<1>7. CASE IfIndex
  BY <1>0, <1>1, <1>7, QuietStep DEF IfIndex
<1>8. CASE Resolve
  BY <1>0, <1>1, <1>8, QuietStep DEF Resolve
<1>9. CASE BuildRequest
  BY <1>0, <1>1, <1>9, QuietStep DEF BuildRequest
<1>10. CASE FirstConnection
  BY <1>0, <1>1, <1>10, QuietStep DEF FirstConnection
<1>11. CASE Stopped
  BY <1>0, <1>1, <1>11, QuietStep DEF Stopped
<1>12. CASE on_signal
  <2>1. g_stop' \in BOOLEAN /\ g_stop' /\ UNCHANGED <<pc, i, lineno, exit_code, kernel, acks>>
    BY <1>12, Zenon DEF on_signal
  <2>2. UNCHANGED <<cfg, route_idx>> /\ ~g_stop
    BY <1>12, Zenon DEF on_signal
  <2> QED
    BY <1>0, <1>1, <2>1, <2>2, QuietStep
<1>13. CASE UNCHANGED startupVars
  BY <1>0, <1>1, <1>13, QuietStep DEF startupVars
<1> QED
  BY <1>2, <1>3, <1>4, <1>5, <1>6, <1>7, <1>8, <1>9, <1>10, <1>11, <1>12, <1>13,
     LineStep, DeviceStep, RouteStep DEF StartupNext

\* Whatever calls fail and whenever signals come: an acknowledgement is left
\* for a later request only after a signal, and until then every call that
\* returned has had its effect.
THEOREM StartupSafe == StartupSpec => []StartupInv
  BY StartHolds, StartupStep, PTL DEF StartupSpec

\* Packets flow only when the link is up, the address is set and every
\* configured prefix has a route.
THEOREM PumpIsConfigured == StartupSpec => []ConfiguredMeansInstalled
<1>1. StartupInv => ConfiguredMeansInstalled
  <2> SUFFICES ASSUME StartupInv, pc = "pump"
               PROVE  /\ kernel.link = "up" /\ cfg.tun_local \in kernel.addr
                      /\ \A k \in 1..Len(cfg.routed_cidrs) :
                           kernel.route[cfg.routed_cidrs[k]] # "none"
    BY DEF ConfiguredMeansInstalled
  <2>1. Installed /\ cfg.routed_cidrs \in Seq(Cidrs)
    BY DEF StartupInv, TypeOK, Configs
  <2>2. kernel.link = "up" /\ cfg.tun_local \in kernel.addr
    BY <2>1 DEF Installed, BehindAddr
  <2>3. CASE cfg.routed_cidrs = <<>>
    BY <2>2, <2>3
  <2>4. CASE cfg.routed_cidrs # <<>>
    BY <2>1, <2>2, <2>4 DEF Installed, BehindAddr, routes
  <2> QED
    BY <2>3, <2>4
<1> QED
  BY <1>1, StartupSafe, PTL

-----------------------------------------------------------------------------
(* cfd_probe *)

\* Where the client and the outcome stand at each phase of the probe's main().
ProbeInv ==
  /\ at \in {"args", "config", "connect", "register", "done", "exit"}
  /\ at # "exit" => code = -1
  /\ at \in {"args", "config", "connect"} => client = "none" /\ ~registered
  /\ at = "register" => client = "open" /\ handshake /\ ~registered
  /\ at = "done" => /\ client = "open" /\ handshake
                    /\ do_register /\ NonEmpty(config_path) => registered
  /\ at = "exit" => ZeroMeansDone

\* Until it dials, the probe can only go on, or leave with help or an error.
LEMMA ProbeSetupStep ==
  ASSUME ProbeInv, ParseOption \/ OptionsRead \/ ReadIniLine \/ IniRead
  PROVE  ProbeInv'
<1>1. at \in {"args", "config"} /\ client = "none" /\ ~registered /\ code = -1
  BY DEF ProbeInv, ParseOption, OptionsRead, ReadIniLine, IniRead
<1>2. client' = client /\ handshake' = handshake /\ registered' = registered
  BY Zenon DEF ParseOption, OptionsRead, ReadIniLine, IniRead, clientVars
<1>3. \/ at' \in {"args", "config", "connect"} /\ code' = code
      \/ at' = "exit" /\ code' = 2
      \/ /\ at' = "exit" /\ code' = 0
         /\ n' = n /\ args' = args
         /\ n <= Len(args) /\ args[n] \in {"-h", "--help"}
  BY DEF ParseOption, OptionsRead, ReadIniLine, IniRead, To, Exit
<1> QED
  BY <1>1, <1>2, <1>3 DEF ProbeInv, ZeroMeansDone

\* A dial leaves an open client behind it or a closed one.
LEMMA ProbeConnectStep ==
  ASSUME ProbeInv, Connect
  PROVE  ProbeInv'
<1>1. client = "none" /\ ~registered /\ code = -1
  BY DEF ProbeInv, Connect
<1>2. registered' = registered /\ do_register' = do_register
      /\ config_path' = config_path
  BY Zenon DEF Connect, optionVars
<1>3. CASE client' = "closed" /\ Exit(1) /\ UNCHANGED handshake
  BY <1>1, <1>2, <1>3 DEF ProbeInv, ZeroMeansDone, Exit
<1>4. CASE /\ client' = "open" /\ handshake' = TRUE
           /\ To(IF do_register /\ NonEmpty(config_path) THEN "register" ELSE "done")
  <2>1. handshake'
    BY <1>4, Zenon
  <2>2. client' = "open" /\ code' = code
        /\ at' = IF do_register /\ NonEmpty(config_path) THEN "register" ELSE "done"
    BY <1>4 DEF To
  <2> QED
    BY <1>1, <1>2, <2>1, <2>2 DEF ProbeInv
<1> QED
  BY <1>3, <1>4 DEF Connect

\* A registration succeeds or closes the client with an error.
LEMMA ProbeRegisterStep ==
  ASSUME ProbeInv, Register
  PROVE  ProbeInv'
<1>1. client = "open" /\ handshake /\ ~registered /\ code = -1
  BY DEF ProbeInv, Register
<1>2. handshake' = handshake
  BY Zenon DEF Register
<1>3. CASE client' = "closed" /\ Exit(1) /\ UNCHANGED registered
  BY <1>1, <1>2, <1>3 DEF ProbeInv, ZeroMeansDone, Exit
<1>4. CASE registered' = TRUE /\ To("done") /\ UNCHANGED client
  <2>1. registered'
    BY <1>4, Zenon
  <2> QED
    BY <1>1, <1>2, <1>4, <2>1 DEF ProbeInv, To
<1> QED
  BY <1>3, <1>4 DEF Register

\* The last close, with what was found.
LEMMA ProbeFinishStep ==
  ASSUME ProbeInv, Finish
  PROVE  ProbeInv'
<1>1. handshake' = handshake /\ registered' = registered
      /\ do_register' = do_register /\ config_path' = config_path
  BY Zenon DEF Finish, optionVars
<1> QED
  BY <1>1 DEF ProbeInv, Finish, Exit, ZeroMeansDone

\* Whatever the command line and the configuration file, and whichever call
\* fails: the probe exits with 0 only when all it was asked for succeeded, and
\* never with its client open.
THEOREM ProbeTellsTheTruth == ProbeSpec => []ZeroMeansDone
<1>1. ProbeInit => ProbeInv
  BY DEF ProbeInit, ProbeInv
<1>2. ProbeInv /\ [ProbeNext]_probeVars => ProbeInv'
  <2> SUFFICES ASSUME ProbeInv, [ProbeNext]_probeVars
               PROVE  ProbeInv'
    OBVIOUS
  <2>1. CASE UNCHANGED probeVars
    BY <2>1 DEF probeVars, optionVars, clientVars, ProbeInv, ZeroMeansDone
  <2>2. CASE ProbeNext
    BY <2>2, ProbeSetupStep, ProbeConnectStep, ProbeRegisterStep, ProbeFinishStep
       DEF ProbeNext
  <2> QED
    BY <2>1, <2>2
<1>3. ProbeInv => ZeroMeansDone
  BY DEF ProbeInv, ZeroMeansDone
<1> QED
  BY <1>1, <1>2, <1>3, PTL DEF ProbeSpec
=============================================================================
