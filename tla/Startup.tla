------------------------------ MODULE Startup ------------------------------
(***************************************************************************)
(* main() (main.cpp) up to the packet pump, with Config::load_from_file()  *)
(* and TunDevice (tun/tun_device_linux.cpp): arguments, configuration,     *)
(* signals, the TUN device and its routes, the edge addresses, the request *)
(* template.  A step is a call that can fail; a signal may come at any     *)
(* time after the handlers are installed.  What the connections do is      *)
(* Supervisor's subject: here they come up or do not.                      *)
(***************************************************************************)
EXTENDS Netlink

CONSTANTS
  Argv,            \* the command lines explored, without the program's name
  kNumHaConns,
  Addresses,       \* what DNS may answer
  MaxAddresses     \* bound: addresses in an answer

ASSUME StartupAssumption == kNumHaConns \in Nat \ {0} /\ MaxAddresses \in Nat

VARIABLES
  pc,              \* the call main() makes next
  argv, i,         \* arguments, and the index of the next one
  cfg_path, cfg, lineno,
  route_idx,       \* the route being installed; the first is configure()'s
  edge_ips,
  exit_code        \* what main() returns, -1 before

netlinkVars == <<kernel, acks, g_stop>>
startupVars == <<pc, argv, i, cfg_path, cfg, lineno, route_idx, edge_ips, exit_code,
          kernel, acks, g_stop>>

Goto(label) == pc' = label /\ UNCHANGED exit_code
Return(code) == pc' = "return" /\ exit_code' = code

\* A device just made; others may have routes to the prefixes already.
NewDevice == [mtu : {1500}, link : {"down"}, addr : {{}},
              route : [Cidrs -> {"none", "other"}]]

StartupInit ==
  /\ pc = "args" /\ argv \in Argv /\ i = 1
  /\ cfg_path = "" /\ cfg = DefaultConfig /\ lineno = 0
  /\ route_idx = 1 /\ edge_ips = <<>> /\ exit_code = -1
  /\ kernel \in NewDevice
  /\ acks = <<>> /\ g_stop = FALSE

-----------------------------------------------------------------------------
(* Arguments and configuration *)

ParseArgs ==
  /\ pc = "args"
  /\ IF i > Len(argv)
     THEN /\ IF cfg_path = "" THEN Return(2) ELSE Goto("load")
          /\ UNCHANGED <<i, cfg_path>>
     ELSE IF argv[i] = "--config" /\ i < Len(argv)
     THEN cfg_path' = argv[i + 1] /\ i' = i + 2 /\ Goto("args")
     ELSE IF argv[i] = "--verbose"
     THEN i' = i + 1 /\ Goto("args") /\ UNCHANGED cfg_path
     ELSE /\ Return(IF argv[i] \in {"--help", "-h"} THEN 0 ELSE 2)
          /\ UNCHANGED <<i, cfg_path>>
  /\ UNCHANGED <<argv, cfg, lineno, route_idx, edge_ips, netlinkVars>>

OpenConfig ==
  /\ pc = "load"
  /\ Goto("line") \/ Return(1)
  /\ UNCHANGED <<argv, i, cfg_path, cfg, lineno, route_idx, edge_ips, netlinkVars>>

\* One turn of load_from_file()'s loop.
ReadLine == \E line \in Lines :
  /\ pc = "line" /\ lineno < MaxLines
  /\ lineno' = lineno + 1
  /\ IF Refused(line) THEN Return(1) /\ UNCHANGED cfg
                      ELSE Goto("line") /\ cfg' = Applied(cfg, line)
  /\ UNCHANGED <<argv, i, cfg_path, route_idx, edge_ips, netlinkVars>>

\* The end of the file; install_signals().
Loaded ==
  /\ pc = "line"
  /\ Goto("tun_open")
  /\ UNCHANGED <<argv, i, cfg_path, cfg, lineno, route_idx, edge_ips, netlinkVars>>

-----------------------------------------------------------------------------
(* The TUN device *)

setupVars == <<argv, i, cfg_path, cfg, lineno>>

TunOpen ==
  /\ pc = "tun_open"
  /\ Goto("nl_open") \/ Return(1)
  /\ UNCHANGED <<setupVars, route_idx, edge_ips, netlinkVars>>

\* Both TunDevice::configure() and add_route() begin with a new netlink client.
NlOpen ==
  /\ pc = "nl_open"
  /\ Goto("if_index") \/ Return(1)
  /\ acks' = <<>>
  /\ UNCHANGED <<setupVars, route_idx, edge_ips, kernel, g_stop>>

IfIndex ==
  /\ pc = "if_index"
  /\ Goto(IF route_idx = 1 THEN "set_mtu" ELSE "add_route") \/ Return(1)
  /\ UNCHANGED <<setupVars, route_idx, edge_ips, netlinkVars>>

\* Its failure is not fatal.
SetMtu == \E res \in Errno :
  /\ pc = "set_mtu"
  /\ talk("set_mtu", cfg.tun_local, res)
  /\ Goto("link_up")
  /\ UNCHANGED <<setupVars, route_idx, edge_ips>>

LinkUp == \E res \in Errno :
  /\ pc = "link_up"
  /\ talk("link_up", cfg.tun_local, res)
  /\ IF res = "ok" THEN Goto("add_addr") ELSE Return(1)
  /\ UNCHANGED <<setupVars, route_idx, edge_ips>>

AddAddr == \E res \in Errno :
  /\ pc = "add_addr"
  /\ talk("add_addr", cfg.tun_local, res)
  /\ IF res = "ok" THEN Goto("add_route") ELSE Return(1)
  /\ UNCHANGED <<setupVars, route_idx, edge_ips>>

\* configure() is given the first route, or the address when there is none.
routes == IF cfg.routed_cidrs = <<>> THEN <<cfg.tun_local>> ELSE cfg.routed_cidrs

\* The loop of main() over the routes behind the first.
NextRoute_SkipsLast ==
  IF route_idx + 1 < Len(routes)
  THEN route_idx' = route_idx + 1 /\ Goto("nl_open")
  ELSE UNCHANGED route_idx /\ Goto("resolve")
NextRoute ==
  IF route_idx < Len(routes)
  THEN route_idx' = route_idx + 1 /\ Goto("nl_open")
  ELSE UNCHANGED route_idx /\ Goto("resolve")

AddRoute == \E res \in Errno :
  /\ pc = "add_route"
  /\ talk("add_route", routes[route_idx], res)
  /\ IF res \in {"ok", "EEXIST"} THEN NextRoute
                                 ELSE Return(1) /\ UNCHANGED route_idx
  /\ UNCHANGED <<setupVars, edge_ips>>

-----------------------------------------------------------------------------
(* Edge addresses, request, service *)

\* resolve_edge_ips(): the answer of DNS (or the name itself), in turn.
resolve_edge_ips(found) ==
  LET some == IF found = <<>> THEN <<cfg.edge_host>> ELSE found
  IN [k \in 1..kNumHaConns |-> some[((k - 1) % Len(some)) + 1]]

Resolve == \E n \in 0..MaxAddresses : \E found \in [1..n -> Addresses] :
  /\ pc = "resolve"
  /\ edge_ips' = resolve_edge_ips(found)
  /\ Goto("request")
  /\ UNCHANGED <<setupVars, route_idx, netlinkVars>>

\* parse_uuid() and base64_decode(); an empty secret is one.
BuildRequest ==
  /\ pc = "request"
  /\ IF cfg.tunnel_id = "good" /\ cfg.tunnel_secret_b64 # "bad"
     THEN Goto("serve") ELSE Return(1)
  /\ UNCHANGED <<setupVars, route_idx, edge_ips, netlinkVars>>

\* The wait for a first connection: stopped, none in time, or one is there.
FirstConnection_Unchecked ==
  /\ pc = "serve"
  /\ Return(1) \/ Goto("pump")
  /\ UNCHANGED <<setupVars, route_idx, edge_ips, netlinkVars>>
FirstConnection ==
  /\ pc = "serve"
  /\ Return(1) \/ (~g_stop /\ Goto("pump"))
  /\ UNCHANGED <<setupVars, route_idx, edge_ips, netlinkVars>>

Stopped ==
  /\ pc = "pump" /\ g_stop
  /\ Return(0)
  /\ UNCHANGED <<setupVars, route_idx, edge_ips, netlinkVars>>

on_signal ==
  /\ pc \notin {"args", "load", "line", "return"} /\ ~g_stop
  /\ g_stop' = TRUE
  /\ UNCHANGED <<pc, setupVars, route_idx, edge_ips, exit_code, kernel, acks>>

StartupNext ==
  \/ ParseArgs \/ OpenConfig \/ ReadLine \/ Loaded
  \/ TunOpen \/ NlOpen \/ IfIndex \/ SetMtu \/ LinkUp \/ AddAddr \/ AddRoute
  \/ Resolve \/ BuildRequest \/ FirstConnection \/ Stopped \/ on_signal

StartupSpec == StartupInit /\ [][StartupNext]_startupVars

-----------------------------------------------------------------------------
Labels == {"args", "load", "line", "tun_open", "nl_open", "if_index", "set_mtu",
           "link_up", "add_addr", "add_route", "resolve", "request", "serve",
           "pump", "return"}

\* The labels behind each stage of configure() and main().
BehindAddr == {"resolve", "request", "serve", "pump"}
BehindUp   == {"add_addr"} \cup BehindAddr

TypeOK ==
  /\ pc \in Labels /\ i \in Nat /\ lineno \in 0..MaxLines
  /\ cfg \in Configs /\ kernel \in Kernel /\ acks \in Seq(Errno)
  /\ g_stop \in BOOLEAN /\ exit_code \in -1..2
  /\ route_idx \in 1..Len(routes)

\* What is installed by the time main() is at pc.
Installed ==
  /\ pc \in BehindUp \/ route_idx > 1 => kernel.link = "up"
  /\ pc \in BehindAddr \cup {"add_route"} \/ route_idx > 1 =>
       kernel.link = "up" /\ cfg.tun_local \in kernel.addr
  /\ \A k \in 1..Len(routes) :
       k < route_idx \/ pc \in BehindAddr => kernel.route[routes[k]] # "none"

\* The configuration of the device, step by step: an acknowledgement is left
\* over for the next request only after a signal, and until a signal comes
\* each call that returned has had its effect.
StartupInv ==
  /\ TypeOK
  /\ pc \in {"args", "load", "line"} => route_idx = 1
  /\ acks # <<>> => g_stop
  /\ ~g_stop \/ pc = "pump" => Installed

\* When packets start to flow the link is up, the configured address is on it,
\* and every configured prefix has a route: an answer that talk() read for the
\* wrong request has never let main() get that far.
ConfiguredMeansInstalled ==
  pc = "pump" =>
    /\ kernel.link = "up" /\ cfg.tun_local \in kernel.addr
    /\ \A k \in 1..Len(cfg.routed_cidrs) : kernel.route[cfg.routed_cidrs[k]] # "none"
=============================================================================
