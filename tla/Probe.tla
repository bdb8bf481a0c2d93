------------------------------- MODULE Probe -------------------------------
(***************************************************************************)
(* cfd_probe (tools/probe_handshake.cpp): one connection, optionally one   *)
(* registration, and an exit code.  The options whose value only goes into *)
(* QuicConfig (--port, --alpn, --server-name, --ca-bundle, --cert, --key,  *)
(* --timeout-ms) are one option here, and --insecure is a flag of no       *)
(* consequence for the control.                                            *)
(***************************************************************************)
EXTENDS Config

CONSTANTS ProbeArgs     \* the command lines explored

VARIABLES
  at,                   \* the phase of main()
  args, n,              \* arguments, and the index of the next one
  host, config_path, do_register,
  ini_cfg, ini_line,
  client,               \* "none", "open" from its constructor, "closed"
  handshake, registered,
  code                  \* what main() returns, -1 before

optionVars == <<host, config_path, do_register>>
clientVars == <<client, handshake, registered>>
probeVars == <<at, args, n, optionVars, ini_cfg, ini_line, clientVars, code>>

WithValue == {"--host", "--config", "--port"}

NonEmpty(text) == text # ""

ProbeInit ==
  /\ at = "args" /\ args \in ProbeArgs /\ n = 1
  /\ host = "" /\ config_path = "" /\ do_register = FALSE
  /\ ini_cfg = DefaultConfig /\ ini_line = 0
  /\ client = "none" /\ handshake = FALSE /\ registered = FALSE
  /\ code = -1

To(label) == at' = label /\ UNCHANGED code
Exit(c) == at' = "exit" /\ code' = c

ParseOption ==
  /\ at = "args" /\ n <= Len(args)
  /\ IF args[n] \in WithValue
     THEN IF n = Len(args)
          THEN Exit(2) /\ UNCHANGED <<n, optionVars>>
          ELSE /\ host' = IF args[n] = "--host" THEN args[n + 1] ELSE host
               /\ config_path' = IF args[n] = "--config" THEN args[n + 1] ELSE config_path
               /\ n' = n + 2 /\ To("args") /\ UNCHANGED do_register
     ELSE IF args[n] \in {"--insecure", "--register"}
     THEN /\ do_register' = (do_register \/ args[n] = "--register")
          /\ n' = n + 1 /\ To("args") /\ UNCHANGED <<host, config_path>>
     ELSE /\ Exit(IF args[n] \in {"-h", "--help"} THEN 0 ELSE 2)
          /\ UNCHANGED <<n, optionVars>>
  /\ UNCHANGED <<args, ini_cfg, ini_line, clientVars>>

OptionsRead ==
  /\ at = "args" /\ n > Len(args)
  /\ IF ~NonEmpty(host) /\ ~NonEmpty(config_path) THEN Exit(2)
     ELSE IF ~NonEmpty(config_path) THEN To("connect")
     ELSE To("config") \/ Exit(2)          \* the file opens, or does not
  /\ UNCHANGED <<args, n, optionVars, ini_cfg, ini_line, clientVars>>

ReadIniLine == \E line \in Lines :
  /\ at = "config" /\ ini_line < MaxLines
  /\ ini_line' = ini_line + 1
  /\ IF Refused(line) THEN Exit(2) /\ UNCHANGED ini_cfg
                      ELSE To("config") /\ ini_cfg' = Applied(ini_cfg, line)
  /\ UNCHANGED <<args, n, optionVars, clientVars>>

\* The end of the file: its edge_host is the default of --host.
IniRead ==
  /\ at = "config"
  /\ host' = IF NonEmpty(host) THEN host ELSE ini_cfg.edge_host
  /\ IF NonEmpty(host') THEN To("connect") ELSE Exit(2)
  /\ UNCHANGED <<args, n, config_path, do_register, ini_cfg, ini_line, clientVars>>

\* The client is made and dials; after a failure it is closed.
Connect ==
  /\ at = "connect"
  /\ \/ client' = "closed" /\ Exit(1) /\ UNCHANGED handshake
     \/ /\ client' = "open" /\ handshake' = TRUE
        /\ To(IF do_register /\ NonEmpty(config_path) THEN "register" ELSE "done")
  /\ UNCHANGED <<args, n, optionVars, ini_cfg, ini_line, registered>>

\* A bad identifier or secret, a failed registration, or a registration.
Register_KeepsGoing ==
  /\ at = "register"
  /\ To("done")
  /\ registered' = (ini_cfg.tunnel_id = "good" /\ ini_cfg.tunnel_secret_b64 # "bad")
  /\ UNCHANGED <<client, args, n, optionVars, ini_cfg, ini_line, handshake>>
Register ==
  /\ at = "register"
  /\ \/ client' = "closed" /\ Exit(1) /\ UNCHANGED registered
     \/ /\ ini_cfg.tunnel_id = "good" /\ ini_cfg.tunnel_secret_b64 # "bad"
        /\ registered' = TRUE /\ To("done") /\ UNCHANGED client
  /\ UNCHANGED <<args, n, optionVars, ini_cfg, ini_line, handshake>>

Finish ==
  /\ at = "done"
  /\ client' = "closed" /\ Exit(0)
  /\ UNCHANGED <<args, n, optionVars, ini_cfg, ini_line, handshake, registered>>

ProbeNext ==
  \/ ParseOption \/ OptionsRead \/ ReadIniLine \/ IniRead
  \/ Connect \/ Register \/ Finish

ProbeSpec == ProbeInit /\ [][ProbeNext]_probeVars

\* Exit code 0 of the probe is a promise: on every path to it the handshake
\* succeeded and, when a registration was asked for with a configuration file,
\* so did the registration (or the usage text was asked for and nothing was
\* dialled); and no path to an exit, the early returns included, leaves the
\* client open.
ZeroMeansDone ==
  /\ code = 0 => \/ n <= Len(args) /\ args[n] \in {"-h", "--help"} /\ client = "none"
                 \/ handshake /\ (do_register /\ NonEmpty(config_path) => registered)
  /\ at = "exit" => client # "open"

\* The exit codes the probe documents, twice: "1 -- handshake failed (transport
\* error, ALPN mismatch, etc.)" and "2 -- usage / configuration error".  The
\* code returns 1 as well after a handshake that succeeded, for a bad tunnel_id
\* or secret of the configuration file and for a refused registration.
OneMeansHandshakeFailed == code = 1 => ~handshake
=============================================================================
