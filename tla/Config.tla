------------------------------- MODULE Config -------------------------------
(***************************************************************************)
(* Config::load_from_file() (config.cpp): what one line of the file does.  *)
(* A line is its key and its value after trim(); a value is what its       *)
(* parser makes of it (Codec and LpmTrie have the parsers themselves).     *)
(***************************************************************************)
EXTENDS Integers, Sequences

CONSTANTS
  Cidrs,         \* the prefixes that configurations name
  AnyCidr,       \* the default of tun_local: 0.0.0.0/0
  MaxLines       \* bound: lines of a file

ASSUME ConfigAssumption == AnyCidr \in Cidrs /\ MaxLines \in Nat

BadCidr == "no prefix"

\* The values of the text keys: one its reader accepts, one it does not, none.
Texts == {"good", "bad", ""}
TextKeys == {"tunnel_id", "tunnel_secret_b64", "edge_host", "tun_name"}

\* The keys whose value is stored and never looked at again here: account_tag,
\* ca_bundle_path, client_cert_path, client_key_path.
OtherKeys == "stored"

\* from_chars() of a port: the number, or -1 when it did not take the whole
\* value.
Ports == {-1, 0, 1, 65535, 65536}

Lines ==
  [k : {"blank or comment", "no equals sign", "unknown", OtherKeys}]
  \cup [k : TextKeys, v : Texts]
  \cup [k : {"edge_port"}, v : Ports]
  \cup [k : {"tun_local", "route"}, v : Cidrs \cup {BadCidr}]

\* edge_port is a uint16_t, and never 0.
MaxPort == 65535
EdgePort == 1..MaxPort

Configs ==
  [tunnel_id : Texts, tunnel_secret_b64 : Texts, edge_host : Texts,
   tun_name : Texts, edge_port : EdgePort, tun_local : Cidrs,
   routed_cidrs : Seq(Cidrs)]

DefaultConfig ==
  [tunnel_id |-> "", tunnel_secret_b64 |-> "", edge_host |-> "good",
   tun_name |-> "good", edge_port |-> 7844, tun_local |-> AnyCidr,
   routed_cidrs |-> <<>>]

\* The lines on which load_from_file() returns false.
Refused(line) ==
  \/ line.k \in {"no equals sign", "unknown"}
  \/ line.k = "edge_port" /\ (line.v \in {-1, 0} \/ line.v > MaxPort)
  \/ line.k \in {"tun_local", "route"} /\ line.v = BadCidr

\* The configuration after a line that is not refused; the last one wins, and
\* routes add up.
Applied(cfg, line) ==
  IF line.k \in TextKeys THEN [cfg EXCEPT ![line.k] = line.v]
  ELSE IF line.k = "edge_port" THEN [cfg EXCEPT !.edge_port = line.v]
  ELSE IF line.k = "tun_local" THEN [cfg EXCEPT !.tun_local = line.v]
  ELSE IF line.k = "route"
       THEN [cfg EXCEPT !.routed_cidrs = Append(@, line.v)]
  ELSE cfg
=============================================================================
