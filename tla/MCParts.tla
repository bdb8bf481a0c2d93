------------------------------ MODULE MCParts ------------------------------
(***************************************************************************)
(* The parts of the two programs of which only safety is asked, side by    *)
(* side in one instance: the trie, the decoders, the message accessors,    *)
(* the registrations of a connection, what the clients hold of msquic, and *)
(* the start of cfd and cfd_probe.  part says which of them moves; the     *)
(* others stay where they start.                                           *)
(***************************************************************************)
EXTENDS LpmTrie, Codec, Registration, Transport, Startup, Probe

VARIABLE part

\* -1 is a server's clock gone wrong, 32 and 33 are on the two sides of the cap.
MCRetryAfters == {-1, 0, 1, 32, 33}

\* Characters: 'A', 'b', '/', '=', '!'.  One quartet over all, two over three.
Base64Texts ==
  UNION {[1..k -> {65, 98, 47, Pad, 33}] : k \in 0..4}
  \cup [1..8 -> {98, Pad, 33}]

\* Characters: '0', 'A', 'f', '-', 'G'.
UuidTexts == UNION {[1..k -> {48, 65, 102, Dash, 71}] : k \in UuidSize - 1..UuidSize}

\* Characters: '0', '1', '2', '9', '/'.
PrefixTexts == UNION {[1..k -> {48, 49, 50, 57, 47}] : k \in 0..4}

Wires == UNION {[1..k -> {0, 1, kFrameVersion, 255}] : k \in 0..5}

MCInputs ==
  [kind : {"base64"}, text : Base64Texts] \cup [kind : {"uuid"}, text : UuidTexts]
  \cup [kind : {"prefix"}, text : PrefixTexts] \cup [kind : {"frame"}, text : Wires]

MCArgv ==
  {<<>>, <<"--verbose">>, <<"--config">>, <<"--config", "">>, <<"f">>, <<"-h">>,
   <<"--config", "f">>, <<"--config", "f", "--help">>}

\* Options with and without a value, in every order of up to three words, and
\* the complete command lines of four.
MCProbeArgs ==
  UNION {[1..k -> {"--host", "--config", "--port", "--register", "--help", "x", ""}] :
           k \in 0..3}
  \cup {<<"--host", "x", "--config", "f", "--register">>,
        <<"--insecure", "--register", "--config", "f">>}

-----------------------------------------------------------------------------
\* A part that does not move has one initial state.
MCInit ==
  /\ part \in {"trie", "codec", "accessors", "registration", "transport", "cfd",
               "cfd_probe"}
  /\ Init /\ CodecInit /\ RegInit
  /\ RpcInit /\ (part # "accessors" => msg.layout = TunnelAuth)
  /\ TransportInit
  /\ part # "transport" => /\ \A k \in Ctxs : ctx[k].client = 0
                           /\ \A s \in Streams : stream[s].client = 0
  /\ StartupInit /\ (part # "cfd" => argv = <<>> /\ kernel.route[AnyCidr] = "none")
  /\ ProbeInit /\ (part # "cfd_probe" => args = <<>>)

valueVars == <<vars, input, rpcVars, regVars>>
programVars == <<startupVars, probeVars>>

MCNext ==
  \/ /\ part = "trie" /\ Next
     /\ UNCHANGED <<input, rpcVars, regVars, transportVars, programVars, part>>
  \/ /\ part = "codec" /\ Decode
     /\ UNCHANGED <<vars, rpcVars, regVars, transportVars, programVars, part>>
  \/ /\ part = "accessors" /\ RpcNext
     /\ UNCHANGED <<vars, input, regVars, transportVars, programVars, part>>
  \/ /\ part = "registration" /\ RegNext
     /\ UNCHANGED <<vars, input, rpcVars, transportVars, programVars, part>>
  \/ /\ part = "transport" /\ TransportNext
     /\ UNCHANGED <<valueVars, programVars, part>>
  \/ /\ part = "cfd" /\ StartupNext
     /\ UNCHANGED <<valueVars, transportVars, probeVars, part>>
  \/ /\ part = "cfd_probe" /\ ProbeNext
     /\ UNCHANGED <<valueVars, transportVars, startupVars, part>>

MCSpec == MCInit /\ [][MCNext]_<<valueVars, transportVars, programVars, part>>
=============================================================================
