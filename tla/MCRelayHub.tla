----------------------------- MODULE MCRelayHub -----------------------------
(* Instances of RelayHub for TLC.  Each run lets the peers send some of the
   frames, so that the interleavings of those are explored in full. *)
EXTENDS RelayHubContract, TLC

(* Connections of a kind are interchangeable: nothing compares them. *)
ConnSymmetry == Permutations(DeviceConn) \cup Permutations(ClientConn)

RoutingFrames == {"settings", "exec", "error"}
RoutingSettings == {<<"new", TRUE>>}

AuthorityFrames ==
  {"settings", "revoke", "owner", "access", "status", "renew", "exec", "other", "cancel"}
AuthoritySettings == {<<"new", TRUE>>, <<"same", TRUE>>, <<"same", FALSE>>, <<"none", TRUE>>}

TerminalFrames == {"settings", "owner", "exec", "cancel", "output", "exit", "error"}
TerminalSettings == {<<"new", TRUE>>, <<"same", TRUE>>}

=============================================================================
