------------------------ MODULE MCFirecrackerSandbox ------------------------
(* FirecrackerSandbox for TLC. *)
EXTENDS FirecrackerSandbox

=============================================================================
