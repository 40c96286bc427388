------------------------------- MODULE Tunnel -------------------------------
(***************************************************************************)
(* The tunnel that select_tunnel_provider() of tunnel/dispatch.py chooses, *)
(* by the TunnelProvider protocol (tunnel/backend.py): start() and stop(). *)
(***************************************************************************)
EXTENDS Naturals

CONSTANTS MaxAttempts, MaxStarts

VARIABLES provider, start, stop, outcome, starts, inTurn,
          attempt, own, tracked, running, made, dropped,  \* of CloudflareTunnel only
          started, command, funnel, botched      \* of TailscaleTunnel only

cloudflareOnly == <<attempt, own, tracked, running, made, dropped>>
tailscaleOnly  == <<started, command, funnel, botched>>
tunnelVars == <<provider, start, stop, outcome, starts, inTurn, cloudflareOnly, tailscaleOnly>>

Cloudflare == INSTANCE CloudflareTunnel
Tailscale  == INSTANCE TailscaleTunnel

\* The first in the order of preference of those that are available
Selected(available) ==
    CASE "tailscale" \in available -> "tailscale"
      [] "cloudflare" \in available /\ "tailscale" \notin available -> "cloudflare"

TunnelInit ==
    /\ \E available \in (SUBSET {"tailscale", "cloudflare"}) \ {{}} :
        provider = Selected(available)
    /\ Cloudflare!Init /\ Tailscale!Init

CloudflareNext ==
    provider = "cloudflare" /\ Cloudflare!Next /\ UNCHANGED <<provider, tailscaleOnly>>

TailscaleNext ==
    provider = "tailscale" /\ Tailscale!Next /\ UNCHANGED <<provider, cloudflareOnly>>

TunnelNext == CloudflareNext \/ TailscaleNext

\* The timers of start(), and the end of a process that was killed or that runs
\* the reset.
Progress ==
    \/ provider = "cloudflare" /\ Cloudflare!Progress /\ UNCHANGED <<provider, tailscaleOnly>>
    \/ provider = "tailscale" /\ Tailscale!Progress /\ UNCHANGED <<provider, cloudflareOnly>>

TunnelSpec == TunnelInit /\ [][TunnelNext]_tunnelVars /\ WF_tunnelVars(Progress)

-----------------------------------------------------------------------------
(* Properties *)

\* stop() takes down all there is: no tunnel is up that the provider does not know
\* of, none is left by an attempt that another one follows, or by the last one.
\* Left out: start() and stop() that overlap; a cloudflared that closes its output
\* and runs on, which start() does not kill; one that runs when start() is called
\* again, after another start() that returned its URL, raised or was cancelled; and
\* a Funnel once a start() has not returned its URL or a reset has failed.
NoStray == inTurn => IF provider = "cloudflare" THEN ~Cloudflare!Stray ELSE ~Tailscale!Stray

\* start() ends, whatever cloudflared, its edge and tailscale do, after as many
\* attempts as it has, and so does stop().
CallsEnd == (start # "idle" ~> start = "idle") /\ (stop # "idle" ~> stop = "idle")

=============================================================================
