---------------------------- MODULE DhcpClient ----------------------------
(***************************************************************************)
(* The DHCP client of lwIP (src/lib/lwip/src/core/ipv4/dhcp.c) and the     *)
(* AutoIP client it starts when no server answers (autoip.c), as functions *)
(* on one record per interface:                                            *)
(*                                                                         *)
(*   state    dhcp->state; "none" while no struct dhcp is attached         *)
(*   tries    dhcp->tries                                                  *)
(*   lease    "none"; "finite": t0, t1 and t2 run; "infinite": t1 and t2   *)
(*   coop     dhcp->autoip_coop_state is ON                                *)
(*   autoip   autoip->state; "none" while no struct autoip is attached,    *)
(*            "bound" also stands for ANNOUNCING                           *)
(*   addr     what the interface's address is                              *)
(*   refused  history: the server's last word to this client was a NAK     *)
(*   failed   history: the last dhcp_start or autoip_start had no memory   *)
(*                                                                         *)
(* Of a message only its type is kept: replies to another transaction are  *)
(* dropped by the client, and a message that could not be allocated or     *)
(* sent is a try like any other.                                           *)
(***************************************************************************)
EXTENDS Integers

CONSTANTS
    COOP_TRIES,    \* LWIP_DHCP_AUTOIP_COOP_TRIES
    TRIES_LIMIT    \* where dhcp->tries stops (255 in the code)

ASSUME ClientAssumption == COOP_TRIES \in Nat /\ TRIES_LIMIT \in Nat

REQUEST_TRIES == 5
REBOOT_TRIES  == 2

Supplied == {"bound", "renewing", "rebinding"}
Off      == {"none", "off"}
States   == Supplied \cup Off \cup
            {"init", "selecting", "requesting", "checking", "backing off",
             "rebooting"}

Clients == [state : States, tries : Nat, lease : {"none", "finite", "infinite"},
            coop : BOOLEAN, autoip : {"none", "off", "probing", "bound"},
            addr : {"zero", "dhcp", "static", "link local"},
            refused : BOOLEAN, failed : BOOLEAN]

NoClient == [state |-> "none", tries |-> 0, lease |-> "none", coop |-> FALSE,
             autoip |-> "none", addr |-> "zero", refused |-> FALSE,
             failed |-> FALSE]

\* Which allocation of a step fails.
Memory == {"ok", "no client", "no pcb", "no autoip"}
-----------------------------------------------------------------------------
(* AutoIP.                                                                 *)

autoip_start(c, up, mem) ==
    IF ~up THEN c
    ELSE IF c.autoip = "none" /\ mem = "no autoip"
    THEN [c EXCEPT !.addr = "zero", !.failed = TRUE]
    ELSE [c EXCEPT !.addr = "zero", !.autoip = "probing"]

autoip_stop(c) ==
    IF c.autoip = "none" THEN c
    ELSE [c EXCEPT !.autoip = "off",
                   !.addr = IF @ = "link local" THEN "zero" ELSE @]

autoip_network_changed(c) ==
    IF c.autoip = "bound" THEN [c EXCEPT !.autoip = "probing"] ELSE c

autoip_bind(c) == [c EXCEPT !.autoip = "bound", !.addr = "link local"]

\* What every end of the cooperation does.
StopCoop(c) == IF c.coop THEN [autoip_stop(c) EXCEPT !.coop = FALSE] ELSE c
-----------------------------------------------------------------------------
(* DHCP.                                                                   *)

dhcp_set_state(c, s) ==
    IF s = c.state THEN c ELSE [c EXCEPT !.state = s, !.tries = 0]

Try(c, s) ==
    [dhcp_set_state(c, s) EXCEPT !.tries = IF @ < TRIES_LIMIT THEN @ + 1 ELSE @]

dhcp_discover_alone(c, up, mem) == Try(c, "selecting")

dhcp_discover(c, up, mem) ==
    LET d == Try(c, "selecting")
    IN  IF d.tries >= COOP_TRIES /\ ~d.coop
        THEN [autoip_start(d, up, mem) EXCEPT !.coop = TRUE]
        ELSE d

dhcp_select(c)  == Try(c, "requesting")
dhcp_check(c)   == Try(c, "checking")
dhcp_renew(c)   == Try(c, "renewing")
dhcp_rebind(c)  == Try(c, "rebinding")
dhcp_reboot(c)  == Try(c, "rebooting")
dhcp_decline(c) == Try(c, "backing off")

\* An infinite lease leaves the t0 timer as it was.
dhcp_bind(c, lease) ==
    [dhcp_set_state(StopCoop(c), "bound") EXCEPT
        !.addr = "dhcp", !.refused = FALSE,
        !.lease = IF @ = "finite" THEN @ ELSE lease]

dhcp_handle_nak(c, up, mem) ==
    dhcp_discover([dhcp_set_state(c, "backing off") EXCEPT
                      !.addr = "zero", !.refused = TRUE], up, mem)

dhcp_release_and_stop(c) ==
    IF c.state \in Off THEN c
    ELSE dhcp_set_state(StopCoop([c EXCEPT !.lease = "none", !.addr = "zero",
                                           !.refused = FALSE]), "off")

\* The structure is cleared whatever it held.
dhcp_start(c, up, link, mem) ==
    IF ~up THEN c
    ELSE IF c.state = "none" /\ mem = "no client" THEN [c EXCEPT !.failed = TRUE]
    ELSE LET d == [c EXCEPT !.state = "off", !.tries = 0, !.lease = "none",
                            !.coop = FALSE, !.refused = FALSE,
                            !.failed = (mem = "no pcb")]
         IN  IF d.failed THEN d
             ELSE IF ~link THEN dhcp_set_state(d, "init")
             ELSE dhcp_discover(d, up, mem)

Restart(c, up, link, mem) == dhcp_start(dhcp_release_and_stop(c), up, link, mem)

dhcp_network_changed(c, up, mem) ==
    CASE c.state \in Supplied \cup {"rebooting"} ->
             dhcp_reboot([c EXCEPT !.tries = 0])
      [] c.state \in Off -> c
      [] OTHER -> dhcp_discover([StopCoop(c) EXCEPT !.tries = 0], up, mem)

\* A request timeout runs in these states; that of RENEWING and REBINDING
\* does nothing when it ends.
Waiting == {"backing off", "selecting", "requesting", "checking", "rebooting"}

\* The client gives up a request that its server has not acknowledged.
RequestGivenUp(c) == c.state = "requesting" /\ c.tries > REQUEST_TRIES

dhcp_timeout(c, up, link, mem, lease) ==
    CASE c.state \in {"backing off", "selecting"} -> dhcp_discover(c, up, mem)
      [] RequestGivenUp(c) -> Restart(c, up, link, mem)
      [] c.state = "requesting" /\ ~RequestGivenUp(c) -> dhcp_select(c)
      [] c.state = "checking" ->
             IF c.tries <= 1 THEN dhcp_check(c) ELSE dhcp_bind(c, lease)
      [] c.state = "rebooting" ->
             IF c.tries < REBOOT_TRIES THEN dhcp_reboot(c)
             ELSE dhcp_discover(c, up, mem)

\* The states in which the renewal (t1) and the rebinding (t2) timer act.
Renewable == {"requesting", "bound", "renewing"}
Rebindable == Renewable \cup {"rebinding"}

\* dhcp_recv of an ACK; the lease of a request is checked by ARP first.
dhcp_recv_ack(c, lease) ==
    IF c.state = "requesting" THEN dhcp_check(c) ELSE dhcp_bind(c, lease)

Acknowledgeable == {"requesting", "rebooting", "rebinding", "renewing"}
=============================================================================
