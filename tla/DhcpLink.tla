----------------------------- MODULE DhcpLink -----------------------------
(***************************************************************************)
(* DHCP_Thread and the link callback of CM7/core/src/app_ethernet.c, with  *)
(* the part of the link thread that calls it and the DHCP client of lwIP   *)
(* (module DhcpClient) it drives.                                          *)
(*                                                                         *)
(* DHCP_state is written by the link thread (through the callback) and by  *)
(* DHCP_Thread, which has read it some instructions earlier; both threads  *)
(* have osPriorityNormal and share the processor.  The client runs in the  *)
(* tcpip thread; DHCP_Thread calls it too, and each call is one step here. *)
(***************************************************************************)
EXTENDS DhcpClient

CONSTANT MAX_DHCP_TRIES

ASSUME DhcpAssumption == MAX_DHCP_TRIES \in Nat

VARIABLES
    cable,       \* the PHY has a link
    netifUp, linkUp, \* flags of the netif
    lpc,         \* where the link thread is
    DHCP_state,
    dpc,         \* where DHCP_Thread is
    client,      \* the netif's DHCP and AutoIP data and its address
    polled,      \* DHCP_Thread has ended a pass since the client's last timer
    lost         \* history: DHCP_Thread has overwritten a link update

netif == <<netifUp, linkUp>>
link  == <<cable, netif, lpc>>
vars  == <<link, DHCP_state, dpc, client, polled, lost>>
-----------------------------------------------------------------------------
\* carbon_lwip_init and ethernet_link_status_updated, called by netif_config.
Init ==
    /\ cable \in BOOLEAN
    /\ netifUp = cable
    /\ linkUp = cable
    /\ lpc = "poll"
    /\ DHCP_state = IF netifUp THEN "START" ELSE "LINK_DOWN"
    /\ dpc = "switch"
    /\ client = NoClient
    /\ polled = FALSE
    /\ lost = FALSE

CableChange ==
    /\ cable' = ~cable
    /\ UNCHANGED <<netif, lpc, DHCP_state, dpc, client, polled, lost>>

(* The link thread; ethernet_link_status_updated is the link callback.     *)
ethernet_link_status_updated ==
    DHCP_state' = IF netifUp THEN "START" ELSE "LINK_DOWN"

\* netif_set_up or netif_set_down
LinkFlag ==
    /\ lpc = "poll"
    /\ linkUp # cable
    /\ netifUp' = cable
    /\ lpc' = "callback"
    /\ UNCHANGED <<cable, linkUp, DHCP_state, dpc, client, polled, lost>>

\* netif_set_link_up or netif_set_link_down; the former tells the clients.
LinkCallback ==
    /\ lpc = "callback"
    /\ linkUp' = netifUp
    /\ \/ /\ netifUp
          /\ \E mem \in Memory :
                client' = autoip_network_changed(
                              dhcp_network_changed(client, netifUp, mem))
       \/ ~netifUp /\ UNCHANGED client
    /\ ethernet_link_status_updated
    /\ lpc' = "poll"
    /\ UNCHANGED <<cable, netifUp, dpc, polled, lost>>
-----------------------------------------------------------------------------
(* The clients in the tcpip thread.  A timer of theirs runs for half a     *)
(* second at least, a pass of DHCP_Thread takes a tenth.                   *)

ClientStep(new) ==
    /\ client' = new
    /\ UNCHANGED <<link, DHCP_state, dpc, lost>>

ClientTimer(new) == polled /\ polled' = FALSE /\ ClientStep(new)

Receive(new) == linkUp /\ ClientStep(new) /\ UNCHANGED polled

RequestTimeout ==
    /\ client.state \in Waiting
    /\ \E mem \in Memory, lease \in {"finite", "infinite"} :
          ClientTimer(dhcp_timeout(client, netifUp, linkUp, mem, lease))

LeaseExpires ==
    /\ client.state \notin Off /\ client.lease = "finite"
    /\ \E mem \in Memory : ClientTimer(Restart(client, netifUp, linkUp, mem))

RenewTimeout ==
    /\ client.state \in Renewable /\ client.lease # "none"
    /\ ClientTimer(dhcp_renew(client))

RebindTimeout ==
    /\ client.state \in Rebindable /\ client.lease # "none"
    /\ ClientTimer(dhcp_rebind(client))

ReceiveOffer ==
    /\ client.state = "selecting"
    /\ Receive(dhcp_select(client))

ReceiveAck ==
    /\ client.state \in Acknowledgeable
    /\ \E lease \in {"finite", "infinite"} : Receive(dhcp_recv_ack(client, lease))

ReceiveNak ==
    /\ client.state \in Acknowledgeable
    /\ \E mem \in Memory : Receive(dhcp_handle_nak(client, netifUp, mem))

\* Another host answers the ARP request for the offered address ...
ArpConflict ==
    /\ client.state = "checking"
    /\ Receive(dhcp_decline(client))

\* ... or uses the link-local one.
AutoipConflict ==
    /\ client.autoip \in {"probing", "bound"}
    /\ \E mem \in Memory : Receive(autoip_start(client, netifUp, mem))

AutoipTimer ==
    /\ client.autoip = "probing"
    /\ ClientStep(autoip_bind(client))
    /\ UNCHANGED polled
-----------------------------------------------------------------------------
(* DHCP_Thread.                                                            *)

\* An assignment to DHCP_state in the case of the switch entered with "old".
SetState(old, new) ==
    /\ DHCP_state' = new
    /\ lost' = (lost \/ DHCP_state # old)

\* The program counter; a pass ends with the delay before the next switch.
GoTo(from, to) ==
    /\ dpc = from
    /\ dpc' = to
    /\ polled' = (polled \/ to = "switch")
    /\ UNCHANGED link

Switch ==
    /\ GoTo("switch", IF DHCP_state \in {"START", "WAIT_ADDRESS", "LINK_DOWN"}
                      THEN DHCP_state ELSE "switch")
    /\ UNCHANGED <<DHCP_state, client, lost>>

\* case DHCP_START: the address is cleared, then the state is set ...
StartClear ==
    /\ GoTo("START", "start state")
    /\ client' = [client EXCEPT !.addr = "zero"]
    /\ UNCHANGED <<DHCP_state, lost>>

StartState ==
    /\ GoTo("start state", "dhcp_start")
    /\ SetState("START", "WAIT_ADDRESS")
    /\ UNCHANGED client

\* ... and dhcp_start called; what it returns is not looked at.
StartClient ==
    /\ GoTo("dhcp_start", "switch")
    /\ \E mem \in Memory : client' = dhcp_start(client, netifUp, linkUp, mem)
    /\ UNCHANGED <<DHCP_state, lost>>

\* case DHCP_WAIT_ADDRESS: dhcp_supplied_address, then dhcp->tries.  Without
\* a client the pointer is null and any number may be read.
WaitBound ==
    /\ GoTo("WAIT_ADDRESS", "assigned")
    /\ client.state \in Supplied
    /\ UNCHANGED <<DHCP_state, client, lost>>

WaitMore ==
    /\ GoTo("WAIT_ADDRESS", "switch")
    /\ client.state \notin Supplied
    /\ client.state = "none" \/ client.tries <= MAX_DHCP_TRIES
    /\ UNCHANGED <<DHCP_state, client, lost>>

WaitTimeout ==
    /\ GoTo("WAIT_ADDRESS", "timeout state")
    /\ client.state \notin Supplied
    /\ client.state = "none" \/ client.tries > MAX_DHCP_TRIES
    /\ UNCHANGED <<DHCP_state, client, lost>>

Assigned ==
    /\ GoTo("assigned", "switch")
    /\ SetState("WAIT_ADDRESS", "ADDRESS_ASSIGNED")
    /\ UNCHANGED client

TimeoutState ==
    /\ GoTo("timeout state", "timeout stop")
    /\ SetState("WAIT_ADDRESS", "TIMEOUT")
    /\ UNCHANGED client

TimeoutStop_forgotten ==
    /\ GoTo("timeout stop", "timeout address")
    /\ UNCHANGED <<DHCP_state, client, lost>>

TimeoutStop ==
    /\ GoTo("timeout stop", "timeout address")
    /\ client' = dhcp_release_and_stop(client)
    /\ UNCHANGED <<DHCP_state, lost>>

\* netif_set_addr with the static address
TimeoutAddress ==
    /\ GoTo("timeout address", "switch")
    /\ client' = [client EXCEPT !.addr = "static"]
    /\ UNCHANGED <<DHCP_state, lost>>

\* case DHCP_LINK_DOWN
DownState ==
    /\ GoTo("LINK_DOWN", "down stop")
    /\ SetState("LINK_DOWN", "OFF")
    /\ UNCHANGED client

DownStop ==
    /\ GoTo("down stop", "switch")
    /\ client' = dhcp_release_and_stop(client)
    /\ UNCHANGED <<DHCP_state, lost>>

Link == LinkFlag \/ LinkCallback

\* The network takes back what it gave or offered.
Refusal ==
    \/ ReceiveNak
    \/ ArpConflict
    \/ AutoipConflict
    \/ RequestTimeout /\ RequestGivenUp(client) /\ DHCP_state # "WAIT_ADDRESS"

Client ==
    \/ RequestTimeout \/ LeaseExpires \/ RenewTimeout \/ RebindTimeout
    \/ ReceiveOffer \/ ReceiveAck \/ ReceiveNak
    \/ ArpConflict \/ AutoipConflict \/ AutoipTimer

DhcpThread ==
    \/ Switch \/ StartClear \/ StartState \/ StartClient
    \/ WaitBound \/ WaitMore \/ WaitTimeout \/ Assigned
    \/ TimeoutState \/ TimeoutStop \/ TimeoutAddress
    \/ DownState \/ DownStop

Next == CableChange \/ Link \/ Client \/ DhcpThread

Spec == Init /\ [][Next]_vars

\* Both threads poll for ever, and lwIP's timers run.  Of the server nothing
\* is assumed: it may never answer.
FairSpec ==
    /\ Spec
    /\ WF_vars(Link)
    /\ WF_vars(DhcpThread)
    /\ WF_vars(RequestTimeout)
    /\ WF_vars(AutoipTimer)
-----------------------------------------------------------------------------
(* Properties.                                                             *)

\* The static address is used only while the client is stopped: an answer
\* that comes late never replaces it, races of the two threads included.
StaticMeansClientStopped ==
    client.addr = "static" => client.state \in Off

\* Two ways in which the code gives an interface up: dhcp_start or
\* autoip_start had no memory and the caller did not look, and a NAK that
\* comes when DHCP_Thread has long gone to ADDRESS_ASSIGNED.
GivenUp ==
    \/ client.failed
    \/ client.refused /\ DHCP_state = "ADDRESS_ASSIGNED"

HasAddressAgain == []<>(client.addr # "zero" \/ GivenUp)

\* A cable that stays plugged in gives the interface an address again and
\* again (DHCP, link-local or static; leases that expire and are not renewed,
\* servers that fall silent, at whatever moment), as long as no link update
\* was overwritten and the network does not refuse for ever.
AddressUnlessLost ==
    <>[]cable /\ []~lost /\ <>[][~Refusal]_vars => HasAddressAgain

\* "Update DHCP state machine": a link that comes up and stays up starts
\* DHCP, so that the interface gets an address.
LinkUpdateTakesEffect ==
    <>[]cable /\ <>[][~Refusal]_vars => HasAddressAgain
=============================================================================
