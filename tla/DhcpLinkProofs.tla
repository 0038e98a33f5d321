--------------------------- MODULE DhcpLinkProofs ---------------------------
(***************************************************************************)
(* Proofs about DHCP_Thread, the link callback and the clients of lwIP,    *)
(* for every MAX_DHCP_TRIES, COOP_TRIES and TRIES_LIMIT.                   *)
(***************************************************************************)
EXTENDS DhcpLink, TLAPS

(* What every function of the clients does to the record: it stays one,    *)
(* and none of them brings the static address.                             *)
Keeps(c, d) == d \in Clients /\ (d.addr = "static" => c.addr = "static")

\* A field the invariant does not look at may be set to anything.
LEMMA SetStateKeeps ==
  ASSUME NEW c \in Clients, NEW s \in States
  PROVE  Keeps(c, dhcp_set_state(c, s))
BY DEF Keeps, dhcp_set_state, Clients

\* One more try in a state.
LEMMA TryKeeps ==
  ASSUME NEW c \in Clients, NEW s \in States
  PROVE  Keeps(c, Try(c, s))
<1> DEFINE d == dhcp_set_state(c, s)
           n == IF d.tries < TRIES_LIMIT THEN d.tries + 1 ELSE d.tries
<1>1. d \in Clients /\ Keeps(c, d)
  BY SetStateKeeps DEF Keeps
<1>2. Try(c, s) = [d EXCEPT !.tries = n]
  BY DEF Try
<1> HIDE DEF d
<1>3. d.tries \in Nat
  BY <1>1 DEF Clients
<1>4. n \in Nat
  BY <1>3, ClientAssumption
<1> HIDE DEF n
<1> QED
  BY <1>1, <1>2, <1>4 DEF Keeps, Clients

\* autoip_start clears the address or does nothing.
LEMMA AutoipStartKeeps ==
  ASSUME NEW c \in Clients, NEW up, NEW mem
  PROVE  Keeps(c, autoip_start(c, up, mem))
BY DEF Keeps, autoip_start, Clients

\* autoip_stop clears a link-local address or leaves the address alone.
LEMMA AutoipStopKeeps ==
  ASSUME NEW c \in Clients
  PROVE  Keeps(c, autoip_stop(c))
BY DEF Keeps, autoip_stop, Clients

\* So does the end of the cooperation.
LEMMA StopCoopKeeps ==
  ASSUME NEW c \in Clients
  PROVE  Keeps(c, StopCoop(c)) /\ StopCoop(c).state = c.state
<1>1. autoip_stop(c) \in Clients /\ Keeps(c, autoip_stop(c))
  BY AutoipStopKeeps DEF Keeps
<1>2. autoip_stop(c).state = c.state
  BY DEF autoip_stop, Clients
<1> QED
  BY <1>1, <1>2 DEF Keeps, StopCoop, Clients

\* dhcp_discover, with or without the start of AutoIP.
LEMMA DiscoverKeeps ==
  ASSUME NEW c \in Clients, NEW up, NEW mem
  PROVE  Keeps(c, dhcp_discover(c, up, mem))
<1> DEFINE d == Try(c, "selecting")
<1>1. d \in Clients /\ Keeps(c, d)
  BY TryKeeps DEF Keeps, States
<1>2. autoip_start(d, up, mem) \in Clients /\ Keeps(d, autoip_start(d, up, mem))
  BY <1>1, AutoipStartKeeps DEF Keeps
<1> HIDE DEF d
<1>3. Keeps(c, [autoip_start(d, up, mem) EXCEPT !.coop = TRUE])
  BY <1>1, <1>2 DEF Keeps, Clients
<1> QED
  BY <1>1, <1>3 DEF dhcp_discover, d

\* dhcp_bind sets the address of the lease.
LEMMA BindKeeps ==
  ASSUME NEW c \in Clients, NEW lease \in {"finite", "infinite"}
  PROVE  Keeps(c, dhcp_bind(c, lease))
<1>1. StopCoop(c) \in Clients
  BY StopCoopKeeps DEF Keeps
<1>2. dhcp_set_state(StopCoop(c), "bound") \in Clients
  BY <1>1, SetStateKeeps DEF Keeps, States, Supplied
<1> QED
  BY <1>2 DEF Keeps, dhcp_bind, Clients

\* dhcp_handle_nak removes the address and discovers.
LEMMA NakKeeps ==
  ASSUME NEW c \in Clients, NEW up, NEW mem
  PROVE  Keeps(c, dhcp_handle_nak(c, up, mem))
<1> DEFINE d == [dhcp_set_state(c, "backing off") EXCEPT
                    !.addr = "zero", !.refused = TRUE]
<1>1. dhcp_set_state(c, "backing off") \in Clients
  BY SetStateKeeps DEF Keeps, States
<1>2. d \in Clients /\ Keeps(c, d)
  BY <1>1 DEF Keeps, Clients
<1> HIDE DEF d
<1>3. Keeps(d, dhcp_discover(d, up, mem))
  BY <1>2, DiscoverKeeps
<1> QED
  BY <1>2, <1>3 DEF Keeps, dhcp_handle_nak, d

\* dhcp_release_and_stop leaves the client stopped.
LEMMA ReleaseKeeps ==
  ASSUME NEW c \in Clients
  PROVE  /\ Keeps(c, dhcp_release_and_stop(c))
         /\ dhcp_release_and_stop(c).state \in Off
<1> DEFINE d == [c EXCEPT !.lease = "none", !.addr = "zero", !.refused = FALSE]
<1>1. d \in Clients /\ Keeps(c, d)
  BY DEF Keeps, Clients
<1> HIDE DEF d
<1>2. StopCoop(d) \in Clients /\ Keeps(d, StopCoop(d))
  BY <1>1, StopCoopKeeps DEF Keeps
<1>3. Keeps(StopCoop(d), dhcp_set_state(StopCoop(d), "off"))
  BY <1>2, SetStateKeeps DEF States, Off
<1>4. dhcp_set_state(StopCoop(d), "off").state = "off"
  BY <1>2 DEF dhcp_set_state, Clients
<1>5. CASE c.state \in Off
  BY <1>5 DEF Keeps, dhcp_release_and_stop
<1>6. CASE c.state \notin Off
  BY <1>1, <1>2, <1>3, <1>4, <1>6 DEF Keeps, dhcp_release_and_stop, d, Off
<1> QED
  BY <1>5, <1>6

\* dhcp_start does not touch the address, except through AutoIP.
LEMMA StartKeeps ==
  ASSUME NEW c \in Clients, NEW up, NEW lnk, NEW mem
  PROVE  Keeps(c, dhcp_start(c, up, lnk, mem))
<1> DEFINE d == [c EXCEPT !.state = "off", !.tries = 0, !.lease = "none",
                          !.coop = FALSE, !.refused = FALSE,
                          !.failed = (mem = "no pcb")]
<1>1. d \in Clients /\ Keeps(c, d)
  BY DEF Keeps, Clients, States, Off
<1> HIDE DEF d
<1>2. Keeps(d, dhcp_set_state(d, "init"))
  BY <1>1, SetStateKeeps DEF States
<1>3. Keeps(d, dhcp_discover(d, up, mem))
  BY <1>1, DiscoverKeeps
<1>4. Keeps(c, c) /\ Keeps(c, [c EXCEPT !.failed = TRUE])
  BY DEF Keeps, Clients
<1> QED
  BY <1>1, <1>2, <1>3, <1>4 DEF Keeps, dhcp_start, d

\* The restart of a lease that has run out and of a request given up.
LEMMA RestartKeeps ==
  ASSUME NEW c \in Clients, NEW up, NEW lnk, NEW mem
  PROVE  Keeps(c, Restart(c, up, lnk, mem))
BY ReleaseKeeps, StartKeeps DEF Keeps, Restart

\* The request timeout, in each of the states where it runs.
LEMMA TimeoutKeeps ==
  ASSUME NEW c \in Clients, c.state \in Waiting, NEW up, NEW lnk, NEW mem,
         NEW lease \in {"finite", "infinite"}
  PROVE  Keeps(c, dhcp_timeout(c, up, lnk, mem, lease))
<1>1. CASE c.state \in {"backing off", "selecting"}
  BY <1>1, DiscoverKeeps DEF dhcp_timeout, RequestGivenUp
<1>2. CASE RequestGivenUp(c)
  BY <1>2, RestartKeeps DEF dhcp_timeout, RequestGivenUp
<1>3. CASE c.state = "requesting" /\ ~RequestGivenUp(c)
  BY <1>3, TryKeeps DEF dhcp_timeout, dhcp_select, States
<1>4. CASE c.state = "checking"
  BY <1>4, TryKeeps, BindKeeps DEF dhcp_timeout, RequestGivenUp, dhcp_check, States
<1>5. CASE c.state = "rebooting"
  BY <1>5, TryKeeps, DiscoverKeeps
  DEF dhcp_timeout, RequestGivenUp, dhcp_reboot, States
<1> QED
  BY <1>1, <1>2, <1>3, <1>4, <1>5 DEF Waiting

\* A link that comes up leaves a stopped client stopped.
LEMMA NetworkChangedKeeps ==
  ASSUME NEW c \in Clients, NEW up, NEW mem
  PROVE  LET d == autoip_network_changed(dhcp_network_changed(c, up, mem))
         IN  Keeps(c, d) /\ (c.state \in Off => d.state = c.state)
<1> DEFINE d == dhcp_network_changed(c, up, mem)
<1>1. d \in Clients /\ Keeps(c, d) /\ (c.state \in Off => d.state = c.state)
  <2>1. CASE c.state \in Off
    BY <2>1 DEF dhcp_network_changed, Keeps, Off, Supplied
  <2>2. CASE c.state \in Supplied \cup {"rebooting"}
    <3>1. [c EXCEPT !.tries = 0] \in Clients /\ Keeps(c, [c EXCEPT !.tries = 0])
      BY DEF Keeps, Clients
    <3>2. Keeps([c EXCEPT !.tries = 0], dhcp_reboot([c EXCEPT !.tries = 0]))
      BY <3>1, TryKeeps DEF dhcp_reboot, States
    <3> QED
      BY <2>2, <3>1, <3>2 DEF dhcp_network_changed, Keeps, Off, Supplied
  <2>3. CASE c.state \notin Off \cup Supplied \cup {"rebooting"}
    <3> DEFINE e == [StopCoop(c) EXCEPT !.tries = 0]
    <3>1. StopCoop(c) \in Clients /\ Keeps(c, StopCoop(c))
      BY StopCoopKeeps DEF Keeps
    <3>2. e \in Clients /\ Keeps(c, e)
      BY <3>1 DEF Keeps, Clients
    <3> HIDE DEF e
    <3>3. Keeps(e, dhcp_discover(e, up, mem))
      BY <3>2, DiscoverKeeps
    <3> QED
      BY <2>3, <3>2, <3>3 DEF dhcp_network_changed, Keeps, e
  <2> QED
    BY <2>1, <2>2, <2>3
<1> HIDE DEF d
<1>2. Keeps(d, autoip_network_changed(d)) /\ autoip_network_changed(d).state = d.state
  <2>1. CASE d.autoip = "bound"
    <3>1. autoip_network_changed(d) = [d EXCEPT !.autoip = "probing"]
      BY <2>1 DEF autoip_network_changed
    <3> QED
      BY <1>1, <3>1 DEF Keeps, Clients
  <2>2. CASE d.autoip # "bound"
    BY <1>1, <2>2 DEF Keeps, autoip_network_changed
  <2> QED
    BY <2>1, <2>2
<1>3. Keeps(c, autoip_network_changed(d))
  BY <1>1, <1>2 DEF Keeps
<1> QED
  BY <1>1, <1>2, <1>3 DEF d
-----------------------------------------------------------------------------
(* Only DHCP_Thread starts a stopped client, and it has cleared the        *)
(* address before; between the stop and the static address nobody does.    *)
StaticInv ==
    /\ client \in Clients
    /\ StaticMeansClientStopped
    /\ dpc \in {"start state", "dhcp_start"} => client.addr # "static"
    /\ dpc = "timeout address" => client.state \in Off

\* The initial states of carbon_lwip_init satisfy the invariant.
LEMMA StaticInvInit == Init => StaticInv
  BY DEF Init, StaticInv, StaticMeansClientStopped, Clients, NoClient, States, Off

\* A step of the clients that is possible only while DHCP runs.
LEMMA RunningStep ==
  ASSUME StaticInv, client.state \notin Off, Keeps(client, client'), UNCHANGED dpc
  PROVE  StaticInv'
BY DEF StaticInv, StaticMeansClientStopped, Keeps

\* No step of lwIP's timers and messages puts the static address beside a
\* client that runs.
LEMMA ClientInv == StaticInv /\ Client => StaticInv'
<1> SUFFICES ASSUME StaticInv, Client PROVE StaticInv'
  OBVIOUS
<1> USE DEF ClientTimer, Receive, ClientStep
<1>0. client \in Clients
  BY DEF StaticInv
<1>1. CASE RequestTimeout
  <2>1. client.state \in Waiting /\ client.state \notin Off
    BY <1>1 DEF RequestTimeout, Waiting, Off
  <2> QED
    BY <1>0, <1>1, <2>1, TimeoutKeeps, RunningStep DEF RequestTimeout
<1>2. CASE LeaseExpires
  BY <1>0, <1>2, RestartKeeps, RunningStep DEF LeaseExpires
<1>3. CASE RenewTimeout
  <2>1. client.state \notin Off
    BY <1>3 DEF RenewTimeout, Renewable, Off
  <2>2. Keeps(client, dhcp_renew(client))
    BY <1>0, TryKeeps DEF dhcp_renew, States, Supplied
  <2> QED
    BY <1>3, <2>1, <2>2, RunningStep DEF RenewTimeout
<1>4. CASE RebindTimeout
  <2>1. client.state \notin Off
    BY <1>4 DEF RebindTimeout, Rebindable, Renewable, Off
  <2>2. Keeps(client, dhcp_rebind(client))
    BY <1>0, TryKeeps DEF dhcp_rebind, States, Supplied
  <2> QED
    BY <1>4, <2>1, <2>2, RunningStep DEF RebindTimeout
<1>5. CASE ReceiveOffer
  <2>1. Keeps(client, dhcp_select(client))
    BY <1>0, TryKeeps DEF dhcp_select, States
  <2> QED
    BY <1>5, <2>1, RunningStep DEF ReceiveOffer, Off
<1>6. CASE ReceiveAck
  <2>1. client.state \notin Off
    BY <1>6 DEF ReceiveAck, Acknowledgeable, Off
  <2>2. Keeps(client, dhcp_check(client))
    BY <1>0, TryKeeps DEF dhcp_check, States
  <2> QED
    BY <1>0, <1>6, <2>1, <2>2, BindKeeps, RunningStep DEF ReceiveAck, dhcp_recv_ack
<1>7. CASE ReceiveNak
  <2>1. client.state \notin Off
    BY <1>7 DEF ReceiveNak, Acknowledgeable, Off
  <2> QED
    BY <1>0, <1>7, <2>1, NakKeeps, RunningStep DEF ReceiveNak
<1>8. CASE ArpConflict
  <2>1. Keeps(client, dhcp_decline(client))
    BY <1>0, TryKeeps DEF dhcp_decline, States
  <2> QED
    BY <1>8, <2>1, RunningStep DEF ArpConflict, Off
<1>9. CASE AutoipConflict
  <2>1. PICK mem \in Memory : client' = autoip_start(client, netifUp, mem)
    BY <1>9 DEF AutoipConflict
  <2>2. Keeps(client, client')
    BY <1>0, <2>1, AutoipStartKeeps
  <2>3. client'.state = client.state
    BY <1>0, <2>1 DEF autoip_start, Clients
  <2> QED
    BY <1>9, <2>2, <2>3 DEF AutoipConflict, Keeps, StaticInv, StaticMeansClientStopped
<1>10. CASE AutoipTimer
  BY <1>0, <1>10
  DEF AutoipTimer, autoip_bind, StaticInv, StaticMeansClientStopped, Clients
<1> QED
  BY <1>1, <1>2, <1>3, <1>4, <1>5, <1>6, <1>7, <1>8, <1>9, <1>10 DEF Client

\* No step of DHCP_Thread does.
LEMMA DhcpThreadInv == StaticInv /\ DhcpThread => StaticInv'
<1> SUFFICES ASSUME StaticInv, DhcpThread PROVE StaticInv'
  OBVIOUS
<1> USE DEF GoTo, SetState
<1>0. client \in Clients
  BY DEF StaticInv
<1>1. CASE Switch
  BY <1>1 DEF Switch, StaticInv, StaticMeansClientStopped
<1>2. CASE StartClear
  BY <1>0, <1>2 DEF StartClear, StaticInv, StaticMeansClientStopped, Clients
<1>3. CASE StartState
  BY <1>3 DEF StartState, StaticInv, StaticMeansClientStopped
<1>4. CASE StartClient
  <2>1. Keeps(client, client')
    BY <1>0, <1>4, StartKeeps DEF StartClient
  <2> QED
    BY <1>4, <2>1 DEF StartClient, Keeps, StaticInv, StaticMeansClientStopped
<1>5. CASE WaitBound \/ WaitMore \/ WaitTimeout
  BY <1>5 DEF WaitBound, WaitMore, WaitTimeout, StaticInv, StaticMeansClientStopped
<1>6. CASE Assigned \/ TimeoutState \/ DownState
  BY <1>6 DEF Assigned, TimeoutState, DownState, StaticInv, StaticMeansClientStopped
<1>7. CASE TimeoutStop \/ DownStop
  <2>1. Keeps(client, client') /\ client'.state \in Off
    BY <1>0, <1>7, ReleaseKeeps DEF TimeoutStop, DownStop
  <2> QED
    BY <1>7, <2>1 DEF TimeoutStop, DownStop, Keeps, StaticInv, StaticMeansClientStopped
<1>8. CASE TimeoutAddress
  BY <1>0, <1>8 DEF TimeoutAddress, StaticInv, StaticMeansClientStopped, Clients
<1> QED
  BY <1>1, <1>2, <1>3, <1>4, <1>5, <1>6, <1>7, <1>8 DEF DhcpThread

\* No step puts the static address beside a client that runs.
LEMMA StaticInvStep == StaticInv /\ [Next]_vars => StaticInv'
<1> SUFFICES ASSUME StaticInv, [Next]_vars PROVE StaticInv'
  OBVIOUS
<1>1. CASE CableChange \/ LinkFlag
  BY <1>1 DEF CableChange, LinkFlag, StaticInv, StaticMeansClientStopped
<1>2. CASE LinkCallback
  <2>1. CASE UNCHANGED client
    BY <1>2, <2>1 DEF LinkCallback, StaticInv, StaticMeansClientStopped
  <2>2. CASE netifUp
    <3>1. Keeps(client, client') /\ (client.state \in Off => client'.state = client.state)
      BY <1>2, <2>2, NetworkChangedKeeps DEF LinkCallback, StaticInv
    <3> QED
      BY <1>2, <3>1 DEF LinkCallback, Keeps, StaticInv, StaticMeansClientStopped
  <2> QED
    BY <1>2, <2>1, <2>2 DEF LinkCallback
<1>3. CASE Client
  BY <1>3, ClientInv
<1>4. CASE DhcpThread
  BY <1>4, DhcpThreadInv
<1>5. CASE UNCHANGED vars
  BY <1>5 DEF vars, StaticInv, StaticMeansClientStopped
<1> QED
  BY <1>1, <1>2, <1>3, <1>4, <1>5 DEF Next, Link

\* DHCP_Thread, the link callback and the clients of lwIP, however they
\* interleave (leases that run out, NAKs and failed allocations included),
\* never leave the static address beside a DHCP client that runs: an answer
\* that comes late does not replace it.
THEOREM StaticAddressSafe == Spec => []StaticMeansClientStopped
<1>1. Init => StaticInv
  BY StaticInvInit
<1>2. StaticInv /\ [Next]_vars => StaticInv'
  BY StaticInvStep
<1>3. StaticInv => StaticMeansClientStopped
  BY DEF StaticInv
<1> QED
  BY <1>1, <1>2, <1>3, PTL DEF Spec
=============================================================================
