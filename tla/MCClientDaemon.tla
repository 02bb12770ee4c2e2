--------------------------- MODULE MCClientDaemon ---------------------------
(* One session, one address, OPENACKs with and without address and MTU. *)
EXTENDS ClientDaemon

CONSTANTS id, ip

MCSessionIds == {id}
MCTunnelIPs == {ip}
MCAcks ==
    {[id |-> id, ip |-> i, mtu |-> m, encrypt |-> "keep"] :
        i \in {ip, Unset}, m \in {0, 46, 1300}}
MCOneAck == {[id |-> id, ip |-> ip, mtu |-> 1300, encrypt |-> "on"]}
=============================================================================
