------------------------------ MODULE MCEngine ------------------------------
(* Instances of the engine for TLC. *)
EXTENDS EngineProperties

CONSTANTS link, other, script

UdpOnce      == [transport |-> "udp", retry |-> FALSE, attempts |-> None]
ClientAgain  == [transport |-> "client", retry |-> TRUE, attempts |-> None]
ClientOnce   == [transport |-> "client", retry |-> FALSE, attempts |-> None]
ClientTwice  == [transport |-> "client", retry |-> TRUE, attempts |-> 1]
ServerTwice  == [transport |-> "server", retry |-> TRUE, attempts |-> 1]
SerialTwice  == [transport |-> "serial", retry |-> TRUE, attempts |-> 1]

Connect(id, c)  == [op |-> "Connect", name |-> id, config |-> c]
Disconnect(id)  == [op |-> "Disconnect", name |-> id, config |-> None]
SendRaw(id)     == [op |-> "SendRaw", name |-> id, config |-> None]
Start(s)        == [op |-> "Start", name |-> s, config |-> None]
Stop(s)         == [op |-> "Stop", name |-> s, config |-> None]
SetValue(s)     == [op |-> "SetValue", name |-> s, config |-> None]

(* Names taken and given back: a link and a scenario opened, closed and    *)
(* ending by themselves, the scenario sending to the link all the while.   *)
NameConfigs == {ClientOnce}
NameOffers ==
  {Connect(link, ClientOnce), Disconnect(link), Start(script), Stop(script), SetValue(script)}

(* A link over every transport that comes up, fails and comes back and is  *)
(* not sent to; or another that does not retry and is; or a scenario.      *)
FateConfigs ==
  {ClientOnce, ClientAgain, ClientTwice, ServerTwice, SerialTwice, UdpOnce}
FateOffers ==
  {Connect(link, c) : c \in FateConfigs \ {ClientOnce}}
    \cup {Disconnect(link), Connect(other, ClientOnce), SendRaw(other), Disconnect(other)}
    \cup {Start(script)}

(* For the claims the code does not keep. *)
ForeverConfigs == {ClientAgain}
ForeverOffers  == {Connect(link, ClientAgain), Disconnect(link), SendRaw(link)}
ClaimOffers    == ForeverOffers \cup {Start(s) : s \in Scenarios}
=============================================================================
