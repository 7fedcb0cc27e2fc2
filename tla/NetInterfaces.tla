--------------------------- MODULE NetInterfaces ---------------------------
(* The network interfaces that the settings enable, which the set-up       *)
(* (NetSetup) and the watch (NetWatch) of the manager have in common.      *)
VARIABLE enabled            \* isEthernetEnable, isWifiEnable

Wifi == "wlan0"
Ethernet == "eth0"
Interface == {Wifi, Ethernet}
=============================================================================
