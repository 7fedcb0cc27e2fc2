------------------------------ MODULE NetSetup ------------------------------
(***************************************************************************)
(* The settings of the network and of the speed, from the screen to the    *)
(* interfaces: the screen sends them in frames of a few bytes              *)
(* (CAgvHMISensor in devices/canbus/AgvSensor.cpp), they are kept in the   *)
(* settings file, and the next start of the program configures Ethernet    *)
(* and Wi-Fi with them (devices/network, utils/AgvUtils.cpp).              *)
(*                                                                         *)
(* An address is a sequence of characters; a frame carries one of its      *)
(* Length characters, numbered (in the code two of 16).  Addresses, Wi-Fi  *)
(* and supplicant belong to the operating system: they survive a restart   *)
(* of the program.  Parameters that are saved and shown as they come       *)
(* (volume, port, identifiers, battery, repair mode) are left out.         *)
(***************************************************************************)
EXTENDS NetInterfaces, Naturals, Sequences, FiniteSets, SequencesExt

CONSTANTS
    Chars,              \* digits and points
    Length,             \* frames of an address
    Addresses,          \* addresses that are typed at the screen
    Factory,            \* LocalIp of a new settings file
    Leases,             \* addresses that a DHCP server gives
    MinLength,          \* the shortest text that the Wi-Fi takes, 7
    Speeds,             \* speeds that are typed at the screen
    MaxFrames,          \* bound: frames with parts of addresses
    MaxSettings,        \* bound: other frames of the screen
    MaxStarts           \* bound: starts of the program

ASSUME LengthAssumption == Length \in Nat \ {0} /\ MinLength \in Nat
ASSUME SpeedAssumption == Speeds \subseteq 0 .. 255
ASSUME BoundAssumption == MaxFrames \in Nat /\ MaxSettings \in Nat /\ MaxStarts \in Nat

VARIABLES
    typed,              \* the address at the screen, and the next part to be sent
    dropped,            \* a part of it has not arrived
    arrived,            \* the last address that was saved, if all its parts came
    buffer,             \* the static LocalrIp
    file,               \* the settings file
    speed,              \* the speed that was set last and the one shown last
    event,              \* the charging event posted last
    frames, settings, starts,       \* how often, for the bounds
    netPc,              \* where the network thread is in its set-up
    localIp,            \* its localIp
    wanted,             \* arrived, when the program was started
    failed,             \* commands of the set-up that failed
    address,            \* address[i] of the interface, << >> for none
    supplicant,         \* wpa_supplicant runs
    wifiUp              \* operstate of the Wi-Fi

screen == <<typed, dropped, arrived, buffer, file, speed, event, frames, settings>>
program == <<netPc, localIp, wanted, enabled, failed, starts>>
system == <<address, supplicant, wifiUp>>
setupVars == <<screen, program, system>>

Blank == " "
Nul == "NUL"
NoAddress == << >>

(* Nobody types blanks, and a text fits into the buffer.                   *)
ASSUME AddressAssumption ==
    /\ Blank \notin Chars /\ Nul \notin Chars
    /\ \A a \in Addresses : a \in Seq(Chars) /\ Len(a) <= Length
    /\ Factory \in Seq(Chars)

(* What the screen has typed, filled up with blanks.                       *)
Part(a, n) == IF n <= Len(a) THEN a[n] ELSE Blank

SetupInit ==
    /\ typed = [address |-> NoAddress, next |-> 1]
    /\ dropped = FALSE /\ arrived = Factory
    /\ buffer = [n \in 1 .. Length |-> Nul]
    /\ file = [LocalIp |-> Factory, ForwardSpeed |-> 900, UseDhcp |-> 0]
    /\ speed = [set |-> 42, shown |-> 42]
    /\ event = "none"
    /\ frames = 0 /\ settings = 0 /\ starts = 0
    /\ netPc = "off"
    /\ localIp = NoAddress /\ wanted = NoAddress
    /\ enabled = {} /\ failed = {}
    /\ address = [i \in Interface |-> NoAddress]
    /\ supplicant = FALSE /\ wifiUp = FALSE

-----------------------------------------------------------------------------
(* The screen sends the parts of an address one after the other, and may   *)
(* begin again before it is through.                                       *)
Type(a) ==
    /\ typed.address = NoAddress \/ typed.next > 1
    /\ frames < MaxFrames
    /\ typed' = [address |-> a, next |-> 1]
    /\ dropped' = FALSE
    /\ UNCHANGED <<arrived, buffer, file, speed, event, frames, settings, program, system>>

SendsPart ==
    /\ typed.address # NoAddress /\ typed.next <= Length
    /\ frames < MaxFrames /\ frames' = frames + 1
    /\ typed' = [typed EXCEPT !.next = @ + 1]

LosesPart ==
    /\ SendsPart
    /\ dropped' = TRUE
    /\ UNCHANGED <<arrived, buffer, file, speed, event, settings, program, system>>

(* The text of the buffer: as many characters as there are other than      *)
(* blanks, from the first, up to a NUL.                                    *)
Text(b) ==
    LET n == Cardinality({k \in 1 .. Length : b[k] # Blank})
        end == {k \in 1 .. n : b[k] = Nul}
    IN  SubSeq(b, 1, IF end = {} THEN n ELSE Min(end) - 1)

Stored(n, c) == [buffer EXCEPT ![n] = c]

(* Frame 0x15: a part of LocalIp; the last one saves it.                   *)
ReceivesPart ==
    /\ SendsPart
    /\ buffer' = Stored(typed.next, Part(typed.address, typed.next))
    /\ IF typed.next = Length
       THEN /\ file' = [file EXCEPT !.LocalIp = Text(buffer')]
            /\ arrived' = IF dropped THEN NoAddress ELSE typed.address
       ELSE UNCHANGED <<file, arrived>>
    /\ UNCHANGED <<dropped, speed, event, settings, program, system>>

(* Frame 0x02: m/min to r/min, (int)(((Speed*100)/62.8)/0.075).            *)
Setting == settings < MaxSettings /\ settings' = settings + 1

ToRpm(v) == (v * 10000) \div 471

(* Slip: the wheel's diameter is taken for its radius.                     *)
ToShown_Radius(rpm) == (rpm * 942) \div 10000

(* (int)(ForwardSpeed * 0.075 * 0.628)                                     *)
ToShown(rpm) == (rpm * 471) \div 10000

SetSpeed(v) ==
    /\ Setting
    /\ file' = [file EXCEPT !.ForwardSpeed = ToRpm(v)]
    /\ speed' = [speed EXCEPT !.set = v]
    /\ UNCHANGED <<typed, dropped, arrived, buffer, event, frames, program, system>>

(* Frame 0x81 FF: the screen asks for everything (WriteHMIPara).           *)
ShowAll ==
    /\ Setting
    /\ speed' = [set |-> speed.set, shown |-> ToShown(file.ForwardSpeed) % 256]
    /\ UNCHANGED <<typed, dropped, arrived, buffer, file, event, frames, program, system>>

(* Frame 0x14, and 0x13, which goes on into it.                            *)
SetDhcp(v) ==
    /\ Setting
    /\ file' = [file EXCEPT !.UseDhcp = v]
    /\ UNCHANGED <<typed, dropped, arrived, buffer, speed, event, frames, program, system>>

ChargingCmd(v) ==
    /\ Setting
    /\ event' = CASE v = 0 -> "evTurnOffCharge" [] v = 1 -> "evTurnOnCharge" [] OTHER -> event
    /\ file' = [file EXCEPT !.UseDhcp = v]
    /\ UNCHANGED <<typed, dropped, arrived, buffer, speed, frames, program, system>>

-----------------------------------------------------------------------------
(* main: the settings are loaded, the network thread is started.  LoadAll  *)
(* sets UseDhcp to false whatever the file says.  A restart may come at    *)
(* any moment.                                                             *)
Start ==
    /\ starts < MaxStarts /\ starts' = starts + 1
    /\ netPc' = "setup"
    /\ localIp' = file.LocalIp /\ wanted' = arrived
    /\ enabled' \in SUBSET Interface
    /\ failed' = {}
    /\ buffer' = [n \in 1 .. Length |-> Nul]
    /\ UNCHANGED <<typed, arrived, file, speed, event, frames, settings, system>>
    /\ dropped' = (dropped \/ typed.next > 1)

(* A command of the operating system succeeds or not.                      *)
Succeeds(c, ok) == failed' = IF ok THEN failed ELSE failed \cup {c}

(* Slip: the interface's address is looked for at the head of the new one. *)
Exists_Reversed(ip) == \E i \in Interface : address[i] # NoAddress /\ IsPrefix(address[i], ip)

(* CheckIpAddress compares as many characters as ip has, on all            *)
(* interfaces.                                                             *)
Exists(ip) == \E i \in Interface : address[i] # NoAddress /\ IsPrefix(ip, address[i])

(* Case 1 of the network thread, its Ethernet: without it the Wi-Fi is     *)
(* tried.                                                                  *)
SetupEthernet ==
    /\ netPc = "setup" /\ netPc' = "wifi"
    /\ \/ /\ Ethernet \notin enabled
          /\ UNCHANGED <<enabled, failed, address>>
       \/ /\ Ethernet \in enabled
          /\ enabled' = {Wifi}
          /\ Succeeds("PowerOn", FALSE)
          /\ UNCHANGED address
       \/ /\ Ethernet \in enabled /\ Exists(localIp)
          /\ UNCHANGED <<enabled, failed, address>>
       \/ /\ Ethernet \in enabled /\ ~Exists(localIp)
          /\ \E ok \in BOOLEAN :
                /\ Succeeds("SetIpAddress", ok)
                /\ address' = IF ok THEN [address EXCEPT ![Ethernet] = localIp] ELSE address
          /\ UNCHANGED enabled
    /\ UNCHANGED <<localIp, wanted, starts, screen, supplicant, wifiUp>>

(* PowerOn(StandMode): the supplicant is started unless it runs.           *)
PowerOnWifi ==
    /\ netPc = "wifi" /\ Wifi \in enabled
    /\ netPc' = "connect"
    /\ \/ /\ wifiUp \/ supplicant
          /\ UNCHANGED <<supplicant, failed>>
       \/ /\ ~wifiUp /\ ~supplicant
          /\ \E ok \in BOOLEAN :
                /\ Succeeds("wpa_supplicant", ok)
                /\ supplicant' = ok
    /\ UNCHANGED <<localIp, wanted, enabled, starts, screen, address, wifiUp>>

(* ConnectToAp returns at once: connected, in the wrong mode, or after     *)
(* GetAPList, which always fails.  A connected Wi-Fi then gets an address: *)
(* without DHCP from DHCP, whose server may not answer.                    *)
ConnectWifi ==
    /\ netPc = "connect" /\ netPc' = "watch"
    /\ IF wifiUp /\ Len(localIp) >= MinLength
       THEN \/ \E a \in Leases : address' = [address EXCEPT ![Wifi] = a] /\ UNCHANGED failed
            \/ Succeeds("StartDhcp", FALSE) /\ UNCHANGED address
       ELSE UNCHANGED <<address, failed>>
    /\ UNCHANGED <<localIp, wanted, enabled, starts, screen, supplicant, wifiUp>>

NoWifi ==
    /\ netPc = "wifi" /\ Wifi \notin enabled
    /\ netPc' = "watch"
    /\ UNCHANGED <<localIp, wanted, enabled, failed, starts, screen, system>>

(* The supplicant finds or loses the access point.                         *)
WifiChanges ==
    /\ supplicant
    /\ wifiUp' = ~wifiUp
    /\ UNCHANGED <<screen, program, address, supplicant>>

SetupNext ==
    \/ \E a \in Addresses : Type(a)
    \/ LosesPart \/ ReceivesPart
    \/ \E v \in Speeds \cup {speed.shown} : SetSpeed(v)
    \/ ShowAll
    \/ \E v \in 0 .. 2 : SetDhcp(v) \/ ChargingCmd(v)
    \/ Start \/ SetupEthernet \/ PowerOnWifi \/ ConnectWifi \/ NoWifi
    \/ WifiChanges

SetupSpec == SetupInit /\ [][SetupNext]_setupVars

-----------------------------------------------------------------------------
(* An address all of whose parts came is in force when the next start has  *)
(* set up the Ethernet: an interface has it, or one that begins with it,   *)
(* however many transfers broke off before, unless a command failed.  (If  *)
(* it is the Wi-Fi that has it, it is lost again to the next lease.)       *)
AddressInForce ==
    (netPc = "wifi" /\ Ethernet \in enabled /\ failed = {} /\ wanted # NoAddress)
        => \E i \in Interface : IsPrefix(wanted, address[i])

(* The speed that the screen shows after it has asked is the one that was  *)
(* set or one less, never more.  (It is one less for every speed but 0, so *)
(* that confirming what is shown slows the car down each time.)            *)
SpeedShown == ToShown(file.ForwardSpeed) \in {speed.set - 1, speed.set}
=============================================================================
