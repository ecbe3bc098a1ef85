------------------------------ MODULE EthernetInit ------------------------------
(***************************************************************************)
(* ethernet_init.c with ENC28J60 modules on the SPI bus, and perhaps the   *)
(* processor's own Ethernet before them: ethernet_init_all, step by step   *)
(* and with every failure, and ethernet_deinit_all, which both the         *)
(* failures and the program call.                                          *)
(* The objects that are created and deleted are named by the instance they *)
(* belong to; the device record dev is that of the instance in hand.       *)
(***************************************************************************)
EXTENDS Enc28j60Phy

CONSTANTS
  MaxModules,              \* CONFIG_ETHERNET_SPI_NUMBER, and the internal Ethernet
  ClockMhz,                \* possible values of CONFIG_ETHERNET_SPI_CLOCK_MHZ
  Revisions                \* possible revisions of the chip; 0 is no chip

ASSUME ModulesAssumption == MaxModules \in Nat

VARIABLES
  main,                    \* the place in the program that sets Ethernet up
  config,                  \* the build: number of devices, clock; the chips' revision
  eth_cnt_g, eth_instance_g,
  heap,                    \* objects that exist: <<kind, instance>>
  spi_devices,             \* objects with a device on the bus, and those left there
  bus, isr_service,        \* what spi_bus_init sets up
  result                   \* what the last call of ethernet_init_all returned

initVars == <<main, config, eth_cnt_g, eth_instance_g, heap, spi_devices, bus, isr_service, result>>

(* pointers: which of mac and phy are not NULL. *)
NoInstance == [state |-> "UNINITIALIZED", eth_handle |-> FALSE, pointers |-> {}]
Fresh == NewDevice(config.revision, dev.faults)
Current == eth_cnt_g + 1
Orphan == <<"orphan", 0>>

EthernetInitInit ==
  /\ main = "off"
  /\ config \in [number : 1 .. MaxModules, internal : BOOLEAN, clock : ClockMhz, revision : Revisions]
  /\ config.internal => config.number > 1
  /\ eth_cnt_g = 0
  /\ eth_instance_g = [i \in 1 .. MaxModules |-> NoInstance]
  /\ heap = {} /\ spi_devices = {}
  /\ bus = "free" /\ isr_service = FALSE
  /\ result = "none"
  /\ MacInit(NewDevice(config.revision, 0))
  /\ link = IdleLink

-------------------------------------------------------------------------------
threads == <<tx_ready_sem, task, sender, stack, link>>

FailsHere == MayFail(dev) /\ dev' = [dev EXCEPT !.faults = @ + 1]

(* A call of ethernet_init_all that fails ends in ethernet_deinit_all. *)
ToErrorWithoutDeinit ==
  /\ main' = "off" /\ result' = "error"
  /\ UNCHANGED <<config, eth_cnt_g, eth_instance_g, heap, spi_devices, bus>>

ToError ==
  /\ main' = "deinit" /\ result' = "error"
  /\ UNCHANGED <<config, eth_cnt_g, eth_instance_g, heap, spi_devices, bus>>

ethernet_init_all ==
  /\ main = "off"
  /\ main' = IF config.internal THEN "internal" ELSE "isr"
  /\ heap' = heap \cup {<<"handles", 0>>}
  /\ UNCHANGED <<dev, threads, config, eth_cnt_g, eth_instance_g, spi_devices, bus, isr_service, result>>

AllocationFails ==
  /\ main = "off"
  /\ FailsHere /\ ToError
  /\ UNCHANGED <<threads, isr_service>>

(* Both objects and the driver, or what has been created of them deleted;   *)
(* the pointers to it stay.                                                 *)
eth_init_internal ==
  /\ main = "internal"
  /\ \/ /\ heap' = heap \cup ({"mac", "phy", "driver"} \X {Current})
        /\ eth_instance_g' = [eth_instance_g EXCEPT ![Current] =
              [state |-> "INITIALIZED", eth_handle |-> TRUE, pointers |-> {"mac", "phy"}]]
        /\ eth_cnt_g' = eth_cnt_g + 1
        /\ main' = "isr"
        /\ UNCHANGED <<dev, result>>
     \/ /\ FailsHere
        /\ \E created \in SUBSET {"mac", "phy"} :
             eth_instance_g' = [eth_instance_g EXCEPT ![Current].pointers = created]
        /\ main' = "deinit" /\ result' = "error"
        /\ UNCHANGED <<heap, eth_cnt_g>>
  /\ UNCHANGED <<threads, config, spi_devices, bus, isr_service>>

(* spi_bus_init *)
InstallIsrService ==
  /\ main = "isr"
  /\ \/ /\ isr_service' = TRUE /\ main' = "bus"
        /\ UNCHANGED <<dev, config, eth_cnt_g, eth_instance_g, heap, spi_devices, bus, result>>
     \/ FailsHere /\ ToError /\ UNCHANGED isr_service
  /\ UNCHANGED threads

InitializeBus ==
  /\ main = "bus"
  /\ \/ /\ bus = "free" /\ bus' = "initialized" /\ main' = "mac"
        /\ UNCHANGED <<dev, config, eth_cnt_g, eth_instance_g, heap, spi_devices, result>>
     \/ bus = "free" /\ FailsHere /\ ToError
     \/ bus = "initialized" /\ ToError /\ UNCHANGED dev
  /\ UNCHANGED <<threads, isr_service>>

-------------------------------------------------------------------------------
(* eth_init_spi for the next instance.  The MAC's constructor may fail       *)
(* before it has added its device to the bus, or after: then it leaves it    *)
(* there.                                                                    *)
NewMac(pointers) ==
  /\ main = "mac"
  /\ \/ /\ dev' = Fresh
        /\ heap' = heap \cup {<<"mac", Current>>}
        /\ spi_devices' = spi_devices \cup {<<"mac", Current>>}
        /\ eth_instance_g' = [eth_instance_g EXCEPT ![Current].pointers = pointers \cup {"mac"}]
        /\ main' = "revision"
     \/ /\ FailsHere
        /\ spi_devices' \in {spi_devices, spi_devices \cup {Orphan}}
        /\ eth_instance_g' = [eth_instance_g EXCEPT ![Current].pointers = pointers]
        /\ main' = "unset"
        /\ UNCHANGED heap
  /\ UNCHANGED <<threads, config, eth_cnt_g, bus, isr_service, result>>

esp_eth_mac_new_enc28j60 == NewMac({})

(* emac_enc28j60_get_chip_info: a new MAC has not read the revision yet. *)
CheckRevision ==
  /\ main = "revision"
  /\ main' = IF dev.revision >= ENC28J60_REV_B5 \/ config.clock >= 8 THEN "phy" ELSE "unset"
  /\ UNCHANGED <<dev, threads, config, eth_cnt_g, eth_instance_g, heap, spi_devices, bus, isr_service, result>>

esp_eth_phy_new_enc28j60 ==
  /\ main = "phy"
  /\ \/ /\ heap' = heap \cup {<<"phy", Current>>}
        /\ eth_instance_g' = [eth_instance_g EXCEPT ![Current].pointers = @ \cup {"phy"}]
        /\ UNCHANGED dev
     \/ FailsHere /\ UNCHANGED <<heap, eth_instance_g>>
  /\ main' = "install"
  /\ UNCHANGED <<threads, config, eth_cnt_g, spi_devices, bus, isr_service, result>>

(* esp_eth_driver_install: it wants both objects, and sets the chip up. *)
Install ==
  /\ main = "install"
  /\ \E o \in IF "phy" \in eth_instance_g[Current].pointers THEN Then(emac_enc28j60_init(dev), enc28j60_init)
              ELSE {[dev |-> dev, ok |-> FALSE]} :
       /\ dev' = o.dev
       /\ heap' = IF o.ok THEN heap \cup {<<"driver", Current>>} ELSE heap
       /\ main' = IF o.ok THEN "address" ELSE "undo"
  /\ UNCHANGED <<threads, config, eth_cnt_g, eth_instance_g, spi_devices, bus, isr_service, result>>

SetAddress ==
  /\ main = "address"
  /\ \E o \in enc28j60_set_mac_addr(dev) :
       /\ dev' = o.dev
       /\ main' = IF o.ok THEN "installed" ELSE "undo"
  /\ UNCHANGED <<threads, config, eth_cnt_g, eth_instance_g, heap, spi_devices, bus, isr_service, result>>

(* The objects of an instance are deleted.  An uninstall that fails keeps   *)
(* the driver, but its MAC and PHY go all the same.                         *)
Pointed(i) == {<<kind, i>> : kind \in eth_instance_g[i].pointers}

emac_enc28j60_del(i) == spi_devices' = spi_devices \ {<<"mac", i>>}

DeleteObjects(i, uninstalled) ==
  /\ uninstalled \/ <<"driver", i>> \in heap
  /\ emac_enc28j60_del(i)
  /\ heap' = heap \ (Pointed(i) \cup IF uninstalled THEN {<<"driver", i>>} ELSE {})

(* After the failure that led here no other is counted. *)
UndoInstance ==
  /\ main = "undo"
  /\ \E uninstalled \in BOOLEAN : DeleteObjects(Current, uninstalled)
  /\ main' = "deinit" /\ result' = "error"
  /\ UNCHANGED <<dev, threads, config, eth_cnt_g, eth_instance_g, bus, isr_service>>

(* A goto from before the declaration of eth_handle passes its NULL by: the *)
(* handle that err: tests is indeterminate, NULL or a wild pointer.         *)
UndoWithoutHandle ==
  /\ main = "unset"
  /\ \/ /\ heap' = heap \ Pointed(Current)
        /\ emac_enc28j60_del(Current)
        /\ main' = "deinit" /\ result' = "error"
     \/ main' = "aborted" /\ UNCHANGED <<heap, spi_devices, result>>
  /\ UNCHANGED <<dev, threads, config, eth_cnt_g, eth_instance_g, bus, isr_service>>

KeepInstance ==
  /\ main = "installed"
  /\ eth_instance_g' = [eth_instance_g EXCEPT ![Current].state = "INITIALIZED", ![Current].eth_handle = TRUE]
  /\ eth_cnt_g' = eth_cnt_g + 1
  /\ main' = IF eth_cnt_g' < config.number THEN "mac" ELSE "duplex"
  /\ UNCHANGED <<dev, threads, config, heap, spi_devices, bus, isr_service, result>>

(* CONFIG_ETHERNET_ENC28J60_DUPLEX_FULL; a failure aborts the program. *)
SetFullDuplex ==
  /\ main = "duplex"
  /\ \E o \in enc28j60_set_duplex(dev, "full") :
       /\ dev' = o.dev
       /\ main' = IF o.ok THEN "ready" ELSE "aborted"
       /\ result' = IF o.ok THEN "ready" ELSE result
  /\ UNCHANGED <<threads, config, eth_cnt_g, eth_instance_g, heap, spi_devices, bus, isr_service>>

-------------------------------------------------------------------------------
(* ethernet_deinit_all: instance by instance, then the bus. *)
Followed(i) == eth_instance_g[i].state = "INITIALIZED" /\ eth_instance_g[i].eth_handle

DeinitInstance ==
  /\ main = "deinit" /\ eth_cnt_g > 0
  /\ eth_cnt_g' = eth_cnt_g - 1
  /\ IF Followed(eth_cnt_g)
       THEN \/ DeleteObjects(eth_cnt_g, TRUE) /\ UNCHANGED dev
            \/ DeleteObjects(eth_cnt_g, FALSE) /\ FailsHere
       ELSE UNCHANGED <<dev, heap, spi_devices>>
  /\ UNCHANGED <<threads, main, config, eth_instance_g, bus, isr_service, result>>

(* The bus is not freed as long as a device is on it. *)
FreeBus ==
  /\ main = "deinit" /\ eth_cnt_g = 0
  /\ bus' = IF spi_devices = {} THEN "free" ELSE bus
  /\ isr_service' = FALSE
  /\ heap' = heap \ {<<"handles", 0>>}
  /\ main' = "off"
  /\ dev' = Fresh
  /\ tx_ready_sem' = 1 /\ task' = IdleTask /\ sender' = IdleSender
  /\ stack' = 0 /\ link' = IdleLink
  /\ UNCHANGED <<config, eth_cnt_g, eth_instance_g, spi_devices, result>>

InitStep ==
  \/ ethernet_init_all \/ AllocationFails \/ eth_init_internal
  \/ InstallIsrService \/ InitializeBus
  \/ esp_eth_mac_new_enc28j60 \/ CheckRevision \/ esp_eth_phy_new_enc28j60
  \/ Install \/ SetAddress \/ UndoInstance \/ UndoWithoutHandle \/ KeepInstance \/ SetFullDuplex
  \/ DeinitInstance \/ FreeBus
===============================================================================
