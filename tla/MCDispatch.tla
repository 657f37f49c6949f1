----------------------------- MODULE MCDispatch -----------------------------
(* Builds of the hypervisor for TLC, as the makefiles of the boards choose *)
(* them; the linker takes the object files in the order of their names.    *)
EXTENDS Dispatch

StarterKit ==
  [port |-> "pic32mz", redirected |-> {}, fastEthernet |-> FALSE, phy |-> TRUE,
   order |-> <<"inter-vm-comm", "interrupts", "pic32mz-ethernet",
               "pic32mz-interrupt-redirect", "pic32mz-usb", "reset", "uart_driver",
               "virtual-io">>]

Wifire ==
  [port |-> "pic32mz", redirected |-> {171}, fastEthernet |-> FALSE, phy |-> FALSE,
   order |-> <<"inter-vm-comm", "interrupts", "pic32mz-interrupt-redirect",
               "uart_driver", "virtual-io">>]

BaikalT1 ==
  [port |-> "baikal-t1", redirected |-> {}, fastEthernet |-> FALSE, phy |-> FALSE,
   order |-> <<"inter-vm-comm", "interrupts", "t1-baikal-UART-test", "uart_driver">>]

(* All test drivers, and both drivers of the Ethernet controller.          *)
Everything ==
  [port |-> "pic32mz", redirected |-> {}, fastEthernet |-> TRUE, phy |-> TRUE,
   order |-> <<"inter-vm-comm", "interrupts", "performance-counter",
               "pic32mz-ethernet", "pic32mz-ethernet-shared",
               "pic32mz-interrupt-latency-test", "pic32mz-puf-flash",
               "pic32mz-timer-test", "uart_driver", "virtual-io">>]

(* At most five handlers of interrupts are registered in each of these.    *)
MCBuilds ==
  {StarterKit, [StarterKit EXCEPT !.fastEthernet = TRUE],
   [StarterKit EXCEPT !.redirected = {146, 121}],
   [StarterKit EXCEPT !.fastEthernet = TRUE, !.phy = FALSE],
   Wifire, BaikalT1, Everything}

(* The drivers of the starter kit register six with both.                  *)
SixHandlers == {[StarterKit EXCEPT !.fastEthernet = TRUE, !.redirected = {146}]}

(* Two devices with no gap between them, as close as the registers of any  *)
(* two may be, a device for each of two guests and none for a third.       *)
MCDevices == [ports |-> [start |-> 2, size |-> 2], uart |-> [start |-> 5, size |-> 2]]
MCMapped == <<{"ports"}, {"uart"}, {}>>
=============================================================================
