------------------------------ MODULE UsbDynamic ------------------------------
(***************************************************************************)
(* The quirk hook of src/sys/dev/usb/usb_dynamic.c: the function pointer  *)
(* usb_test_quirk_p, which the loadable quirk module points at its own    *)
(* lookup and usb_quirk_unload points back at the built-in                *)
(* usb_test_quirk_w, and the unload itself: reset the pointers, then      *)
(* pause(hz) "for the CPU to exit the loaded functions" before the module *)
(* text goes away.  The pause is a bet on time, not a synchronisation     *)
(* (the code says "XXX this is a tradeoff"), so time is part of the       *)
(* state: pauseLeft counts the ticks of the pause still to run, and the   *)
(* module that composes this one advances it with Tick.                   *)
(*                                                                         *)
(* usb_quirk_unload also resets usb_quirk_ioctl_p; that hook, and those  *)
(* usb_temp_unload and usb_bus_unload reset in the same way, are called  *)
(* by no code under src/ and are not modelled.                           *)
(***************************************************************************)
EXTENDS Naturals

CONSTANTS
    HZ    \* ticks of pause("WAIT", hz), one second

ASSUME HZ \in Nat \ {0}

\* Targets of usb_test_quirk_p: the quirk module's lookup or the default.
Targets == {"quirk_module", "usb_test_quirk_w"}

\* The quirk module: loaded, inside its unload handler, or unmapped.
ModStates == {"loaded", "unloading", "unloaded"}

VARIABLES
    usb_test_quirk_p,  \* the hook pointer
    quirkMod,          \* the quirk module's text
    pauseLeft          \* ticks of the unload's pause still to run

hookVars == <<usb_test_quirk_p, quirkMod, pauseLeft>>

HookTypeOK ==
    /\ usb_test_quirk_p \in Targets
    /\ quirkMod \in ModStates
    /\ pauseLeft \in 0..HZ

(* At boot the pointer is the default; a loaded quirk module has set it   *)
(* to its own lookup.                                                      *)
HookInit ==
    \/ /\ usb_test_quirk_p = "quirk_module"
       /\ quirkMod = "loaded"
       /\ pauseLeft = 0
    \/ /\ usb_test_quirk_p = "usb_test_quirk_w"
       /\ quirkMod = "unloaded"
       /\ pauseLeft = 0

(* usb_test_quirk_w: no quirk matches.                                     *)
usb_test_quirk_w == FALSE

(* Seeded fault: the unload does not wait.                                 *)
usb_quirk_unload_NoPause ==
    /\ quirkMod = "loaded"
    /\ usb_test_quirk_p' = "usb_test_quirk_w"
    /\ quirkMod' = "unloading"
    /\ pauseLeft' = 0

(* usb_quirk_unload: reset the function pointers to the defaults, then    *)
(* pause for hz ticks.                                                     *)
usb_quirk_unload ==
    /\ quirkMod = "loaded"
    /\ usb_test_quirk_p' = "usb_test_quirk_w"
    /\ quirkMod' = "unloading"
    /\ pauseLeft' = HZ

(* One tick of the clock: the pause, if one runs, gets shorter.           *)
HookTick ==
    /\ pauseLeft' = IF quirkMod = "unloading" /\ pauseLeft > 0
                    THEN pauseLeft - 1 ELSE pauseLeft
    /\ UNCHANGED <<usb_test_quirk_p, quirkMod>>

(* The pause is over: the unload handler returns and the module's text is *)
(* unmapped.                                                               *)
UnloadDone ==
    /\ quirkMod = "unloading"
    /\ pauseLeft = 0
    /\ quirkMod' = "unloaded"
    /\ UNCHANGED <<usb_test_quirk_p, pauseLeft>>

====
