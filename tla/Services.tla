----------------------------- MODULE Services ------------------------------
(***************************************************************************)
(* The system time and the MicroPython port share no state, and delayUs    *)
(* does not give the processor or the GIL away: a behaviour of the two is  *)
(* checked as a behaviour of either.                                       *)
(***************************************************************************)
EXTENDS Systime, MpPort

VARIABLE part   \* the part that moves

Parts == {"time", "python"}

ServicesInit == part \in Parts /\ SystimeInit /\ MpInit

ServicesNext ==
    /\ UNCHANGED part
    /\ \/ part = "time" /\ SystimeNext /\ UNCHANGED mpVars
       \/ part = "python" /\ MpNext /\ UNCHANGED systimeVars

ServicesSpec == ServicesInit /\ [][ServicesNext]_<<part, systimeVars, mpVars>>
=============================================================================
