---------------------------- MODULE MCCpuModes -----------------------------
(* The instance of CpuModes for TLC.                                       *)
EXTENDS CpuModes

(* Two slots may be lost at once, and before FIQ was used any of those     *)
(* that the interrupt of a DMA loses in Thumb code.                        *)
MCBounded ==
  \/ Cardinality(lost) <= 2
  \/ /\ \A s \in lost : s[1] \in {"ALL", "IRQ"}
     /\ mode # "FIQ"
     /\ \A r \in Banked : reg_mode["FIQ"][r] = Own("FIQ", r)
=============================================================================
