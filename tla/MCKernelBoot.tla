---------------------------- MODULE MCKernelBoot ----------------------------
(* The run of KernelBoot: what the firmware may leave masked, which is     *)
(* nothing, the lines of the mouse and its keyboard, or everything.        *)
EXTENDS KernelBoot

MCMasks == {{}, {1, 12}, AllLines}
=============================================================================
