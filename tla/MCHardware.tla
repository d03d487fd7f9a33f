----------------------------- MODULE MCHardware -----------------------------
(* The disks of one VM on Proxmox, used by two requests. *)
EXTENDS Hardware, TLC
=============================================================================
