------------------------------ MODULE MCKernel ------------------------------
(* Small instances of the kernel for TLC. *)
EXTENDS Kernel

\* Two subscribers: the first matches every type (event_type is None), the
\* second one type only.
MCTypes == {"moved", "spoke"}
MCWants == <<MCTypes, {"spoke"}>>

MCOneType == {"moved"}
MCOneWants == <<MCOneType>>
=============================================================================
