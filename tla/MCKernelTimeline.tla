-------------------------- MODULE MCKernelTimeline --------------------------
(***************************************************************************)
(* A small instance of the kernel for TLC, from the registration of its    *)
(* modules on, together with its random numbers, at a width of five bits.  *)
(***************************************************************************)
EXTENDS MCKernel, Rng, Boot

\* The two odd factors and the shifts, scaled down.
MCMultipliers == <<13, 11>>
MCShifts == <<2, 2, 3>>

\* A run that is created will draw without favour, whatever its seed.
RunDrawsUniform == status = "CREATED" => DrawsUniform
=============================================================================
