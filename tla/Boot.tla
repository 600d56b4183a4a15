-------------------------------- MODULE Boot --------------------------------
(***************************************************************************)
(* How a run comes to start: modules are registered, the kernel is booted, *)
(* a boot that raises leaves it CREATED, and more may be registered before *)
(* the next one.  Nothing freezes the registry, which the kernel keeps by  *)
(* reference; a boot reads of it only whether its dependencies are in      *)
(* order, makes no use of the order itself and starts no module.           *)
(***************************************************************************)
EXTENDS Kernel, Registry

VARIABLES registry,   \* ModuleRegistry._modules: the dependencies of each module
          answer      \* how the last boot of what is registered now ended

\* The errors of dependencies that boots have raised; the code keeps nothing.
VARIABLE refusals

launch == <<registry, answer, refusals>>

NothingRegistered == [m \in {} |-> {}]

LaunchInit ==
    /\ Init
    /\ registry = NothingRegistered
    /\ answer = "none"
    /\ refusals = {}

\* ModuleRegistry.register: an identity that is taken is refused.  What is
\* registered after the start is not modelled: no boot reads it any more.
Register(m, dependencies) ==
    /\ status = "CREATED"
    /\ m \notin DOMAIN registry
    /\ registry' = [k \in DOMAIN registry \union {m} |->
                       IF k = m THEN dependencies ELSE registry[k]]
    /\ answer' = "none"
    /\ UNCHANGED <<vars, refusals>>

\* validate_dependencies raises, and nothing of the boot has happened.
BootRefused ==
    /\ status = "CREATED"
    /\ ValidateDependencies(registry).error # "none"
    /\ answer' = ValidateDependencies(registry).error
    /\ refusals' = refusals \union {answer'}
    /\ UNCHANGED <<vars, registry>>

\* The dependencies are in order and the store cannot be opened.
StoreFails ==
    /\ status = "CREATED"
    /\ ValidateDependencies(registry).error = "none"
    /\ answer' = "store"
    /\ UNCHANGED <<vars, registry, refusals>>

\* Boot of Kernel, which boots for as long as its dependencies allow it.  What
\* was registered and refused matters to no later step and is dropped.
BootStarts ==
    /\ ValidateDependencies(registry).error = "none"
    /\ Boot
    /\ registry' = NothingRegistered
    /\ answer' = "booted"
    /\ refusals' = {}

Started == status # "CREATED" /\ Next /\ UNCHANGED launch

LaunchNext ==
    \/ \E m \in Modules, dependencies \in SUBSET (Modules \union Unregistered) :
        Register(m, dependencies)
    \/ BootRefused \/ StoreFails \/ BootStarts
    \/ Started

LaunchSpec == LaunchInit /\ [][LaunchNext]_<<vars, launch>>
-----------------------------------------------------------------------------
(* Property                                                                *)

\* There is a list of the modules in which each follows what it depends on.
HasOrder(dependencies) ==
    \E order \in SetToSeqs(DOMAIN dependencies) : IsOrder(dependencies, order)

\* kernel.boot over any succession of registrations and boots: a run starts only
\* on modules that can be put in an order of their dependencies, a boot raises
\* for dependencies only while they cannot, and a cycle is not mended by what is
\* registered after it, as a missing module is: no run starts once a boot was
\* refused for a cycle.
BootIsOrdered ==
    [][/\ status = "CREATED" /\ status' # "CREATED" =>
            HasOrder(registry) /\ "cyclic" \notin refusals
       /\ answer' \in {"missing", "cyclic"} => ~HasOrder(registry')]_<<vars, launch>>
=============================================================================
